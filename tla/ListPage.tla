------------------------------ MODULE ListPage ------------------------------
(***************************************************************************)
(* One list page of the web client in a browser tab, and the server it     *)
(* asks.  No call is ever cancelled: answers are heard in any order, each  *)
(* one ends the spinner, and an action reloads the query of the render it  *)
(* was started from.                                                       *)
(***************************************************************************)
EXTENDS OrgLists, AdminLists, SequencesExt

CONSTANTS Page,       \* the pages of the instance
          MaxId,      \* rows the server can hold
          MaxMoves,   \* per page, bound on the clicks and changes of the user
          MaxLost,    \* per page, bound on the answers lost
          MaxCalls,   \* per page, calls in flight beyond which the user waits
          MaxPolls,   \* IMPORT_MAX_ATTEMPTS (45 in the code)
          Email       \* addresses of candidates

Pages == {"candidats", "electeurs", "scrutins", "resultats", "revenus", "retraits", "staff",
          "members", "jurys", "journal", "categories", "manager", "users", "elections",
          "organisations", "subscriptions", "audits", "withdrawals", "notifications", "admins",
          "home", "open"}

ASSUME ListConstants ==
    /\ Page \subseteq Pages
    /\ MaxId \in Nat /\ MaxId >= 2
    /\ MaxMoves \in [Pages -> Nat] /\ MaxLost \in [Pages -> Nat]
    /\ MaxCalls \in [Pages -> Nat] /\ MaxPolls \in Nat \ {0}
    /\ "none" \notin Group    \* no election has the name of "none is chosen yet"
    /\ "none" \notin Email    \* nor is an address that of "no address"

VARIABLES
    page,    \* the page shown
    server,  \* its rows: deleted ones keep their place in the unique indexes
    jobs,    \* imports and calculations queued
    view,    \* the state of the page's component
    calls,   \* calls in flight and timers
    moves,   \* moves so far, which also number the calls
    lost,    \* answers lost so far
    calm     \* answers heard in order, none lost, no change of the query while
             \* an action was in flight, no job finished unseen, and no "not
             \* ready" heard while later results were on their way

vars == <<page, server, jobs, view, calls, moves, lost, calm>>

Whole == {"resultats", "staff", "members", "jurys", "manager"}   \* not paginated
Chosen == {"staff", "jurys", "resultats"}                        \* elections first

Statuses == [candidats |-> {"pending"}, electeurs |-> {"pending", "verified"},
             scrutins |-> {"draft", "published", "ongoing", "paused"},
             resultats |-> {"ongoing", "closed"}, revenus |-> {"completed", "failed"},
             retraits |-> {"pending"}, staff |-> {"manager"}, members |-> {"owner", "member"},
             jurys |-> {"juror"}, journal |-> {"create", "delete"},
             categories |-> {"active", "inactive"}, manager |-> {"active"},
             users |-> {"active", "suspended"}, elections |-> {"draft", "ongoing"},
             organisations |-> {"active", "suspended"}, subscriptions |-> {"active", "cancelled"},
             audits |-> {"create", "delete"}, withdrawals |-> {"pending", "approved", "paid"},
             notifications |-> {"unread", "read"}, admins |-> {"admin"},
             home |-> {"published", "ongoing"}, open |-> {"published"}]

(* from: the application a candidate was made of; email: that of the       *)
(* candidates and applications (an application's never changes); edited:   *)
(* whether it was changed since; results: how many times those of an       *)
(* election were calculated.                                               *)
Row(id, tab, group, status) ==
    [id |-> id, tab |-> tab, group |-> group, status |-> status, from |-> 0, email |-> "none",
     edited |-> FALSE, results |-> 0]

-----------------------------------------------------------------------------
(* The server: the rows of a query, one to a page (PER_PAGE, 10 to 20 in   *)
(* the code) unless the page shows them all; there is no page below 1.     *)
Listed(q) ==
    {r \in server : /\ r.status # "deleted" /\ r.tab = q.tab
                    /\ q.status \in {"all", r.status}
                    /\ q.group \in {"all", r.group}
                    /\ q.search # "" => r.id = 1}

(* orderBy created_at, the newest first.                                   *)
NewestFirst(rows) == SetToSortSeq(rows, LAMBDA r, s : r.id > s.id)

(* Resultats asks for an election, then for the latest snapshot of its     *)
(* results, which a closed election has once they were calculated (else    *)
(* the answer is a 404): detail is the answer to the first call, rows to   *)
(* the second.                                                             *)
Answer(q) ==
    LET all == NewestFirst(Listed(q))
        n   == Len(all)
        p   == IF q.page < 1 THEN 1 ELSE q.page
    IN  [rows  |-> CASE page = "resultats" ->
                          IF n > 0 /\ all[1].status = "closed" /\ all[1].results # 0
                          THEN <<all[1]>> ELSE <<>>
                     [] page \in Whole \ {"resultats"} -> all
                     [] page \notin Whole /\ p <= n -> <<all[p]>>
                     [] OTHER -> <<>>,
         last  |-> IF page \in Whole \/ n = 0 THEN 1 ELSE n,
         total |-> n,
         at    |-> p,
         detail |-> IF n = 0 THEN "none" ELSE all[1].status]

NoAnswer == [rows |-> <<>>, last |-> 1, total |-> 0, at |-> 1, detail |-> "none"]

Becomes == [approve |-> "approved", reject |-> "rejected", approveApplication |-> "approved",
            rejectApplication |-> "rejected", delete |-> "deleted", verify |-> "verified",
            publish |-> "published", start |-> "ongoing", pause |-> "paused", resume |-> "ongoing",
            end |-> "closed", suspend |-> "suspended", activate |-> "active",
            cancel |-> "cancelled", read |-> "read"]

Onto(op, r) ==
    IF op = "review" THEN IF r.status = "pending" THEN "approved" ELSE "paid" ELSE Becomes[op]

(* The unique index on the election and the email of the candidates, those *)
(* in the trash included: is e the address of one other than id?           *)
Taken(e, g, id) ==
    e # "none" /\ \E s \in server : s.tab = "main" /\ s.group = g /\ s.email = e /\ s.id # id

(* A mutant: no unique index on the email of an election's candidates.     *)
Accepts_NoIndex(op, r, typed) ==
    /\ r.status # "deleted"
    /\ op = "publish" => r.status = "draft"
    /\ op = "start"   => r.status = "published"
    /\ op = "pause"   => r.status = "ongoing"
    /\ op = "resume"  => r.status = "paused"
    /\ op = "end"     => r.status \in {"published", "ongoing", "paused"}
    /\ op # "rejectBlank"
    /\ op = "approveApplication" => r.tab = "applications"

(* What the server refuses of an action on r (typed: the address of the    *)
(* form): most statuses are not checked, not that of an application, which *)
(* is approved as long as its address is free.                             *)
Accepts(op, r, typed) ==
    /\ Accepts_NoIndex(op, r, typed)
    /\ op = "approveApplication" => ~Taken(r.email, r.group, r.id)
    /\ op = "save" => ~Taken(typed, r.group, r.id)

Fresh == Cardinality(server) + 1

(* The address in the form of a candidate: required of a new one, any      *)
(* (also the one it has) of one that is edited, whose form does not send   *)
(* an empty one ("none").                                                  *)
Typable(op) ==
    CASE page = "candidats" /\ op = "save"   -> Email \cup {"none"}
      [] page = "candidats" /\ op = "create" -> Email
      [] OTHER                               -> {"none"}

(* What is written in a row: an address, a status, or nothing (the codes). *)
Written(op, r, typed) ==
    CASE op = "save" /\ r.tab = "main" /\ typed # "none" ->
           [r EXCEPT !.email = typed, !.edited = @ \/ typed # r.email]
      [] op \in {"review"} \cup DOMAIN Becomes -> [r EXCEPT !.status = Onto(op, r)]
      [] OTHER -> r

(* The election of a new row, and its status: a candidate the organisation *)
(* creates or imports is approved.                                         *)
Target(c) == IF c.q.group = "all" THEN "g1" ELSE c.q.group
Created == IF page = "candidats" THEN {"approved"} ELSE Statuses[page]

(* The rows after op; rows of another election than the query's are not    *)
(* touched by a bulk verification.                                         *)
After(c, typed) ==
    LET hit  == {r \in server : r.id \in c.ids /\ Accepts(c.op, r, typed)
                                    /\ (c.op = "verify" => r.group = c.q.group)}
        kept == (server \ hit) \cup {Written(c.op, r, typed) : r \in hit}
    IN  CASE c.op = "create" ->
               {kept \cup {[Row(Fresh, "main", Target(c), s) EXCEPT !.email = typed]} : s \in Created}
          [] c.op = "approveApplication" /\ hit # {} ->
               {kept \cup {[Row(Fresh, "main", r.group, "approved") EXCEPT
                                !.from = r.id, !.email = r.email] : r \in hit}}
          [] OTHER -> {kept}

Refused(c, typed) ==
    \/ /\ c.ids # {} /\ c.op \notin {"verify", "codes"}
       /\ \E r \in server : r.id \in c.ids /\ ~Accepts(c.op, r, typed)
    \/ c.op = "create" /\ Taken(typed, Target(c), 0)
    \/ c.op = "calculate" /\ \A r \in server : r.group = c.q.group => r.status # "closed"

-----------------------------------------------------------------------------
(* The page shown, by its name.                                            *)
View ==
    CASE page = "candidats" -> CandidatsView
      [] page = "electeurs" -> ElecteursView
      [] page = "scrutins"  -> ScrutinsView
      [] page = "resultats" -> [ResultatsView EXCEPT !.loading = TRUE]
      [] page \in {"revenus", "retraits"} -> RevenusView
      [] page = "staff"     -> StaffView
      [] page = "jurys"     -> JurysView
      [] OTHER              -> SuperView(TRUE)

Load(c) ==
    CASE page = "candidats" -> CandidatsLoad(view, c)
      [] page = "electeurs" -> ElecteursLoad(view, c)
      [] page = "scrutins"  -> ScrutinsLoad(view, c)
      [] page = "resultats" -> ResultatsLoad(view, c)
      [] page = "revenus"   -> RevenusLoad(view, c)
      [] page = "retraits"  -> RetraitsLoad(view, c)
      [] page = "staff"     -> StaffLoad(view, c)
      [] page = "members"   -> MembersLoad(view, c)
      [] page = "jurys"     -> JurysLoad(view, c)
      [] page = "journal"   -> AuditLogsLoad(view, c)
      [] page = "categories" -> CategoriesLoad(view, c)
      [] page = "manager"   -> CategoryManagerLoad(view, c)
      [] page = "users"     -> fetchUsers(view, c)
      [] page = "elections" -> ElectionsLoad(view, c)
      [] page = "organisations" -> OrganisationsLoad(view, c)
      [] page = "subscriptions" -> SubscriptionsLoad(view, c)
      [] page = "audits"    -> AuditsLoad(view, c)
      [] page = "withdrawals" -> WithdrawalsLoad(view, c)
      [] page = "notifications" -> NotificationsLoad(view, c)
      [] page = "admins"    -> AdminsLoad(view, c)
      [] page = "home"      -> HomeLoad(view, c)
      [] page = "open"      -> OpenLoad(view, c)

(* What the controls do that does not go through the effects.              *)
Effect(w) ==
    CASE page = "candidats" -> CandidatsEffects(view, w)
      [] page = "electeurs" -> ElecteursEffects(view, w)
      [] page = "scrutins"  -> ScrutinsEffects(view, w)
      [] page = "resultats" -> ResultatsEffects(view, w)
      [] page \in {"revenus", "retraits"} -> RevenusEffects(view, w)
      [] page = "staff"     -> StaffEffects(view, w)
      [] page = "jurys"     -> JurysEffects(view, w)
      [] page = "journal"   -> AuditLogsEffects(view, w)
      [] page = "categories" -> CategoriesEffects(view, w)
      [] page = "elections" -> ElectionsEffects(view, w)
      [] page = "organisations" -> OrganisationsEffects(view, w)
      [] page = "subscriptions" -> SubscriptionsEffects(view, w)
      [] page = "audits"    -> AuditsEffects(view, w)
      [] page = "withdrawals" -> WithdrawalsEffects(view, w)
      [] page = "notifications" -> NotificationsEffects(view, w)
      [] page = "admins"    -> AdminsEffects(view, w)
      [] page = "home"      -> HomeEffects(view, w)
      [] page = "open"      -> OpenEffects(view, w)
      [] OTHER              -> Change(w, <<>>)

Bar ==
    LET v == view IN
    CASE page = "candidats" -> CandidatsBar(v) \cup CandidatsTurns(v)
      [] page = "electeurs" -> ElecteursBar(v) \cup ElecteursTurns(v) \cup ElecteursSelect(v)
      [] page = "scrutins"  -> ScrutinsBar(v)
      [] page = "resultats" /\ v.q.group # "none" -> ResultatsBar(v)
      [] page = "revenus"   -> RevenusBar(v) \cup RevenusTurns(v)
      [] page = "retraits"  -> RetraitsTurns(v)
      [] page = "staff"     -> StaffBar(v)
      [] page = "jurys"     -> JurysBar(v)
      [] page = "journal"   -> AuditLogsBar(v) \cup AuditLogsTurns(v)
      [] page = "categories" -> CategoriesBar(v) \cup CategoriesTurns(v)
      [] page = "elections" -> ElectionsBar(v) \cup ElectionsTurns(v)
      [] page = "organisations" -> OrganisationsBar(v) \cup OrganisationsTurns(v)
      [] page = "subscriptions" -> SubscriptionsBar(v) \cup SubscriptionsTurns(v)
      [] page = "audits"    -> AuditsBar(v) \cup AuditsTurns(v)
      [] page = "withdrawals" -> WithdrawalsBar(v) \cup WithdrawalsTurns(v)
      [] page = "notifications" -> NotificationsBar(v) \cup NotificationsTurns(v)
      [] page = "admins"    -> AdminsBar(v) \cup AdminsTurns(v)
      [] page = "home"      -> HomeBar(v) \cup HomeTurns(v)
      [] page = "open"      -> OpenBar(v) \cup OpenTurns(v)
      [] OTHER              -> {}

Controls ==
    {Effect(w) : w \in Bar} \cup
    CASE page = "scrutins" -> ScrutinsTurns(view)
      [] page = "users"    -> UsersBar(view) \cup UsersTurns(view)
      [] OTHER             -> {}

Offered ==
    LET v == view IN
    CASE page = "candidats" -> CandidatsRows(v) \cup CandidatsImport(v) \cup CandidatsModal(v)
      [] page = "electeurs" -> ElecteursRows(v) \cup ElecteursVerify(v) \cup ElecteursSendCodes(v)
                                   \cup ElecteursImport(v)
      [] page = "scrutins"  -> ScrutinsRows(v)
      [] page = "resultats" -> ResultatsRows(v)
      [] page = "retraits"  -> RetraitsModal(v)
      [] page = "staff"     -> StaffRows(v)
      [] page = "members"   -> MembersRows(v)
      [] page = "jurys"     -> JurysRows(v)
      [] page = "manager"   -> CategoryManagerRows(v) \cup CategoryManagerAdd(v)
      [] page = "users"     -> UsersRows(v)
      [] page = "elections" -> ElectionsRows(v)
      [] page = "organisations" -> OrganisationsRows(v)
      [] page = "subscriptions" -> SubscriptionsRows(v)
      [] page = "withdrawals" -> WithdrawalsRows(v)
      [] page = "notifications" -> NotificationsRows(v)
      [] page = "admins"    -> AdminsRows(v)
      [] OTHER              -> {}

-----------------------------------------------------------------------------
(* then: the queries loaded on success; mark: the button kept busy; part:  *)
(* the lists that came, of a page that fetches several; done: what a poll  *)
(* was told of its job.                                                    *)
Call(n, op, q) ==
    [n |-> n, op |-> op, q |-> q, ids |-> {}, then |-> <<>>, mark |-> Free, status |-> "sent",
     ans |-> NoAnswer, part |-> {}, tries |-> 0, job |-> 0, done |-> "running"]

Latest(cs) == IF cs = {} THEN 0 ELSE CHOOSE m \in {c.n : c \in cs} : \A c \in cs : c.n <= m

Sent(cs, asks) == cs \cup {Call(Latest(cs) + i, "load", asks[i]) : i \in DOMAIN asks}

(* Queries are sent: the spinner, and the rows of Resultats, go with them. *)
Asks(v, asks) ==
    LET w == [v EXCEPT !.loading = @ \/ asks # <<>>]
    IN  IF page = "resultats" /\ asks # <<>> THEN ResultatsStart(w) ELSE w

(* On Resultats, "load" is the call for the election and "final" the one   *)
(* for its results.                                                        *)
Reads == {"load", "final"}
Loads == Reads \cup {"elections"}
InFlight(cs) == {c \in cs : c.op \notin Loads}

Init ==
    /\ page \in Page
    /\ \E s, t \in Statuses[page] :
          \E tab \in IF page = "candidats" THEN Tab ELSE {"main"} :
          \E e \in IF page = "candidats" THEN Email ELSE {"none"} :
          \E k \in IF page = "resultats" /\ t = "closed" THEN {0, 1} ELSE {0} :
             server = {Row(1, "main", "g1", s),
                       [Row(2, tab, "g2", t) EXCEPT !.email = e, !.results = k]}
    /\ jobs = {} /\ view = [View EXCEPT !.loading = TRUE]
    /\ calls = CASE page \in Chosen -> {Call(1, "elections", view.q)}
                 [] page = "users"  -> Sent({}, UsersMount(view))
                 [] OTHER           -> Sent({}, <<view.q>>)
    /\ moves = 0 /\ lost = 0 /\ calm = TRUE

UserMoves ==
    /\ moves < MaxMoves[page] /\ moves' = moves + 1
    /\ Cardinality(calls) < MaxCalls[page]

(* A control: a select, the search box, a page, a row selected.            *)
Turn ==
    /\ UserMoves
    /\ \E m \in Controls :
          /\ m.view # view \/ m.asks # <<>>
          /\ view' = Asks(m.view, m.asks) /\ calls' = Sent(calls, m.asks)
          /\ calm' = (calm /\ (m.view.q = view.q \/ InFlight(calls) = {}))
    /\ UNCHANGED <<page, server, jobs, lost>>

(* useDebounce lets the text through (400 to 4000 ms after the last key).  *)
Debounce ==
    /\ view.typed # view.debounced
    /\ LET w == Debounced(view)
           m == IF page = "users" THEN Change([view EXCEPT !.debounced = view.typed], <<>>) ELSE Effect(w)
       IN  /\ view' = Asks(m.view, m.asks) /\ calls' = Sent(calls, m.asks)
           /\ calm' = (calm /\ (m.view.q = view.q \/ InFlight(calls) = {}))
    /\ UNCHANGED <<page, server, jobs, moves, lost>>

Creates == {"create", "approveApplication", "import", "importNow"}
Room == Cardinality(server) + Cardinality({c \in calls : c.op \in Creates}) + Cardinality(jobs) < MaxId

(* A row's button, a modal, an import: confirmed by the user.              *)
Act ==
    /\ UserMoves
    /\ \E a \in Offered :
          /\ a.op \in Creates => Room
          /\ calls' = calls \cup {[Call(Latest(calls) + 1, a.op, view.q) EXCEPT
                                      !.ids = a.ids, !.then = a.then, !.mark = a.mark]}
          /\ view' = CASE page = "scrutins" -> ScrutinsStart(view, a)
                       [] page # "scrutins" /\ a.mark # Free -> [view EXCEPT !.busy = @ \cup {a.mark}]
                       [] OTHER -> view
    /\ UNCHANGED <<page, server, jobs, lost, calm>>

-----------------------------------------------------------------------------
Set(c, d) == calls' = (calls \ {c}) \cup {d}

ServeRows(c) ==
    /\ c.op \in Loads /\ c.status = "sent"
    /\ Set(c, [c EXCEPT !.status = "ok", !.ans = IF c.op \in Reads THEN Answer(c.q) ELSE NoAnswer])
    /\ UNCHANGED <<page, server, jobs, view, moves, lost, calm>>

Queues == {"import", "importNow", "calculate"}

ServeAction(c) ==
    /\ c.op \notin Loads \cup {"poll", "timer"} /\ c.status = "sent"
    /\ \E typed \in Typable(c.op) :
       IF Refused(c, typed)
       THEN Set(c, [c EXCEPT !.status = "refused"]) /\ UNCHANGED <<server, jobs>>
       ELSE LET id == Cardinality(jobs) + 1
            IN  /\ Set(c, [c EXCEPT !.status = "ok", !.job = IF c.op \in Queues THEN id ELSE 0])
                /\ server' \in After(c, typed)
                /\ jobs' = IF c.op \in Queues
                           THEN jobs \cup {[id |-> id, op |-> c.op, group |-> c.q.group, state |-> "running"]}
                           ELSE jobs
    /\ UNCHANGED <<page, view, moves, lost, calm>>

ServePoll(c) ==
    /\ c.op = "poll" /\ c.status = "sent"
    /\ \E j \in jobs : j.id = c.job /\ Set(c, [c EXCEPT !.status = "ok", !.done = j.state])
    /\ UNCHANGED <<page, server, jobs, view, moves, lost, calm>>

(* What a job does.  A line of a file whose address is taken is rejected,  *)
(* and the import completed; a calculation checks no status, and changes   *)
(* none.                                                                   *)
Done(j) ==
    CASE j.op = "calculate" ->
           {{IF r.group = j.group THEN [r EXCEPT !.results = @ + 1] ELSE r : r \in server}}
      [] j.op = "import" ->
           {server} \cup {server \cup {[Row(Fresh, "main", j.group, "approved") EXCEPT !.email = e]}
                          : e \in {x \in Email : ~Taken(x, j.group, 0)}}
      [] OTHER -> {server \cup {Row(Fresh, "main", j.group, "pending")}}

(* Someone who will read what a job has done: the poll of an import, the   *)
(* timer of a calculation.                                                 *)
Awaits(c, j) ==
    \/ c.op = "import"
    \/ c.op \in {"poll", "calculate", "timer"} /\ c.job = j.id

(* A queue worker does a job, or fails.                                    *)
Work(j) ==
    /\ j.state = "running"
    /\ \E state \in {"completed", "failed"} :
          /\ jobs' = (jobs \ {j}) \cup {[j EXCEPT !.state = state]}
          /\ IF state = "failed" THEN UNCHANGED server ELSE server' \in Done(j)
          /\ calm' = (calm /\ (server' = server \/ \E c \in calls : Awaits(c, j)))
    /\ UNCHANGED <<page, view, calls, moves, lost>>

(* An error of the network or of the server, before or after the deed.  A  *)
(* page that fetches several lists may have got some of them.              *)
Lose(c) ==
    /\ lost < MaxLost[page] /\ lost' = lost + 1
    /\ c.status \in {"sent", "ok"} /\ c.op # "timer"
    /\ \E part \in IF page \in {"staff", "jurys"} /\ c.op = "load" THEN SUBSET Group \ {Group} ELSE {{}} :
          Set(c, [c EXCEPT !.status = "lost", !.part = part,
                           !.ans = IF c.op \in Reads THEN Answer(c.q) ELSE NoAnswer])
    /\ calm' = FALSE
    /\ UNCHANGED <<page, server, jobs, view, moves>>

-----------------------------------------------------------------------------
(* On Resultats the election is there, and closed: its results are asked.  *)
GoesOn(c) == page = "resultats" /\ c.op = "load" /\ c.status = "ok" /\ isClosed(c.ans.detail)

HearDetail(c) ==
    /\ GoesOn(c)
    /\ view' = ResultatsDetail(view, c)
    /\ Set(c, [c EXCEPT !.op = "final", !.status = "sent", !.ans = NoAnswer])
    /\ calm' = (calm /\ \A d \in calls : d.op \in Reads => d.n >= c.n)
    /\ UNCHANGED <<page, server, jobs, moves, lost>>

(* The answer of a load, whatever was asked since.                         *)
HearRows(c) ==
    /\ c.op \in Reads /\ c.status # "sent" /\ ~GoesOn(c)
    /\ view' = Load(c) /\ calls' = calls \ {c}
    /\ calm' = (calm /\ \A d \in calls \ {c} : d.op \in Reads => d.n >= c.n /\ ~view'.notReady)
    /\ UNCHANGED <<page, server, jobs, moves, lost>>

(* The elections are there (or not): the list of one, or of all, is asked. *)
HearElections(c) ==
    /\ c.op = "elections" /\ c.status # "sent"
    /\ \E g \in Group :
          LET m == CASE c.status # "ok"       -> [view |-> [view EXCEPT !.loading = FALSE], asks |-> <<>>]
                     [] c.status = "ok" /\ page = "resultats" -> ResultatsElections(view, g)
                     [] OTHER                 -> StaffElections(view)
          IN  view' = Asks(m.view, m.asks) /\ calls' = Sent(calls \ {c}, m.asks)
    /\ UNCHANGED <<page, server, jobs, moves, lost, calm>>

Ended(v, c) == IF page = "scrutins" THEN ScrutinsDone(v) ELSE [v EXCEPT !.busy = @ \ {c.mark}]

(* An action succeeded: the query it was started from is loaded, an import *)
(* is polled, a calculation waited for.                                    *)
HearAction(c) ==
    /\ c.op \notin Loads \cup {"poll", "timer"} /\ c.status = "ok"
    /\ CASE c.op = "import"    -> Set(c, [c EXCEPT !.op = "poll", !.status = "sent"]) /\ UNCHANGED view
         [] c.op = "calculate" -> Set(c, [c EXCEPT !.op = "timer"]) /\ UNCHANGED view
         [] OTHER ->
              /\ calls' = Sent(calls \ {c}, c.then)
              /\ view' = Asks(Ended(IF c.op \in {"verify", "codes"} THEN ElecteursSent(view) ELSE view, c), c.then)
    /\ UNCHANGED <<page, server, jobs, moves, lost, calm>>

(* A mutant: the flag is only dropped when the action succeeds.            *)
HearError_NoFinally(c) ==
    /\ c.op \notin Loads \cup {"poll", "timer"} /\ c.status \in {"refused", "lost"}
    /\ calls' = calls \ {c}
    /\ UNCHANGED <<page, server, jobs, view, moves, lost, calm>>

(* It failed: a toast.                                                     *)
HearError(c) ==
    /\ c.op \notin Loads \cup {"poll", "timer"} /\ c.status \in {"refused", "lost"}
    /\ calls' = calls \ {c} /\ view' = Ended(view, c)
    /\ UNCHANGED <<page, server, jobs, moves, lost, calm>>

(* pollImportStatus: an error, like a job still running, is asked again;   *)
(* after MaxPolls answers the page gives up, the job goes on.              *)
HearPoll(c) ==
    /\ c.op = "poll" /\ c.status # "sent"
    /\ CASE c.status = "ok" /\ c.done = "completed" ->
              calls' = Sent(calls \ {c}, c.then) /\ view' = Asks(view, c.then)
         [] c.status = "ok" /\ c.done = "failed" -> calls' = calls \ {c} /\ UNCHANGED view
         [] OTHER ->
              /\ calls' = (calls \ {c}) \cup
                    (IF c.tries + 1 < MaxPolls THEN {[c EXCEPT !.status = "sent", !.tries = @ + 1]} ELSE {})
              /\ UNCHANGED view
    /\ calm' = (calm /\ ~(c.done = "running" /\ c.tries + 1 = MaxPolls))
    /\ UNCHANGED <<page, server, jobs, moves, lost>>

(* setTimeout of handleRecalculate.                                        *)
Fire(c) ==
    /\ c.op = "timer"
    /\ calls' = Sent(calls \ {c}, c.then) /\ view' = Asks(Ended(view, c), c.then)
    /\ UNCHANGED <<page, server, jobs, moves, lost, calm>>

Next ==
    \/ Turn \/ Debounce \/ Act
    \/ \E j \in jobs : Work(j)
    \/ \E c \in calls : \/ ServeRows(c) \/ ServeAction(c) \/ ServePoll(c) \/ Lose(c)
                        \/ HearDetail(c) \/ HearRows(c) \/ HearElections(c) \/ HearAction(c) \/ HearError(c)
                        \/ HearPoll(c) \/ Fire(c)

Spec == Init /\ [][Next]_vars

-----------------------------------------------------------------------------
(* Nothing is in flight and the search box has settled.                   *)
Quiet == calls = {} /\ view.typed = view.debounced

(* Once nothing is in flight, a list shows what the server has for the     *)
(* criteria its controls show: if the answers came in order, none was      *)
(* lost, no control was touched while an action was in flight (its reload  *)
(* is that of the old controls), no job was done that no call awaits, and  *)
(* no "not ready" of an election was heard while the next one loads (it    *)
(* hides that one's results).  The page is that of the pager, except on    *)
(* Candidats and Electeurs (page 1 is not reloaded when one goes back to   *)
(* it, an import loads it under any number) and, under number 1, on        *)
(* Scrutins.                                                               *)
RowsAreCurrent ==
    Quiet /\ calm =>
        LET o == view.of[view.q.tab]
        IN  /\ Criteria(o) = Criteria(view.q)
            /\ Shown(view) = ToSet(Answer(o).rows)
            /\ \/ o.page = view.q.page
               \/ page \in {"candidats", "electeurs"}
               \/ page = "scrutins" /\ view.q.page = 1

(* A spinner, and a button a call keeps disabled, end: each has the call   *)
(* whose answer or error ends it.                                          *)
SpinnersHaveCalls ==
    /\ view.loading => \E c \in calls : c.op \in Loads
    /\ \A b \in view.busy : \E c \in calls : c.mark = b

(* The electors selected for a bulk verification, or a mailing, are on the *)
(* screen, unless the last load failed: it clears the rows and keeps the   *)
(* selection, which the button still offers.                               *)
SelectionIsShown == view.failed \/ view.selected \subseteq {r.id : r \in Shown(view)}

(* Whatever buttons of a list not yet reloaded are pressed again, and in   *)
(* whatever order the server does it, an application becomes a second      *)
(* candidate only after the address of the first was changed (the index on *)
(* the address is all that refuses a second approval).                     *)
SecondNeedsEdit ==
    \A r, s \in server : r # s /\ r.from = s.from /\ r.from # 0 => r.edited \/ s.edited
=============================================================================
