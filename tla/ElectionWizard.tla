--------------------------- MODULE ElectionWizard ---------------------------
(***************************************************************************)
(* The wizard that creates an election (CreateScrutin and its steps) in a  *)
(* browser tab, with the server, another manager of the organisation and   *)
(* the job that deletes stale drafts.  Each step is a component: it is     *)
(* forgotten when the step changes, the calls it has sent go on.           *)
(***************************************************************************)
EXTENDS Integers, FiniteSets, FiniteSetsExt

CONSTANTS Form,          \* what step 1 can be filled with
          File,          \* files of candidates, typed or imported together
          MaxDrafts,     \* elections the wizard can create
          MaxElections,  \* max_elections of the plan
          PerPage,       \* candidates of a page of the server's list (15)
          Threshold,     \* SERVER_IMPORT_THRESHOLD (20)
          MaxMoves,      \* bound on the clicks
          MaxFaults      \* bound on the answers lost and the deeds of others

VARIABLES
    drafts,   \* the elections on the server
    jobs,     \* imports queued
    stored,   \* sessionStorage's wizard_draft_uuid
    wiz,      \* the state of CreateScrutin
    step,     \* the state of the component of the step shown
    calls,    \* calls in flight
    closed,   \* drafts the user has saved, or published from the wizard shown
    late,     \* drafts whose publication was answered to a wizard left before
    clean,    \* every answer to the creation of a draft was heard
    moves, others, lost

vars == <<drafts, jobs, stored, wiz, step, calls, closed, late, clean, moves, others, lost>>

NoForm == [mode |-> "public", weighted |-> FALSE, accepts |-> FALSE, cats |-> FALSE]

(* A candidate of the list: 0 for no email; cat: it has a category;        *)
(* on: alreadyOnServer.                                                    *)
Candidate(email, cat, on) == [email |-> email, cat |-> cat, on |-> on]
Candidates == [email : 0..3, cat : BOOLEAN, on : BOOLEAN]

ASSUME WizardConstants ==
    /\ Form \subseteq [mode : {"public", "private"}, weighted : BOOLEAN, accepts : BOOLEAN, cats : BOOLEAN]
    /\ \A f \in File : f \subseteq [email : 0..3, cat : BOOLEAN, on : {FALSE}]
    /\ \A n \in {MaxDrafts, MaxElections, PerPage, Threshold} : n \in Nat \ {0}
    /\ MaxMoves \in Nat /\ MaxFaults \in Nat

Emails(cs) == {c.email : c \in cs}

-----------------------------------------------------------------------------
(* The steps: the jury's criteria come second in a weighted election.      *)
Steps(f) == IF f.weighted THEN <<"general", "criteria", "cands", "voters", "recap">>
                          ELSE <<"general", "cands", "voters", "recap">>

(* The step number may go past the last step: nothing is shown.            *)
Screen(w) ==
    CASE ~w.open                               -> "none"
      [] w.open /\ w.blocked                   -> "quota"
      [] w.open /\ ~w.blocked /\ w.at \notin DOMAIN Steps(w.general) -> "blank"
      [] OTHER                                 -> Steps(w.general)[w.at]

Call(op, n, k, draft) ==
    [op |-> op, n |-> n, k |-> k, draft |-> draft, form |-> NoForm, rows |-> {}, all |-> {},
     made |-> {}, job |-> 0, status |-> "sent", yes |-> FALSE, list |-> {}, id |-> 0]

Writes == {"draft", "criterion", "create", "import", "enroll", "elector", "publish"}

(* What a component mounted as number k starts from.                       *)
Mount(w, k) ==
    [k |-> k, cands |-> w.cands, submitting |-> FALSE, file |-> {}, import |-> "none", job |-> 0,
     preview |-> w.preview, manual |-> w.manual, existing |-> FALSE, count |-> FALSE]

(* And what it asks at once.                                               *)
MountCalls(w, k) ==
    IF w.draft = 0 THEN {}
    ELSE CASE Screen(w) = "criteria" -> {Call("criteria", w.n, k, w.draft)}
           [] Screen(w) = "cands"    -> {Call("refresh", w.n, k, w.draft)}
           [] Screen(w) = "voters"   -> {Call("electors", w.n, k, w.draft)}
           [] OTHER                  -> {}

(* A call nobody waits for any more matters as long as the server has not  *)
(* done it; publish takes the user elsewhere even from another page.       *)
Matters(c, w, k) ==
    \/ c.op = "publish"
    \/ c.op \in Writes /\ c.status = "sent" /\ (c.op = "create" => c.rows # {})
    \/ w.open /\ w.n = c.n /\ (c.op \in {"check", "quota", "draft", "create"} \/ c.k = k)

(* The wizard becomes w, with the calls cs: another screen is another      *)
(* component.                                                              *)
Becomes(w, cs) ==
    LET same == Screen(w) = Screen(wiz)
        k    == IF same THEN step.k ELSE step.k + 1 IN
    /\ wiz' = w
    /\ step' = IF same THEN step ELSE Mount(w, k)
    /\ calls' = {c \in cs \cup IF same THEN {} ELSE MountCalls(w, k) : Matters(c, w, k)}

Click == moves < MaxMoves /\ moves' = moves + 1
On(screen) == Screen(wiz) = screen /\ ~wiz.submitting /\ Click

Nobody == [n |-> 0, open |-> FALSE, blocked |-> FALSE, at |-> 1, draft |-> 0, general |-> NoForm,
           cands |-> {}, preview |-> FALSE, manual |-> FALSE, submitting |-> FALSE]

Nothing == [status |-> "none", form |-> NoForm, cands |-> {}, voters |-> FALSE, criteria |-> FALSE]

Init ==
    /\ drafts = [d \in 1..MaxDrafts |-> Nothing] /\ jobs = {} /\ stored = 0
    /\ wiz = Nobody /\ step = Mount(Nobody, 0) /\ calls = {} /\ closed = {} /\ late = {} /\ clean = TRUE
    /\ moves = 0 /\ others = 0 /\ lost = 0

-----------------------------------------------------------------------------
(* CreateScrutin.                                                          *)

(* It is opened, or the page reloaded: the draft is the one kept in        *)
(* sessionStorage, its status is asked, and the plan's quota.              *)
Open ==
    /\ ~wiz.open /\ Click
    /\ Becomes([Nobody EXCEPT !.n = wiz.n + 1, !.open = TRUE, !.draft = stored],
               calls \cup {Call("quota", wiz.n + 1, 0, 0)} \cup
               (IF stored = 0 THEN {} ELSE {Call("check", wiz.n + 1, 0, stored)}))
    /\ UNCHANGED <<drafts, jobs, stored, closed, late, clean, others, lost>>

Creating(cs) == {c \in cs : c.op = "draft" /\ c.draft = 0 /\ c.status # "refused"}

(* Another page: the calls in flight will find nobody.  As often as it was *)
(* opened: not counted as a click.                                         *)
Leave ==
    /\ wiz.open /\ UNCHANGED moves
    /\ Becomes([Nobody EXCEPT !.n = wiz.n], calls)
    /\ clean' = (clean /\ Creating(calls) = {})
    /\ UNCHANGED <<drafts, jobs, stored, closed, late, others, lost>>

handleStepClick(at) ==
    /\ Screen(wiz) \notin {"none", "quota"} /\ ~wiz.submitting /\ Click
    /\ at \in 1..wiz.at /\ at # wiz.at /\ (at = 1 \/ wiz.draft # 0)
    /\ Becomes([wiz EXCEPT !.at = at], calls)
    /\ UNCHANGED <<drafts, jobs, stored, closed, late, clean, others, lost>>

handlePrevious ==
    /\ \E s \in {"criteria", "cands", "voters", "recap"} : On(s)
    /\ Screen(wiz) = "cands" => ~step.submitting
    /\ Becomes([wiz EXCEPT !.at = @ - 1], calls)
    /\ UNCHANGED <<drafts, jobs, stored, closed, late, clean, others, lost>>

(* Step 1 is validated; candidacies are for public elections.              *)
handleSubmit(f) == [f EXCEPT !.accepts = f.accepts /\ f.mode = "public"]

(* The draft is created, or changed if there is one.                       *)
handleStep1Next(f) ==
    /\ On("general")
    /\ Becomes([wiz EXCEPT !.submitting = TRUE],
               calls \cup {[Call("draft", wiz.n, 0, wiz.draft) EXCEPT !.form = handleSubmit(f)]})
    /\ UNCHANGED <<drafts, jobs, stored, closed, late, clean, others, lost>>

(* The conditions of the Publish button.                                   *)
IsPublish(w) ==
    \/ w.general.accepts
    \/ Cardinality(w.cands) >= 2 /\ (w.general.cats => \A c \in w.cands : c.cat)

(* A mutant: the draft saved stays that of the wizard.                     *)
handleSaveDraft_Kept ==
    /\ On("recap")
    /\ Becomes([Nobody EXCEPT !.n = wiz.n], calls) /\ closed' = closed \cup ({wiz.draft} \ {0})
    /\ UNCHANGED <<drafts, jobs, stored, late, clean, others, lost>>

(* submitElection: without a draft, back to step 1.                        *)
handleSaveDraft ==
    /\ On("recap")
    /\ IF wiz.draft = 0
       THEN Becomes([wiz EXCEPT !.at = 1], calls) /\ UNCHANGED <<stored, closed>>
       ELSE /\ Becomes([Nobody EXCEPT !.n = wiz.n], calls)
            /\ stored' = 0 /\ closed' = closed \cup {wiz.draft}
    /\ UNCHANGED <<drafts, jobs, late, clean, others, lost>>

handlePublish ==
    /\ On("recap") /\ IsPublish(wiz)
    /\ Becomes(IF wiz.draft = 0 THEN [wiz EXCEPT !.at = 1] ELSE [wiz EXCEPT !.submitting = TRUE],
               calls \cup (IF wiz.draft = 0 THEN {}
                           ELSE {Call("publish", wiz.n, 0, wiz.draft)}))
    /\ UNCHANGED <<drafts, jobs, stored, closed, late, clean, others, lost>>

-----------------------------------------------------------------------------
(* The jury's criteria, of a weighted election.                            *)
Keep == UNCHANGED <<drafts, jobs, stored, closed, late, clean, others, lost>>

ChangeCriteria ==
    /\ On("criteria") /\ wiz.draft # 0
    /\ calls' = calls \cup {Call("criterion", wiz.n, step.k, wiz.draft)}
    /\ UNCHANGED <<wiz, step>> /\ Keep

handleCriteriaNext ==
    /\ On("criteria") /\ step.count
    /\ Becomes([wiz EXCEPT !.at = @ + 1], calls) /\ Keep

-----------------------------------------------------------------------------
(* Step 2: the candidates, typed, or read in a file.                       *)
WithStep(s) == step' = s /\ UNCHANGED <<wiz, calls>> /\ Keep

(* What is already in the list is left out.                                *)
addImportedCandidats(rows) ==
    {c \in rows : c.email = 0 \/ c.email \notin Emails(step.cands)}

(* A category is asked for what is typed, not of a file.                   *)
handleAddCandidat(c) ==
    /\ On("cands") /\ c \in addImportedCandidats({c}) /\ (wiz.general.cats => c.cat) /\ ~c.on
    /\ WithStep([step EXCEPT !.cands = @ \cup {c}])

handleImportFile(rows) ==
    /\ On("cands")
    /\ WithStep(IF Cardinality(rows) > Threshold THEN [step EXCEPT !.file = rows]
                ELSE [step EXCEPT !.cands = @ \cup addImportedCandidats(rows)])

continueClientImport ==
    /\ On("cands") /\ step.file # {}
    /\ WithStep([step EXCEPT !.cands = @ \cup addImportedCandidats(step.file), !.file = {}])

startServerImport ==
    /\ On("cands") /\ step.file # {} /\ wiz.draft # 0
    /\ step' = [step EXCEPT !.file = {}, !.import = "uploading"]
    /\ calls' = calls \cup {[Call("import", wiz.n, step.k, wiz.draft) EXCEPT !.rows = step.file]}
    /\ UNCHANGED wiz /\ Keep

(* From the list only: what is on the server stays there.                  *)
handleRemoveCandidat(c) ==
    /\ On("cands") /\ WithStep([step EXCEPT !.cands = @ \ {c}])

OnServer(cs) == {Candidate(c.email, c.cat, TRUE) : c \in cs}

(* The candidates not yet on the server are created, all at once, and the  *)
(* step is left when they all are.                                         *)
handleNext ==
    LET todo == {c \in step.cands : ~c.on} IN
    /\ On("cands") /\ ~step.submitting
    /\ Cardinality(step.cands) >= 2 \/ wiz.general.accepts
    /\ wiz.draft # 0
    /\ IF todo = {}
       THEN Becomes([wiz EXCEPT !.cands = step.cands, !.at = @ + 1], calls)
       ELSE /\ step' = [step EXCEPT !.submitting = TRUE] /\ UNCHANGED wiz
            /\ calls' = calls \cup {[Call("create", wiz.n, step.k, wiz.draft) EXCEPT
                                        !.rows = todo, !.all = step.cands]}
    /\ Keep

-----------------------------------------------------------------------------
(* Step 3: the voters, imported from a file or typed one by one.  Without  *)
(* a draft the file is only counted.                                       *)
handleFileUpload ==
    /\ On("voters") /\ step.import = "none"
    /\ IF wiz.draft = 0
       THEN step' = [step EXCEPT !.preview = TRUE] /\ UNCHANGED calls
       ELSE /\ step' = [step EXCEPT !.import = "uploading"]
            /\ calls' = calls \cup {Call("enroll", wiz.n, step.k, wiz.draft)}
    /\ UNCHANGED wiz /\ Keep

handleAddVotant ==
    /\ On("voters")
    /\ IF wiz.draft = 0
       THEN step' = [step EXCEPT !.manual = TRUE] /\ UNCHANGED calls
       ELSE /\ calls' = calls \cup {Call("elector", wiz.n, step.k, wiz.draft)}
            /\ UNCHANGED step
    /\ UNCHANGED wiz /\ Keep

(* By the tab chosen: the file's count or the list typed is passed on.     *)
handleVotersNext(grouped) ==
    LET given == IF grouped THEN step.preview ELSE step.manual IN
    /\ On("voters") /\ step.import = "none"
    /\ wiz.general.mode = "private" => given \/ step.existing
    /\ Becomes([wiz EXCEPT !.at = @ + 1, !.preview = given, !.manual = ~grouped /\ step.manual], calls)
    /\ Keep

-----------------------------------------------------------------------------
(* The server.                                                             *)
Set(c, d) == calls' = {x \in (calls \ {c}) \cup {d} : Matters(x, wiz, step.k)}
Ok(c)      == [c EXCEPT !.status = "ok"]
Refused(c) == [c EXCEPT !.status = "refused"]
Client == UNCHANGED <<stored, wiz, step, closed, late, clean, moves, others, lost>>

Exists(d) == d # 0 /\ drafts[d].status \in {"draft", "published"}
Elections == {d \in 1..MaxDrafts : Exists(d)}
Unused == {d \in 1..MaxDrafts : drafts[d].status = "none"}

(* show: a draft deleted answers 404.                                      *)
ServeCheck(c) ==
    /\ c.op = "check" /\ c.status = "sent"
    /\ Set(c, [Ok(c) EXCEPT !.yes = drafts[c.draft].status = "draft"])
    /\ UNCHANGED <<drafts, jobs>> /\ Client

ServeDraft(c) ==
    /\ c.op = "draft" /\ c.status = "sent"
    /\ CASE c.draft = 0 ->
              \E d \in Unused :
                  /\ \A e \in Unused : d <= e
                  /\ drafts' = [drafts EXCEPT ![d] = [Nothing EXCEPT !.status = "draft", !.form = c.form]]
                  /\ Set(c, [Ok(c) EXCEPT !.id = d])
         [] c.draft # 0 /\ drafts[c.draft].status = "draft" ->
              /\ drafts' = [drafts EXCEPT ![c.draft].form = c.form] /\ Set(c, [Ok(c) EXCEPT !.id = c.draft])
         [] OTHER -> UNCHANGED drafts /\ Set(c, Refused(c))
    /\ UNCHANGED jobs /\ Client

(* A criterion is added, or removed.                                       *)
ServeCriterion(c) ==
    /\ c.op = "criterion" /\ c.status = "sent"
    /\ IF ~Exists(c.draft) THEN Set(c, Refused(c)) /\ UNCHANGED drafts
       ELSE \E some \in BOOLEAN : drafts' = [drafts EXCEPT ![c.draft].criteria = some] /\ Set(c, Ok(c))
    /\ UNCHANGED jobs /\ Client

(* A page of the candidates.                                               *)
ServeRefresh(c) ==
    /\ c.op = "refresh" /\ c.status = "sent"
    /\ IF ~Exists(c.draft) THEN Set(c, Refused(c))
       ELSE \E page \in SUBSET drafts[c.draft].cands :
              /\ Cardinality(page) = Min({PerPage, Cardinality(drafts[c.draft].cands)})
              /\ Set(c, [Ok(c) EXCEPT !.list = page])
    /\ UNCHANGED <<drafts, jobs>> /\ Client

(* An email is required, and unique in the election, whatever its status.  *)
Creates(d, x) == x.email # 0 /\ x.email \notin Emails(drafts[d].cands)

ServeCreate(c, x) ==
    /\ c.op = "create" /\ x \in c.rows
    /\ IF Exists(c.draft) /\ Creates(c.draft, x)
       THEN /\ drafts' = [drafts EXCEPT ![c.draft].cands = @ \cup OnServer({x})]
            /\ Set(c, [c EXCEPT !.rows = @ \ {x}, !.made = @ \cup {x}])
       ELSE Set(c, [c EXCEPT !.rows = @ \ {x}]) /\ UNCHANGED drafts
    /\ UNCHANGED jobs /\ Client

(* A file is queued.                                                       *)
ServeImport(c) ==
    LET j == Cardinality(jobs) + 1 IN
    /\ c.op \in {"import", "enroll"} /\ c.status = "sent"
    /\ IF ~Exists(c.draft) THEN Set(c, Refused(c)) /\ UNCHANGED jobs
       ELSE /\ jobs' = jobs \cup {[id |-> j, op |-> c.op, draft |-> c.draft, rows |-> c.rows,
                                   state |-> "running", some |-> FALSE]}
            /\ Set(c, [Ok(c) EXCEPT !.job = j])
    /\ UNCHANGED drafts /\ Client

ServePoll(c) ==
    /\ c.op = "poll" /\ c.status = "sent"
    /\ \E j \in jobs : j.id = c.job /\ Set(c, IF Exists(c.draft) THEN [Ok(c) EXCEPT !.yes = j.state # "running"]
                                              ELSE Refused(c))
    /\ UNCHANGED <<drafts, jobs>> /\ Client

ServeElector(c) ==
    /\ c.op = "elector" /\ c.status = "sent"
    /\ IF ~Exists(c.draft) THEN Set(c, Refused(c)) /\ UNCHANGED drafts
       ELSE drafts' = [drafts EXCEPT ![c.draft].voters = TRUE] /\ Set(c, Ok(c))
    /\ UNCHANGED jobs /\ Client

(* publish: the plan's limit, and two candidates or open candidacies; the  *)
(* voters and the categories are not looked at.  A refusal is, or is not,  *)
(* the 403 about the subscription that the page distinguishes.             *)
Publishable(d) ==
    /\ drafts[d].status = "draft"
    /\ Cardinality({e \in 1..MaxDrafts : drafts[e].status = "published"}) < MaxElections
    /\ drafts[d].form.accepts \/ Cardinality(drafts[d].cands) >= 2

ServePublish(c) ==
    /\ c.op = "publish" /\ c.status = "sent"
    /\ IF Publishable(c.draft)
       THEN drafts' = [drafts EXCEPT ![c.draft].status = "published"] /\ Set(c, Ok(c))
       ELSE \E plan \in BOOLEAN : UNCHANGED drafts /\ Set(c, [Refused(c) EXCEPT !.yes = plan])
    /\ UNCHANGED jobs /\ Client

(* A queue worker does an import, even of an election in the trash: rows   *)
(* may fail, or all of it.                                                 *)
Work(j) ==
    /\ j.state = "running"
    /\ \E state \in {"completed", "failed"}, some \in BOOLEAN :
          LET new == {x \in j.rows : Creates(j.draft, x)} IN
          /\ some => state = "completed" /\ (j.op = "import" => new # {})
          /\ jobs' = (jobs \ {j}) \cup {[j EXCEPT !.state = state, !.some = some]}
          /\ drafts' = IF ~some THEN drafts
                       ELSE IF j.op = "import" THEN [drafts EXCEPT ![j.draft].cands = @ \cup OnServer(new)]
                       ELSE [drafts EXCEPT ![j.draft].voters = TRUE]
    /\ UNCHANGED calls /\ Client

(* Someone publishes or deletes the draft; CleanStaleDrafts deletes it.    *)
Other(d) ==
    /\ others + lost < MaxFaults /\ others' = others + 1
    /\ \/ Publishable(d) /\ drafts' = [drafts EXCEPT ![d].status = "published"]
       \/ drafts[d].status = "draft" /\ drafts' = [drafts EXCEPT ![d].status = "deleted"]
    /\ UNCHANGED <<jobs, stored, wiz, step, calls, closed, late, clean, moves, lost>>

(* An answer is lost, before or after the deed.  A failed read is ignored, *)
(* except that of an import, which is asked again.                         *)
Lose(c) ==
    /\ others + lost < MaxFaults /\ lost' = lost + 1
    /\ \/ c.op \in (Writes \ {"create"}) \cup {"poll"} /\ c.status \in {"sent", "ok"} /\ Set(c, [c EXCEPT !.status = "lost"])
       \/ c.op \in {"check", "quota", "refresh", "criteria", "electors"} /\ calls' = calls \ {c}
       \/ c.op = "create" /\ \E x \in c.made \cup c.rows :
            Set(c, [c EXCEPT !.made = @ \ {x}, !.rows = @ \ {x}])
    /\ clean' = (clean /\ c \notin Creating(calls))
    /\ UNCHANGED <<drafts, jobs, stored, wiz, step, closed, late, moves, others>>

-----------------------------------------------------------------------------
(* The answers.  What was asked by a wizard or a step that is left changes *)
(* nothing on the screen, but for a publication, and for the creation of   *)
(* candidates, whose success moves the wizard on.                          *)
Here(c) == wiz.open /\ wiz.n = c.n
Server == UNCHANGED <<drafts, jobs, moves, others, lost>>

(* The wizard becomes w and sends the calls cs, when c is heard.           *)
Hear(c, w, cs) == Becomes(w, (calls \ {c}) \cup cs) /\ Server

(* The polls of the step shown that may only be due at the next tick.      *)
Waiting == {x \in calls : x.op = "poll" /\ x.k = step.k /\ x.status = "sent"}

(* checkDraftStatus: a draft that is not one any more is forgotten, and    *)
(* with it the interval that polls its import.                             *)
HearCheck(c) ==
    /\ c.op = "check" /\ c.status = "ok" /\ Here(c)
    /\ IF c.yes THEN Hear(c, wiz, {}) /\ UNCHANGED stored
       ELSE \E cut \in SUBSET Waiting :
              /\ Becomes([wiz EXCEPT !.draft = 0], calls \ ({c} \cup cut)) /\ Server
              /\ stored' = 0
    /\ UNCHANGED <<closed, late, clean>>

(* The client counts every election, drafts included, at the latest when   *)
(* it is heard.                                                            *)
HearQuota(c) ==
    /\ c.op = "quota" /\ Here(c)
    /\ Hear(c, [wiz EXCEPT !.blocked = @ \/ Cardinality(Elections) >= MaxElections], {})
    /\ UNCHANGED <<stored, closed, late, clean>>

(* A mutant: the draft created is not kept for the next time.              *)
HearDraft_Forgotten(c) ==
    /\ c.op = "draft" /\ c.status # "sent" /\ Here(c)
    /\ Hear(c, IF c.status = "ok" THEN [wiz EXCEPT !.general = c.form, !.at = 2, !.submitting = FALSE]
               ELSE [wiz EXCEPT !.submitting = FALSE], {})
    /\ UNCHANGED <<stored, closed, late, clean>>

(* On to step 2 with the draft, which sessionStorage keeps and whose       *)
(* status is asked.  A refusal because it is not a draft any more carries  *)
(* no list of errors: reading it throws, and the draft is not reset.       *)
HearDraft(c) ==
    LET created == c.status = "ok" /\ c.draft = 0 IN
    /\ c.op = "draft" /\ c.status # "sent" /\ Here(c)
    /\ Hear(c, IF c.status = "ok"
               THEN [wiz EXCEPT !.general = c.form, !.at = 2, !.submitting = FALSE,
                                !.draft = IF created THEN c.id ELSE @]
               ELSE [wiz EXCEPT !.submitting = FALSE],
               IF created THEN {Call("check", wiz.n, 0, c.id)} ELSE {})
    /\ stored' = IF created THEN c.id ELSE stored
    /\ UNCHANGED <<closed, late, clean>>

(* The calls of a step: it becomes s, if it is still shown.                *)
HearStep(c, s, cs) ==
    LET shown == Here(c) /\ step.k = c.k IN
    /\ step' = IF shown THEN s ELSE step
    /\ calls' = (calls \ {c}) \cup IF shown THEN cs ELSE {}
    /\ UNCHANGED <<wiz, stored, closed, late, clean>> /\ Server

(* loadCriteria; its parent's count, when it changes, makes it load again. *)
HearCriteria(c) ==
    LET some == Exists(c.draft) /\ drafts[c.draft].criteria IN
    /\ c.op = "criteria"
    /\ IF ~Exists(c.draft) \/ some = step.count THEN HearStep(c, step, {})
       ELSE HearStep(c, [step EXCEPT !.count = some], {c})

HearCriterion(c) ==
    /\ c.op = "criterion" /\ c.status # "sent"
    /\ HearStep(c, step, IF c.status = "ok" THEN {Call("criteria", c.n, c.k, c.draft)} ELSE {})

(* What the server has replaces what was known of it.                      *)
HearRefresh(c) ==
    /\ c.op = "refresh" /\ c.status # "sent"
    /\ HearStep(c, IF c.status = "ok" THEN [step EXCEPT !.cands = {x \in @ : ~x.on} \cup c.list] ELSE step, {})

(* A mutant: the step is left although some were refused.                  *)
HearCreate_Settled(c) ==
    /\ c.op = "create" /\ c.rows = {}
    /\ Hear(c, IF Here(c) THEN [wiz EXCEPT !.cands = OnServer(c.all), !.at = @ + 1] ELSE wiz, {})
    /\ UNCHANGED <<stored, closed, late, clean>>

(* Every creation was answered.  All done: on to the next step, even if    *)
(* this one is not shown any more.  Or else: the step stays, and knows     *)
(* which were done.                                                        *)
HearCreate(c) ==
    /\ c.op = "create" /\ c.rows = {}
    /\ IF {x \in c.all : ~x.on} \subseteq c.made
       THEN /\ Hear(c, IF Here(c) THEN [wiz EXCEPT !.cands = OnServer(c.all), !.at = @ + 1] ELSE wiz, {})
            /\ UNCHANGED <<stored, closed, late, clean>>
       ELSE HearStep(c, [step EXCEPT !.submitting = FALSE, !.cands = (@ \ c.made) \cup OnServer(@ \cap c.made)], {})

(* A file was queued: its import is polled, unless the draft is forgotten. *)
HearImport(c) ==
    /\ c.op \in {"import", "enroll"} /\ c.status # "sent"
    /\ IF c.status = "ok"
       THEN HearStep(c, [step EXCEPT !.import = "processing", !.job = c.job],
                     IF wiz.draft = 0 THEN {} ELSE {[Call("poll", c.n, c.k, c.draft) EXCEPT !.job = c.job]})
       ELSE HearStep(c, [step EXCEPT !.import = "none"], {})

(* A mutant: an error ends the polling.                                    *)
HearPoll_Gives(c) ==
    /\ c.op = "poll" /\ c.status # "sent"
    /\ \E j \in jobs : j.id = c.job /\ HearStep(c, IF c.yes THEN [step EXCEPT !.import = "none"] ELSE step, {})

(* Until it has ended, or the draft is forgotten; the candidates are then  *)
(* asked again, the voters counted.  The end of an import replaced by      *)
(* another ends that one's.                                                *)
HearPoll(c) ==
    /\ c.op = "poll" /\ c.status # "sent"
    /\ \E j \in jobs : j.id = c.job /\
         IF c.status = "ok" /\ c.yes
         THEN HearStep(c, [step EXCEPT !.import = "none", !.preview = @ \/ (j.op = "enroll" /\ j.some)],
                       IF j.op = "import" /\ j.state = "completed"
                       THEN {Call("refresh", c.n, c.k, c.draft)} ELSE {})
         ELSE HearStep(c, step, IF step.import = "processing" /\ step.job = c.job /\ wiz.draft # 0
                                THEN {[Call("poll", c.n, c.k, c.draft) EXCEPT !.job = c.job]} ELSE {})

HearElectors(c) ==
    /\ c.op = "electors"
    /\ HearStep(c, [step EXCEPT !.existing = IF Exists(c.draft) /\ wiz.draft = c.draft
                                             THEN drafts[c.draft].voters ELSE @], {})

HearElector(c) ==
    /\ c.op = "elector" /\ c.status # "sent"
    /\ HearStep(c, [step EXCEPT !.manual = @ \/ c.status = "ok"], {})

(* Published: the list of elections is shown, whatever was on the screen;  *)
(* so is the subscription, when it is what was refused.  A wizard that was *)
(* left does not forget the draft: its effect that empties sessionStorage  *)
(* does not run any more.                                                  *)
HearPublish(c) ==
    /\ c.op = "publish" /\ c.status # "sent"
    /\ IF c.status = "ok" \/ (c.status = "refused" /\ c.yes)
       THEN /\ Hear(c, [Nobody EXCEPT !.n = wiz.n], {})
            /\ clean' = (clean /\ Creating(calls) = {})
       ELSE /\ Hear(c, IF Here(c) THEN [wiz EXCEPT !.submitting = FALSE] ELSE wiz, {})
            /\ UNCHANGED clean
    /\ IF c.status # "ok" THEN UNCHANGED <<stored, closed, late>>
       ELSE IF Here(c)    THEN stored' = 0 /\ closed' = closed \cup {c.draft} /\ UNCHANGED late
       ELSE late' = late \cup {c.draft} /\ UNCHANGED <<stored, closed>>

-----------------------------------------------------------------------------
Clicks ==
    \/ Open \/ Leave \/ handlePrevious \/ handleSaveDraft \/ handlePublish
    \/ \E at \in 1..5 : handleStepClick(at)
    \/ \E f \in Form : handleStep1Next(f)
    \/ ChangeCriteria \/ handleCriteriaNext
    \/ \E rows \in File : handleImportFile(rows) \/ \E c \in rows : handleAddCandidat(c)
    \/ continueClientImport \/ startServerImport
    \/ \E c \in step.cands : handleRemoveCandidat(c)
    \/ handleNext
    \/ handleFileUpload \/ handleAddVotant \/ \E grouped \in BOOLEAN : handleVotersNext(grouped)

Serve(c) ==
    \/ ServeCheck(c) \/ ServeDraft(c) \/ ServeCriterion(c) \/ ServeRefresh(c)
    \/ \E x \in c.rows : ServeCreate(c, x)
    \/ ServeImport(c) \/ ServePoll(c) \/ ServeElector(c) \/ ServePublish(c)

Answer(c) ==
    \/ HearCheck(c) \/ HearQuota(c) \/ HearDraft(c) \/ HearCriteria(c) \/ HearCriterion(c)
    \/ HearRefresh(c) \/ HearCreate(c) \/ HearImport(c) \/ HearPoll(c) \/ HearElectors(c) \/ HearElector(c) \/ HearPublish(c)

Next ==
    \/ Clicks
    \/ \E c \in calls : Serve(c) \/ Answer(c) \/ Lose(c)
    \/ \E j \in jobs : Work(j)
    \/ \E d \in 1..MaxDrafts : Other(d)

Spec == Init /\ [][Next]_vars

-----------------------------------------------------------------------------
(* No draft was published or deleted that the user has not seen closed.    *)
Undisturbed == \A d \in 1..MaxDrafts \ closed : drafts[d].status \in {"none", "draft"}

(* As long as no draft is taken from the wizard, by others or by an old    *)
(* publication that is still unheard, the candidates of the summary, on    *)
(* which the Publish button is decided, are all on the server in that very *)
(* draft (submitElection creates nothing: CreateScrutin.jsx:286-291).      *)
RecapIsOnServer ==
    Undisturbed /\ Screen(wiz) = "recap" /\ wiz.draft # 0 =>
        wiz.cands \subseteq drafts[wiz.draft].cands

(* A draft that the user has saved, or published from the wizard shown, is *)
(* never taken up again by a later wizard, which would change it instead   *)
(* of creating another one.  One whose publication was answered after its  *)
(* wizard was left is still in sessionStorage (CreateScrutin.jsx:47-53):   *)
(* the next wizard takes it, but it has asked, and is to hear unless an    *)
(* answer was lost, that it is not a draft any more.                       *)
NeverReedited ==
    /\ wiz.draft \notin closed /\ stored \notin closed
    /\ lost = 0 /\ wiz.draft \in late =>
         \E c \in calls : /\ c.op = "check" /\ c.n = wiz.n /\ c.draft = wiz.draft
                          /\ c.status = "ok" => ~c.yes

(* As long as the answer to every creation is heard, going back to step 1, *)
(* leaving and coming back, or reloading, never makes a second draft of    *)
(* the same election (CreateScrutin.jsx:35-40).                            *)
OneDraft ==
    clean => Cardinality({d \in 1..MaxDrafts \ closed : drafts[d].status = "draft"}) <= 1

(* Whatever answers are lost, refused or late: the overlay, a disabled     *)
(* button and an import that goes on wait for a call, and are freed by it. *)
(* The one exception: an import whose draft the status check has dropped   *)
(* is not polled any more (Step2Candidats.jsx:480, Step3Votants.jsx:156),  *)
(* and is shown as going on until the step is left.                        *)
BusyHasCalls ==
    /\ wiz.submitting => \E c \in calls : c.op \in {"draft", "publish"} /\ c.n = wiz.n
    /\ step.submitting => \E c \in calls : c.op = "create" /\ c.k = step.k
    /\ step.import = "uploading" => \E c \in calls : c.op \in {"import", "enroll"} /\ c.k = step.k
    /\ step.import = "processing" /\ wiz.draft # 0 =>
         \E c \in calls : c.op \in {"poll", "import"} /\ c.k = step.k
=============================================================================
