------------------------- MODULE ElectionWizardProofs -------------------------
(***************************************************************************)
(* For any forms, files, numbers of drafts, quota and page sizes, clicks,  *)
(* losses and deeds of others, of ElectionWizard: the recap shows nothing  *)
(* that the server does not have; a draft that was saved or published is   *)
(* not edited again; one draft at most is left of a wizard whose creations *)
(* were all heard; and nothing that is busy waits for a call that is gone. *)
(*                                                                         *)
(* The invariant is about the calls in flight as much as about the page:   *)
(* what they say of the drafts (BooksOK), which of them the page will hear *)
(* (TurnsOK, BusyOK), and what it will then believe (DraftsOK, RecapOK).   *)
(***************************************************************************)
EXTENDS ElectionWizard, FiniteSetTheorems, TLAPS

Ops     == {"check", "quota", "draft", "criteria", "criterion", "refresh", "create", "import", "enroll",
            "poll", "electors", "elector", "publish"}
Forms   == [mode : {"public", "private"}, weighted : BOOLEAN, accepts : BOOLEAN, cats : BOOLEAN]
Typed   == [email : 0..3, cat : BOOLEAN, on : {FALSE}]
Draft   == [status : {"none", "draft", "published", "deleted"}, form : Forms, cands : SUBSET Candidates,
            voters : BOOLEAN, criteria : BOOLEAN]
Wizard  == [n : Nat, open : BOOLEAN, blocked : BOOLEAN, at : Int, draft : 0..MaxDrafts, general : Forms,
            cands : SUBSET Candidates, preview : BOOLEAN, manual : BOOLEAN, submitting : BOOLEAN]
Step(j) == [k : Nat, cands : SUBSET Candidates, submitting : BOOLEAN, file : SUBSET Typed,
            import : {"none", "uploading", "processing"}, job : {j}, preview : BOOLEAN,
            manual : BOOLEAN, existing : BOOLEAN, count : BOOLEAN]
Asks(j) == [op : Ops, n : Nat, k : Nat, draft : 0..MaxDrafts, form : Forms, rows : SUBSET Candidates,
            all : SUBSET Candidates, made : SUBSET Candidates, job : {j},
            status : {"sent", "ok", "refused", "lost"}, yes : BOOLEAN, list : SUBSET Candidates,
            id : 0..MaxDrafts]
Import(j) == [id : {j}, op : {"import", "enroll"}, draft : 1..MaxDrafts, rows : SUBSET Candidates,
              state : {"running", "completed", "failed"}, some : BOOLEAN]

TypeOK ==
    /\ drafts \in [1..MaxDrafts -> Draft]
    /\ \A j \in jobs : j \in Import(j.id)
    /\ wiz \in Wizard /\ step \in Step(step.job) /\ \A c \in calls : c \in Asks(c.job)
    /\ stored \in 0..MaxDrafts /\ closed \in SUBSET (1..MaxDrafts) /\ clean \in BOOLEAN

-----------------------------------------------------------------------------
(* What there is of a draft: it was created; it is not one any more.       *)
Known(d)  == drafts[d].status # "none"
Gone(d)   == drafts[d].status \in {"published", "deleted"}
(* The candidates that the server has in the wizard's draft.               *)
Has(d)    == IF d = 0 THEN {} ELSE drafts[d].cands

(* A draft that was created, of which the wizard has not heard yet.        *)
Creation(c) == c.op = "draft" /\ c.draft = 0 /\ c.status = "ok"

(* What is asked of a draft, and answered, is true of it.                  *)
CallOK(c) ==
    /\ c.n <= wiz.n /\ c.k <= step.k
    /\ c.draft # 0 => Known(c.draft)
    /\ c.op \notin {"draft", "quota"} => c.draft # 0
    /\ Creation(c) => c.id # 0 /\ Known(c.id) /\ c.id # stored /\ c.id \notin closed
    /\ c.op = "check" /\ c.status = "ok" /\ ~c.yes => Gone(c.draft)
    /\ c.op = "create" => OnServer(c.made) \subseteq drafts[c.draft].cands
    /\ c.op = "refresh" => c.list \subseteq drafts[c.draft].cands

BooksOK ==
    /\ \A c \in calls : CallOK(c)
    /\ \A c, d \in calls : Creation(c) => /\ d.draft # c.id
                                          /\ Creation(d) /\ d.id = c.id => d = c
    /\ \A j \in jobs : Known(j.draft)
    /\ \A d \in closed \cup ({stored} \ {0}) : Known(d)

-----------------------------------------------------------------------------
(* The wizard that is open, and the calls that it still listens to.        *)
Heard == IF wiz.open THEN {c \in calls : c.n = wiz.n} ELSE {}

(* The draft of the wizard is the one of sessionStorage, and not one that  *)
(* was closed.                                                             *)
WizardOK ==
    /\ stored \notin closed
    /\ wiz.open => wiz.draft = stored
    /\ ~wiz.open => /\ wiz.draft = 0 /\ wiz.cands = {} /\ ~wiz.submitting
                    /\ step.cands = {} /\ ~step.submitting /\ step.import = "none"

(* One click at a time is under way, one check, and both are about the     *)
(* draft of the wizard.                                                    *)
Submits == {c \in Heard : c.op \in {"draft", "publish"}}
Checks  == {c \in Heard : c.op = "check"}

TurnsOK ==
    /\ \A c \in Submits : /\ wiz.submitting
                          /\ c.op = "draft" /\ c.draft = 0 => wiz.draft = 0
                          /\ c.op = "publish" => wiz.draft \in {0, c.draft}
                          /\ \A d \in Submits : d = c
    /\ \A c \in Checks : /\ c.draft = wiz.draft
                         /\ \A d \in Checks : d = c

-----------------------------------------------------------------------------
(* As long as every creation is heard, what is under way is the wizard's,  *)
(* and there is no other draft than the one stored, or about to be.        *)
DraftsOK ==
    clean => /\ \A c \in Creating(calls) : c \in Heard /\ c.status \in {"sent", "ok"}
             /\ \A d \in 1..MaxDrafts \ closed : drafts[d].status = "draft" =>
                    d = stored \/ \E c \in calls : Creation(c) /\ c.id = d

(* What is marked as being on the server is there.                         *)
Marked(cs) == {x \in cs : x.on}

(* What the component of a step asks.                                      *)
OfStep == Ops \ {"check", "quota", "draft", "publish"}

RecapOK ==
    Undisturbed => /\ wiz.cands \subseteq Has(wiz.draft)
                   /\ Marked(step.cands) \subseteq Has(wiz.draft)
                   /\ \A c \in Heard : /\ c.op \in OfStep => c.draft = wiz.draft
                                       /\ c.op = "create" => Marked(c.all) \subseteq Has(c.draft)

(* What is busy waits for a call of the component shown.                   *)
Awaited(ops) == \E c \in Heard : c.op \in ops /\ c.k = step.k

StepBusyOK ==
    /\ step.submitting => Screen(wiz) = "cands" /\ Awaited({"create"})
    /\ step.import # "none" \/ Awaited({"import", "enroll"}) => Screen(wiz) \in {"cands", "voters"}
    /\ step.import = "uploading" => Awaited({"import", "enroll"})
    /\ step.import = "processing" /\ wiz.draft # 0 =>
         \E c \in Heard : c.op = "poll" /\ c.k = step.k /\ c.job = step.job
    /\ wiz.submitting => step.import = "none" /\ ~Awaited({"import", "enroll"})

BusyOK == (wiz.submitting => Submits # {}) /\ StepBusyOK

IInv == TypeOK /\ BooksOK /\ WizardOK /\ TurnsOK /\ DraftsOK /\ RecapOK /\ BusyOK

-----------------------------------------------------------------------------
(* The constants are what the module assumes of them.                      *)
LEMMA Constants ==
  /\ Form \subseteq Forms /\ \A f \in File : f \in SUBSET Typed
  /\ MaxDrafts \in Nat /\ MaxDrafts > 0
<1>1. Form \subseteq Forms
  BY WizardConstants DEF Forms
<1>2. \A f \in File : f \in SUBSET Typed
  BY WizardConstants DEF Typed
<1>3. MaxDrafts \in Nat \ {0}
  BY WizardConstants
<1> QED
  BY <1>1, <1>2, <1>3

(* A new call, by the items of its record.                                 *)
LEMMA CallType ==
  ASSUME NEW op \in Ops, NEW n \in Nat, NEW k \in Nat, NEW d \in 0..MaxDrafts
  PROVE  /\ Call(op, n, k, d) \in Asks(Call(op, n, k, d).job)
         /\ Call(op, n, k, d).op = op /\ Call(op, n, k, d).n = n /\ Call(op, n, k, d).k = k
         /\ Call(op, n, k, d).draft = d /\ Call(op, n, k, d).status = "sent"
         /\ Call(op, n, k, d).list = {} /\ Call(op, n, k, d).made = {} /\ Call(op, n, k, d).job = 0
  BY Constants DEF Call, Asks, NoForm, Forms

(* A step that is mounted starts idle, with the candidates of the          *)
(* wizard.                                                                 *)
LEMMA MountType ==
  ASSUME NEW w \in Wizard, NEW k \in Nat
  PROVE  /\ Mount(w, k) \in Step(Mount(w, k).job) /\ Mount(w, k).k = k
         /\ Mount(w, k).cands = w.cands /\ ~Mount(w, k).submitting /\ Mount(w, k).import = "none"
  BY DEF Mount, Step, Wizard

(* Between two visits there is no draft, no candidate and nothing          *)
(* submitted.                                                              *)
LEMMA NobodyType ==
  ASSUME NEW n \in Nat
  PROVE  LET w == [Nobody EXCEPT !.n = n] IN
         /\ w \in Wizard /\ w.n = n /\ ~w.open /\ w.draft = 0 /\ w.cands = {} /\ ~w.submitting
<1> DEFINE w == [Nobody EXCEPT !.n = n]
<1>1. 0 \in 0..MaxDrafts /\ NoForm \in Forms /\ {} \in SUBSET Candidates
  BY Constants DEF NoForm, Forms
<1>2. Nobody \in Wizard
  BY <1>1 DEF Nobody, Wizard
<1>3. w \in Wizard
  BY <1>2 DEF Wizard
<1>4. w.n = n /\ ~w.open /\ w.draft = 0 /\ w.cands = {} /\ ~w.submitting
  BY DEF Nobody
<1> QED
  BY <1>3, <1>4

(* The screens, of a wizard and of the next step.                          *)
LEMMA StepsAre ==
  ASSUME NEW f \in Forms
  PROVE  /\ f.weighted => /\ DOMAIN Steps(f) = 1..5
                          /\ Steps(f)[1] = "general" /\ Steps(f)[2] = "criteria"
                          /\ Steps(f)[3] = "cands" /\ Steps(f)[4] = "voters" /\ Steps(f)[5] = "recap"
         /\ ~f.weighted => /\ DOMAIN Steps(f) = 1..4
                           /\ Steps(f)[1] = "general" /\ Steps(f)[2] = "cands"
                           /\ Steps(f)[3] = "voters" /\ Steps(f)[4] = "recap"
  BY DEF Steps

(* What is shown of a wizard that is closed, blocked by the quota, or at   *)
(* step 1.                                                                 *)
LEMMA ScreenIs ==
  ASSUME NEW w \in Wizard
  PROVE  /\ ~w.open <=> Screen(w) = "none"
         /\ w.open /\ w.blocked <=> Screen(w) = "quota"
         /\ w.open /\ ~w.blocked /\ w.at = 1 => Screen(w) = "general"
<1>1. w.general \in Forms /\ w.at \in Int
  BY DEF Wizard
<1>2. CASE w.open /\ ~w.blocked /\ w.at \in DOMAIN Steps(w.general)
  <2>1. Screen(w) = Steps(w.general)[w.at]
    BY <1>2 DEF Screen
  <2>2. Screen(w) \in {"general", "criteria", "cands", "voters", "recap"} /\ (w.at = 1 => Screen(w) = "general")
    BY <1>1, <1>2, <2>1, StepsAre
  <2> QED
    BY <1>2, <2>2
<1>3. CASE w.open /\ ~w.blocked /\ w.at \notin DOMAIN Steps(w.general)
  <2>1. Screen(w) = "blank" /\ w.at # 1
    BY <1>1, <1>3, StepsAre DEF Screen
  <2> QED
    BY <1>3, <2>1
<1>4. CASE ~w.open \/ w.blocked
  BY <1>4 DEF Screen
<1> QED
  BY <1>2, <1>3, <1>4

(* The button that goes on from a middle step shows another screen.        *)
LEMMA NextScreen ==
  ASSUME NEW w \in Wizard, NEW v \in Wizard, Screen(w) \in {"criteria", "cands", "voters"},
         v.open = w.open, v.blocked = w.blocked, v.general = w.general, v.at = w.at + 1
  PROVE  Screen(v) # Screen(w)
<1>1. w.general \in Forms /\ w.at \in Int /\ v.at \in Int
  BY DEF Wizard
<1>2. w.open /\ ~w.blocked /\ w.at \in DOMAIN Steps(w.general) /\ Screen(w) = Steps(w.general)[w.at]
  BY DEF Screen
<1>3. Screen(v) = IF v.at \in DOMAIN Steps(w.general) THEN Steps(w.general)[v.at] ELSE "blank"
  BY <1>2 DEF Screen
<1> QED
  BY <1>1, <1>2, <1>3, StepsAre

(* The screen does not depend on the draft, nor on what is submitted.      *)
LEMMA ScreenKept ==
  ASSUME NEW w, NEW v, v.open = w.open, v.blocked = w.blocked, v.at = w.at, v.general = w.general
  PROVE  Screen(v) = Screen(w)
  BY DEF Screen

-----------------------------------------------------------------------------
(* A draft keeps its status or goes on, and keeps its candidates.          *)
Grow == \A d \in 1..MaxDrafts :
    Known(d) => Known(d)' /\ (Gone(d) => Gone(d)') /\ drafts[d].cands \subseteq drafts'[d].cands

(* Drafts that are left alone have grown.                                  *)
LEMMA GrowSame == TypeOK /\ UNCHANGED drafts => Grow
  BY DEF TypeOK, Grow, Known, Gone

(* A call is as right as it was.                                           *)
LEMMA CallKept ==
  ASSUME TypeOK, Grow, NEW x \in calls, CallOK(x), wiz'.n >= wiz.n, wiz'.n \in Nat,
         step'.k >= step.k, step'.k \in Nat,
         Creation(x) => x.id # stored' /\ x.id \notin closed'
  PROVE  CallOK(x)'
<1>1. x \in Asks(x.job) /\ wiz.n \in Nat /\ step.k \in Nat
  BY DEF TypeOK, Wizard, Step
<1>2. x.n \in Nat /\ x.k \in Nat /\ x.draft \in 0..MaxDrafts /\ x.id \in 0..MaxDrafts
  BY <1>1 DEF Asks
<1>3. x.n <= wiz'.n /\ x.k <= step'.k
  BY <1>1, <1>2 DEF CallOK
<1>4. x.draft # 0 => Known(x.draft)'
  BY <1>2 DEF CallOK, Grow
<1>5. Creation(x) => x.id # 0 /\ Known(x.id)'
  BY <1>2 DEF CallOK, Grow
<1>6. x.op = "check" /\ x.status = "ok" /\ ~x.yes => Gone(x.draft)'
  BY <1>2 DEF CallOK, Grow
<1>7. x.op = "create" => OnServer(x.made) \subseteq drafts'[x.draft].cands
  BY <1>2 DEF CallOK, Grow
<1>8. x.op = "refresh" => x.list \subseteq drafts'[x.draft].cands
  BY <1>2 DEF CallOK, Grow
<1> QED
  BY <1>3, <1>4, <1>5, <1>6, <1>7, <1>8 DEF CallOK, Creation

(* What is known of a draft that the wizard holds.                         *)
LEMMA StoredKnown ==
  ASSUME TypeOK, BooksOK, WizardOK
  PROVE  /\ wiz.draft \in 0..MaxDrafts /\ (wiz.draft # 0 => wiz.open /\ wiz.draft = stored /\ Known(wiz.draft))
         /\ stored # 0 => stored \in 1..MaxDrafts /\ Known(stored)
<1>1. wiz.draft \in 0..MaxDrafts /\ stored \in 0..MaxDrafts
  BY DEF TypeOK, Wizard
<1>2. stored # 0 => stored \in 1..MaxDrafts /\ Known(stored)
  BY <1>1 DEF BooksOK
<1> QED
  BY <1>1, <1>2 DEF WizardOK

(* A wizard that nobody disturbs was not disturbed before.                 *)
LEMMA StillUndisturbed ==
  ASSUME TypeOK, TypeOK', Grow, closed' \subseteq closed, Undisturbed'
  PROVE  Undisturbed
<1> SUFFICES ASSUME NEW d \in 1..MaxDrafts \ closed PROVE drafts[d].status \in {"none", "draft"}
  BY DEF Undisturbed
<1>1. drafts'[d].status \in {"none", "draft"}
  BY DEF Undisturbed
<1>2. drafts[d] \in Draft /\ drafts[d].status \in {"none", "draft", "published", "deleted"}
  BY DEF TypeOK, Draft
<1> QED
  BY <1>1, <1>2 DEF Grow, Known, Gone

(* A known draft loses none of its candidates when it grows.               *)
LEMMA HasGrows ==
  ASSUME TypeOK, Grow, NEW d \in 0..MaxDrafts, d # 0 => Known(d)
  PROVE  Has(d) \subseteq Has(d)'
  BY DEF Has, Grow

(* What is heard, and awaited, still matters.                              *)
LEMMA HeardMatters ==
  ASSUME NEW x, NEW w, NEW k, w.open, x.n = w.n,
         x.op \in {"check", "quota", "draft", "create", "publish"} \/ x.k = k
  PROVE  Matters(x, w, k)
  BY DEF Matters

-----------------------------------------------------------------------------
(* The server's side: the call c becomes d, for the same wizard.           *)
Heir(c, d) ==
    /\ d.op = c.op /\ d.n = c.n /\ d.k = c.k /\ d.draft = c.draft /\ d.all = c.all
    /\ c.op = "poll" => d.job = c.job

Reply(c, d) ==
    /\ UNCHANGED <<stored, wiz, step, closed>> /\ Grow
    /\ c \in calls /\ Heir(c, d) /\ CallOK(d)'
    /\ \A x \in calls' : x = d \/ x \in calls \ {c}
    /\ \A x \in (calls \ {c}) \cup {d} : Matters(x, wiz, step.k) => x \in calls'
    /\ Creation(d) => (Creation(c) /\ d.id = c.id) \/ ~Known(d.id)
    /\ \A j \in jobs' : Known(j.draft)'

(* An answer that is true of the drafts keeps the books.                   *)
LEMMA ReplyBooks ==
  ASSUME IInv, TypeOK', NEW c, NEW d, Reply(c, d)
  PROVE  BooksOK'
<1> USE DEF IInv
<1>1. ASSUME NEW x \in calls' PROVE CallOK(x)'
  <2>1. CASE x = d
    BY <2>1 DEF Reply
  <2>2. CASE x \in calls \ {c}
    <3>1. CallOK(x)
      BY <2>2 DEF BooksOK
    <3>2. wiz.n \in Nat /\ step.k \in Nat
      BY DEF TypeOK, Wizard, Step
    <3> QED
      BY <2>2, <3>1, <3>2, CallKept DEF Reply, CallOK
  <2> QED
    BY <2>1, <2>2 DEF Reply
<1>2. ASSUME NEW x \in calls', NEW y \in calls', Creation(x)
      PROVE  y.draft # x.id /\ (Creation(y) /\ y.id = x.id => y = x)
  <2>0. \A z \in calls : z.draft # 0 => Known(z.draft)
    BY DEF BooksOK, CallOK
  <2>1. \A z \in calls : Creation(z) => Known(z.id) /\ z.id # 0
    BY DEF BooksOK, CallOK
  <2>2. x.id # 0
    BY <1>1, <1>2 DEF CallOK, Creation
  <2>3. ASSUME NEW u \in calls, NEW v \in calls, Creation(u)
        PROVE  v.draft # u.id /\ (Creation(v) /\ v.id = u.id => v = u)
    BY <2>3 DEF BooksOK
  <2>4. c \in calls /\ d.draft = c.draft
    BY DEF Reply, Heir
  <2>5. x = d \/ x \in calls \ {c}
    BY DEF Reply
  <2>6. y = d \/ y \in calls \ {c}
    BY DEF Reply
  <2>7. Creation(d) => (Creation(c) /\ d.id = c.id) \/ ~Known(d.id)
    BY DEF Reply
  <2> QED
    BY <1>2, <2>0, <2>1, <2>2, <2>3, <2>4, <2>5, <2>6, <2>7
<1>3. ASSUME NEW e \in closed' \cup ({stored'} \ {0}) PROVE Known(e)'
  <2>1. e \in closed \cup ({stored} \ {0}) /\ e \in 1..MaxDrafts
    BY DEF Reply, TypeOK
  <2> QED
    BY <2>1 DEF BooksOK, Reply, Grow
<1>4. \A j \in jobs' : Known(j.draft)'
  BY DEF Reply
<1> QED
  BY <1>1, <1>2, <1>3, <1>4 DEF BooksOK, Creation

(* The calls heard after an answer: the others as before, and the call     *)
(* answered as its heir if it still matters.                               *)
LEMMA ReplyHeard ==
  ASSUME NEW c, NEW d, Reply(c, d)
  PROVE  /\ \A x \in Heard' : x \in Heard \ {c} \/ (x = d /\ c \in Heard)
         /\ \A x \in Heard \ {c} : Matters(x, wiz, step.k) => x \in Heard'
         /\ c \in Heard /\ Matters(d, wiz, step.k) => d \in Heard'
         /\ wiz' = wiz /\ step' = step /\ c \in calls /\ Heir(c, d)
  BY DEF Reply, Heard, Heir

(* An answer starts no click and no check.                                 *)
LEMMA ReplyTurns ==
  ASSUME IInv, NEW c, NEW d, Reply(c, d)
  PROVE  TurnsOK'
<1>1. \A x \in Submits' : x \in Submits \ {c} \/ (x = d /\ c \in Submits)
  BY ReplyHeard DEF Submits, Heir
<1>2. \A x \in Checks' : x \in Checks \ {c} \/ (x = d /\ c \in Checks)
  BY ReplyHeard DEF Checks, Heir
<1>3. ASSUME NEW x \in Submits'
      PROVE  /\ wiz'.submitting
             /\ x.op = "draft" /\ x.draft = 0 => wiz'.draft = 0
             /\ x.op = "publish" => wiz'.draft \in {0, x.draft}
             /\ \A y \in Submits' : y = x
  BY <1>1, ReplyHeard DEF IInv, TurnsOK, Heir
<1>4. ASSUME NEW x \in Checks' PROVE x.draft = wiz'.draft /\ \A y \in Checks' : y = x
  BY <1>2, ReplyHeard DEF IInv, TurnsOK, Heir
<1> QED
  BY <1>3, <1>4 DEF TurnsOK

(* An answer removes no candidate from the server, and changes no list     *)
(* of the page.                                                            *)
LEMMA ReplyRecap ==
  ASSUME IInv, TypeOK', NEW c, NEW d, Reply(c, d)
  PROVE  RecapOK'
<1> SUFFICES ASSUME Undisturbed'
    PROVE /\ wiz'.cands \subseteq Has(wiz.draft)'
          /\ Marked(step.cands)' \subseteq Has(wiz.draft)'
          /\ \A x \in Heard' : /\ x.op \in OfStep => x.draft = wiz'.draft
                               /\ x.op = "create" => Marked(x.all) \subseteq Has(x.draft)'
  BY DEF RecapOK, Marked
<1>1. Undisturbed
  BY StillUndisturbed DEF IInv, Reply
<1>2. Has(wiz.draft) \subseteq Has(wiz.draft)'
  BY StoredKnown, HasGrows DEF IInv, Reply, Has
<1>3. ASSUME NEW x \in Heard PROVE Has(x.draft) \subseteq Has(x.draft)'
  <2>1. x \in calls
    BY DEF Heard
  <2>2. x.draft \in 0..MaxDrafts /\ (x.draft # 0 => Known(x.draft))
    BY <2>1 DEF IInv, BooksOK, TypeOK, Asks, CallOK
  <2> QED
    BY <2>2, HasGrows DEF IInv, Reply
<1>4. ASSUME NEW x \in Heard'
      PROVE  /\ x.op \in OfStep => x.draft = wiz.draft
             /\ x.op = "create" => Marked(x.all) \subseteq Has(x.draft)'
  <2>1. PICK y \in Heard : x.op = y.op /\ x.draft = y.draft /\ x.all = y.all
    BY ReplyHeard DEF Heir
  <2>2. /\ y.op \in OfStep => y.draft = wiz.draft
        /\ y.op = "create" => Marked(y.all) \subseteq Has(y.draft)
    BY <1>1 DEF IInv, RecapOK
  <2>3. Has(y.draft) \subseteq Has(y.draft)'
    BY <1>3
  <2>4. Has(x.draft)' = Has(y.draft)'
    BY <2>1 DEF Has
  <2> QED
    BY <2>1, <2>2, <2>3, <2>4
<1>5. wiz' = wiz /\ step' = step
  BY DEF Reply
<1>6. wiz.cands \subseteq Has(wiz.draft) /\ Marked(step.cands) \subseteq Has(wiz.draft)
  BY <1>1 DEF IInv, RecapOK
<1> QED
  BY <1>2, <1>4, <1>5, <1>6 DEF Marked

(* An answer that is awaited is still in flight, until it is heard.        *)
LEMMA ReplyBusy ==
  ASSUME IInv, NEW c, NEW d, Reply(c, d)
  PROVE  BusyOK'
<1>1. ASSUME NEW x \in Heard, x.op \in {"draft", "publish"} \/ x.k = step.k
      PROVE  \E y \in Heard' : y.op = x.op /\ y.k = x.k /\ (x.op = "poll" => y.job = x.job)
  <2>1. wiz.open /\ x.n = wiz.n
    BY DEF Heard
  <2>2. CASE x = c
    <3>1. Matters(d, wiz, step.k)
      BY <1>1, <2>1, <2>2, HeardMatters, ReplyHeard DEF Heir
    <3> QED
      BY <2>2, <3>1, ReplyHeard DEF Heir
  <2>3. CASE x # c
    BY <1>1, <2>1, <2>3, HeardMatters, ReplyHeard
  <2> QED
    BY <2>2, <2>3
<1>2. wiz' = wiz /\ step' = step
  BY DEF Reply
<1>3. Screen(wiz)' = Screen(wiz)
  BY <1>2
<1>4. wiz.submitting => Submits' # {}
  <2>1. wiz.submitting => \E x \in Heard : x.op \in {"draft", "publish"}
    BY DEF IInv, BusyOK, StepBusyOK, Submits
  <2> QED
    BY <1>1, <2>1 DEF Submits
<1>5. ASSUME NEW ops, \E x \in Heard : x.op \in ops /\ x.k = step.k
      PROVE  \E x \in Heard' : x.op \in ops /\ x.k = step'.k
  BY <1>1, <1>2, <1>5
<1>6. step.submitting => \E x \in Heard' : x.op \in {"create"} /\ x.k = step'.k
  BY <1>5 DEF IInv, BusyOK, StepBusyOK, Awaited
<1>7. step.import = "uploading" => \E x \in Heard' : x.op \in {"import", "enroll"} /\ x.k = step'.k
  BY <1>5 DEF IInv, BusyOK, StepBusyOK, Awaited
<1>8. step.import = "processing" /\ wiz.draft # 0 =>
         \E x \in Heard' : x.op = "poll" /\ x.k = step'.k /\ x.job = step'.job
  <2>1. step.import = "processing" /\ wiz.draft # 0 =>
           \E x \in Heard : x.op = "poll" /\ x.k = step.k /\ x.job = step.job
    BY DEF IInv, BusyOK, StepBusyOK
  <2> QED
    BY <1>1, <1>2, <2>1
<1>9. ASSUME NEW x \in Heard' PROVE \E y \in Heard : y.op = x.op /\ y.k = x.k
  BY ReplyHeard DEF Heir
<1>10. (\E x \in Heard' : x.op \in {"import", "enroll"} /\ x.k = step'.k) =>
          \E x \in Heard : x.op \in {"import", "enroll"} /\ x.k = step.k
  BY <1>2, <1>9
<1>11. step.import # "none" \/ (\E x \in Heard : x.op \in {"import", "enroll"} /\ x.k = step.k) =>
          Screen(wiz) \in {"cands", "voters"}
  BY DEF IInv, BusyOK, StepBusyOK, Awaited
<1>12. step.submitting => Screen(wiz) = "cands"
  BY DEF IInv, BusyOK, StepBusyOK
<1>13. wiz.submitting => /\ step.import = "none"
                         /\ ~\E x \in Heard : x.op \in {"import", "enroll"} /\ x.k = step.k
  BY DEF IInv, BusyOK, StepBusyOK, Awaited
<1>14. StepBusyOK'
  BY <1>2, <1>3, <1>6, <1>7, <1>8, <1>10, <1>11, <1>12, <1>13 DEF StepBusyOK, Awaited
<1> QED
  BY <1>2, <1>4, <1>14 DEF BusyOK

(* An answer leaves no draft behind, unless it is a creation, whose        *)
(* answer will be heard.                                                   *)
LEMMA ReplyDrafts ==
  ASSUME IInv, TypeOK', NEW c, NEW d, Reply(c, d),
         clean' => clean /\ (d \in Creating({d}) => c \in Creating(calls) /\ d.status \in {"sent", "ok"}),
         clean' /\ Creation(c) => Creation(d) /\ d.id = c.id,
         \A e \in 1..MaxDrafts :
            drafts'[e].status = "draft" => drafts[e].status = "draft" \/ (Creation(d) /\ d.id = e)
  PROVE  DraftsOK'
<1> SUFFICES ASSUME clean'
    PROVE /\ \A x \in Creating(calls') : x \in Heard' /\ x.status \in {"sent", "ok"}
          /\ \A e \in 1..MaxDrafts \ closed' : drafts'[e].status = "draft" =>
                e = stored' \/ \E x \in calls' : Creation(x) /\ x.id = e
  BY DEF DraftsOK, Creation, Creating
<1>1. \A x \in Creating(calls) : x \in Heard /\ x.status \in {"sent", "ok"}
  BY DEF IInv, DraftsOK
<1>2. ASSUME NEW x \in Creating(calls') PROVE x \in Heard' /\ x.status \in {"sent", "ok"}
  <2>1. x \in calls' /\ x \in Creating({x})
    BY DEF Creating
  <2>2. CASE x = d
    <3>1. c \in Heard /\ d.status \in {"sent", "ok"}
      BY <1>1, <2>1, <2>2
    <3> QED
      BY <2>1, <2>2, <3>1 DEF Heard, Reply, Heir
  <2>3. CASE x \in calls \ {c}
    <3>1. x \in Heard /\ x.status \in {"sent", "ok"}
      BY <1>1, <2>1, <2>3 DEF Creating
    <3> QED
      BY <2>1, <3>1 DEF Heard, Reply
  <2> QED
    BY <2>1, <2>2, <2>3 DEF Reply
<1>3. ASSUME NEW x \in calls, Creation(x) PROVE x \in Heard /\ Matters(x, wiz, step.k)
  <2>1. x \in Heard
    BY <1>1, <1>3 DEF Creating, Creation
  <2>2. wiz.open /\ x.n = wiz.n
    BY <2>1 DEF Heard
  <2> QED
    BY <1>3, <2>1, <2>2, HeardMatters DEF Creation
<1>4. Creation(d) => d \in calls'
  <2>1. ASSUME Creation(d) PROVE c \in Heard
    BY <1>1, <2>1 DEF Creation, Creating
  <2>2. ASSUME Creation(d) PROVE Matters(d, wiz, step.k)
    <3>1. wiz.open /\ d.n = wiz.n
      BY <2>1, <2>2 DEF Heard, Reply, Heir
    <3> QED
      BY <2>2, <3>1, HeardMatters DEF Creation
  <2> QED
    BY <2>2 DEF Reply
<1>5. ASSUME NEW e \in 1..MaxDrafts \ closed, drafts'[e].status = "draft", e # stored
      PROVE  \E x \in calls' : Creation(x) /\ x.id = e
  <2>1. CASE Creation(d) /\ d.id = e
    BY <1>4, <2>1
  <2>2. CASE drafts[e].status = "draft"
    <3>1. PICK x \in calls : Creation(x) /\ x.id = e
      BY <1>5, <2>2 DEF IInv, DraftsOK
    <3>2. CASE x = c
      BY <1>4, <3>1, <3>2
    <3>3. CASE x # c
      BY <1>3, <3>1, <3>3 DEF Reply
    <3> QED
      BY <3>2, <3>3
  <2> QED
    BY <1>5, <2>1, <2>2
<1> QED
  BY <1>2, <1>5 DEF Reply

(* An answer keeps the invariant.                                          *)
LEMMA ReplyStep ==
  ASSUME IInv, TypeOK', NEW c, NEW d, Reply(c, d),
         clean' => clean /\ (d \in Creating({d}) => c \in Creating(calls) /\ d.status \in {"sent", "ok"}),
         clean' /\ Creation(c) => Creation(d) /\ d.id = c.id,
         \A e \in 1..MaxDrafts :
            drafts'[e].status = "draft" => drafts[e].status = "draft" \/ (Creation(d) /\ d.id = e)
  PROVE  IInv'
<1>1. WizardOK'
  BY DEF IInv, WizardOK, Reply
<1> QED
  BY <1>1, ReplyBooks, ReplyTurns, ReplyDrafts, ReplyRecap, ReplyBusy DEF IInv

(* Nothing is heard, but answers that nothing waits for may be lost.       *)
Reads == {"check", "quota", "criteria", "refresh", "electors"}

(* A step of the server that answers nothing, or drops a read nobody       *)
(* waits for, keeps the invariant.                                         *)
LEMMA QuietStep ==
  ASSUME IInv, TypeOK', UNCHANGED <<stored, wiz, step, closed>>, Grow,
         clean' => clean, calls' \subseteq calls, \A x \in calls \ calls' : x.op \in Reads,
         \A j \in jobs' : Known(j.draft)',
         \A e \in 1..MaxDrafts : drafts'[e].status = "draft" => drafts[e].status = "draft"
  PROVE  IInv'
<1>1. BooksOK'
  <2>1. ASSUME NEW x \in calls' PROVE CallOK(x)'
    <3>1. CallOK(x) /\ wiz.n \in Nat /\ step.k \in Nat
      BY DEF IInv, BooksOK, TypeOK, Wizard, Step
    <3> QED
      BY <3>1, CallKept DEF CallOK, IInv
  <2>2. ASSUME NEW e \in closed' \cup ({stored'} \ {0}) PROVE Known(e)'
    <3>1. e \in closed \cup ({stored} \ {0}) /\ e \in 1..MaxDrafts
      BY DEF IInv, TypeOK
    <3> QED
      BY <3>1 DEF IInv, BooksOK, Grow
  <2> QED
    BY <2>1, <2>2 DEF IInv, BooksOK, Creation
<1>2. WizardOK'
  BY DEF IInv, WizardOK
<1>3. Heard' \subseteq Heard /\ \A x \in Heard : x.op \notin Reads => x \in Heard'
  BY DEF Heard
<1>4. TurnsOK'
  BY <1>3 DEF IInv, TurnsOK, Submits, Checks
<1>5. DraftsOK'
  <2>1. \A x \in calls : Creation(x) => x \in calls'
    BY DEF Creation, Reads
  <2>2. \A x \in Heard : x \in calls' => x \in Heard'
    BY DEF Heard
  <2> QED
    BY <2>1, <2>2 DEF IInv, DraftsOK, Creating, Creation
<1>6. RecapOK'
  <2> SUFFICES ASSUME Undisturbed'
      PROVE /\ wiz'.cands \subseteq Has(wiz.draft)'
            /\ Marked(step.cands)' \subseteq Has(wiz.draft)'
            /\ \A x \in Heard' : /\ x.op \in OfStep => x.draft = wiz'.draft
                                 /\ x.op = "create" => Marked(x.all) \subseteq Has(x.draft)'
    BY DEF RecapOK, Marked
  <2>1. Undisturbed
    BY StillUndisturbed DEF IInv
  <2>2. Has(wiz.draft) \subseteq Has(wiz.draft)'
    BY StoredKnown, HasGrows DEF IInv, Has
  <2>3. ASSUME NEW x \in Heard PROVE Has(x.draft) \subseteq Has(x.draft)'
    <3>1. x \in calls
      BY DEF Heard
    <3>2. x.draft \in 0..MaxDrafts /\ (x.draft # 0 => Known(x.draft))
      BY <3>1 DEF IInv, BooksOK, TypeOK, Asks, CallOK
    <3> QED
      BY <3>2, HasGrows DEF IInv
  <2> QED
    BY <1>3, <2>1, <2>2, <2>3 DEF IInv, RecapOK, Marked
<1>7. BusyOK'
  <2>1. Screen(wiz)' = Screen(wiz)
    OBVIOUS
  <2> QED
    BY <1>3, <2>1 DEF IInv, BusyOK, StepBusyOK, Awaited, Submits, Reads
<1> QED
  BY <1>1, <1>2, <1>4, <1>5, <1>6, <1>7 DEF IInv

-----------------------------------------------------------------------------
(* An answer that creates no draft.                                        *)
LEMMA AnswerStep ==
  ASSUME IInv, NEW c \in calls, NEW d, d \in Asks(d.job), Heir(c, d), Set(c, d), Grow,
         UNCHANGED <<stored, wiz, step, closed>>, drafts' \in [1..MaxDrafts -> Draft],
         \A j \in jobs' : j \in Import(j.id) /\ Known(j.draft)',
         \A e \in 1..MaxDrafts : drafts'[e].status = "draft" => drafts[e].status = "draft",
         clean' \in BOOLEAN, clean' => clean /\ ~(c.op = "draft" /\ c.draft = 0),
         ~Creation(d),
         d.op = "check" /\ d.status = "ok" /\ ~d.yes => Gone(d.draft)',
         d.op = "create" => OnServer(d.made) \subseteq drafts'[d.draft].cands,
         d.op = "refresh" => d.list \subseteq drafts'[d.draft].cands
  PROVE  IInv'
<1>1. calls' \subseteq calls \cup {d}
  BY DEF Set
<1>2. TypeOK'
  BY <1>1 DEF IInv, TypeOK
<1>3. CallOK(d)'
  <2>1. CallOK(c) /\ wiz.n \in Nat /\ c \in Asks(c.job)
    BY DEF IInv, BooksOK, TypeOK, Wizard
  <2>2. c.n <= wiz'.n /\ c.k <= step'.k /\ (c.op \notin {"draft", "quota"} => c.draft # 0)
    BY <2>1 DEF CallOK
  <2>3. c.draft # 0 => Known(c.draft)'
    BY <2>1 DEF CallOK, Asks, Grow
  <2> QED
    BY <2>2, <2>3 DEF CallOK, Heir, Creation
<1>4. Reply(c, d)
  BY <1>3 DEF Reply, Set
<1>5. d \notin Creating({d}) \/ ~clean'
  BY DEF Creating, Heir
<1>6. ~Creation(c) \/ ~clean'
  BY DEF Creation
<1> QED
  BY <1>2, <1>4, <1>5, <1>6, ReplyStep

(* The jobs are left alone.                                                *)
LEMMA JobsKept ==
  ASSUME IInv, Grow, jobs' = jobs
  PROVE  \A j \in jobs' : j \in Import(j.id) /\ Known(j.draft)'
<1> SUFFICES ASSUME NEW j \in jobs PROVE j \in Import(j.id) /\ Known(j.draft)'
  OBVIOUS
<1>1. j \in Import(j.id) /\ Known(j.draft)
  BY DEF IInv, TypeOK, BooksOK
<1>2. j.draft \in 1..MaxDrafts
  BY <1>1 DEF Import
<1> QED
  BY <1>1, <1>2 DEF Grow

(* What one draft becomes.                                                 *)
LEMMA DraftStep ==
  ASSUME TypeOK, NEW e \in 1..MaxDrafts, NEW v \in Draft, drafts' = [drafts EXCEPT ![e] = v],
         Known(e) => /\ v.status # "none" /\ (Gone(e) => v.status \in {"published", "deleted"})
                     /\ drafts[e].cands \subseteq v.cands
  PROVE  drafts' \in [1..MaxDrafts -> Draft] /\ Grow
<1>1. drafts \in [1..MaxDrafts -> Draft]
  BY DEF TypeOK
<1>2. drafts' \in [1..MaxDrafts -> Draft] /\ drafts'[e] = v
      /\ \A x \in 1..MaxDrafts : x # e => drafts'[x] = drafts[x]
  BY <1>1
<1> QED
  BY <1>1, <1>2 DEF Grow, Known, Gone

(* The two answers to a call carry what it asked.                          *)
LEMMA OkType ==
  ASSUME NEW c, c \in Asks(c.job)
  PROVE  /\ Ok(c) \in Asks(Ok(c).job) /\ Heir(c, Ok(c)) /\ Ok(c).status = "ok" /\ Ok(c).yes = c.yes
         /\ Refused(c) \in Asks(Refused(c).job) /\ Heir(c, Refused(c)) /\ Refused(c).status = "refused"
         /\ Ok(c).made = c.made /\ Refused(c).made = c.made
         /\ Ok(c).list = c.list /\ Refused(c).list = c.list
  BY DEF Ok, Refused, Asks, Heir

(* What is true of the call c.                                             *)
LEMMA CallFacts ==
  ASSUME IInv, NEW c \in calls
  PROVE  /\ c \in Asks(c.job) /\ CallOK(c) /\ c.draft \in 0..MaxDrafts
         /\ c.op \notin {"draft", "quota"} => c.draft \in 1..MaxDrafts
         /\ c.draft # 0 => c.draft \in 1..MaxDrafts /\ Known(c.draft)
  BY DEF IInv, TypeOK, BooksOK, CallOK, Asks

(* The server says whether the stored draft is still one.                  *)
LEMMA CheckServed ==
  ASSUME IInv, NEW c \in calls, ServeCheck(c)
  PROVE  IInv'
<1>0. PICK d : d = [Ok(c) EXCEPT !.yes = drafts[c.draft].status = "draft"]
  OBVIOUS
<1>1. c \in Asks(c.job) /\ c.draft \in 1..MaxDrafts /\ Known(c.draft)
  BY CallFacts DEF ServeCheck
<1>2. d \in Asks(d.job) /\ Heir(c, d) /\ d.status = "ok" /\ d.op = "check" /\ d.draft = c.draft
      /\ (d.yes <=> drafts[c.draft].status = "draft")
  BY <1>0, <1>1 DEF Ok, Asks, Heir, ServeCheck
<1>3. ~d.yes => Gone(d.draft)
  BY <1>1, <1>2 DEF IInv, TypeOK, Draft, Known, Gone
<1>4. Set(c, d) /\ UNCHANGED <<drafts, jobs, stored, wiz, step, closed, clean>> /\ Grow
  BY <1>0, GrowSame DEF ServeCheck, Client, IInv
<1>5. clean \in BOOLEAN /\ drafts \in [1..MaxDrafts -> Draft]
  BY DEF IInv, TypeOK
<1>6. c.op = "check" /\ ~Creation(d) /\ (~d.yes => Gone(d.draft)')
  BY <1>2, <1>3, <1>4 DEF ServeCheck, Creation, Gone
<1> QED
  BY <1>2, <1>4, <1>5, <1>6, JobsKept, AnswerStep

(* The writes of criteria and electors change nothing that is listed or    *)
(* checked.                                                                *)
LEMMA CriterionServed ==
  ASSUME IInv, NEW c \in calls, ServeCriterion(c) \/ ServeElector(c)
  PROVE  IInv'
<1>1. c \in Asks(c.job) /\ c.draft \in 1..MaxDrafts /\ Known(c.draft)
      /\ c.op \in {"criterion", "elector"}
  BY CallFacts DEF ServeCriterion, ServeElector
<1>2. PICK d : d \in {Ok(c), Refused(c)} /\ Set(c, d)
  BY DEF ServeCriterion, ServeElector
<1>3. d \in Asks(d.job) /\ Heir(c, d) /\ d.op \in {"criterion", "elector"} /\ ~Creation(d)
  BY <1>1, <1>2, OkType DEF Heir, Creation
<1>4. UNCHANGED <<jobs, stored, wiz, step, closed, clean>>
  BY DEF ServeCriterion, ServeElector, Client
<1>5. /\ drafts' \in [1..MaxDrafts -> Draft] /\ Grow
      /\ \A e \in 1..MaxDrafts : drafts'[e].status = drafts[e].status
  <2>1. drafts \in [1..MaxDrafts -> Draft]
    BY DEF IInv, TypeOK
  <2>2. CASE drafts' = drafts
    BY <2>1, <2>2, GrowSame DEF IInv
  <2>3. ASSUME NEW v \in Draft, drafts' = [drafts EXCEPT ![c.draft] = v], v.cands = drafts[c.draft].cands,
               v.status = drafts[c.draft].status
        PROVE  /\ drafts' \in [1..MaxDrafts -> Draft] /\ Grow
               /\ \A e \in 1..MaxDrafts : drafts'[e].status = drafts[e].status
    BY <1>1, <2>1, <2>3, DraftStep DEF IInv, Known, Gone
  <2>4. ASSUME NEW some \in BOOLEAN
        PROVE  LET u == [drafts[c.draft] EXCEPT !.criteria = some]
                   v == [drafts[c.draft] EXCEPT !.voters = TRUE] IN
               /\ u \in Draft /\ u.cands = drafts[c.draft].cands /\ u.status = drafts[c.draft].status
               /\ v \in Draft /\ v.cands = drafts[c.draft].cands /\ v.status = drafts[c.draft].status
    BY <1>1, <2>1 DEF Draft
  <2>5. CASE \E some \in BOOLEAN : drafts' = [drafts EXCEPT ![c.draft].criteria = some]
    BY <2>3, <2>4, <2>5
  <2>6. CASE drafts' = [drafts EXCEPT ![c.draft].voters = TRUE]
    BY <2>3, <2>4, <2>6
  <2> QED
    BY <2>2, <2>5, <2>6 DEF ServeCriterion, ServeElector
<1>6. clean \in BOOLEAN
  BY DEF IInv, TypeOK
<1> QED
  BY <1>1, <1>2, <1>3, <1>4, <1>5, <1>6, JobsKept, AnswerStep

(* A draft is changed, or is not one any more: none is created.            *)
LEMMA DraftServed ==
  ASSUME IInv, NEW c \in calls, ServeDraft(c), c.draft # 0
  PROVE  IInv'
<1>1. c \in Asks(c.job) /\ c.draft \in 1..MaxDrafts /\ Known(c.draft) /\ c.op = "draft" /\ c.form \in Forms
  BY CallFacts DEF ServeDraft, Asks
<1>2. UNCHANGED <<jobs, stored, wiz, step, closed, clean>> /\ clean \in BOOLEAN
      /\ drafts \in [1..MaxDrafts -> Draft]
  BY DEF ServeDraft, Client, IInv, TypeOK
<1>3. CASE drafts[c.draft].status = "draft"
  <2>0. PICK v : v = [drafts[c.draft] EXCEPT !.form = c.form]
    OBVIOUS
  <2>1. PICK d : d = [Ok(c) EXCEPT !.id = c.draft]
    OBVIOUS
  <2>2. d \in Asks(d.job) /\ Heir(c, d) /\ ~Creation(d) /\ d.op = "draft"
    BY <1>1, <2>1 DEF Ok, Asks, Heir, Creation
  <2>3. drafts' = [drafts EXCEPT ![c.draft] = v] /\ Set(c, d)
    BY <1>1, <1>2, <1>3, <2>0, <2>1 DEF ServeDraft
  <2>4. v \in Draft /\ v.cands = drafts[c.draft].cands /\ v.status = drafts[c.draft].status
    BY <1>1, <1>2, <2>0 DEF Draft
  <2>5. drafts' \in [1..MaxDrafts -> Draft] /\ Grow
    BY <1>1, <2>3, <2>4, DraftStep DEF IInv, Known, Gone
  <2>6. \A e \in 1..MaxDrafts : drafts'[e].status = drafts[e].status
    BY <1>1, <1>2, <2>3, <2>4
  <2> QED
    BY <1>1, <1>2, <2>2, <2>3, <2>5, <2>6, JobsKept, AnswerStep
<1>4. CASE drafts[c.draft].status # "draft"
  <2>1. UNCHANGED drafts /\ Set(c, Refused(c))
    BY <1>1, <1>2, <1>4 DEF ServeDraft
  <2>2. PICK d : d = Refused(c)
    OBVIOUS
  <2>3. d \in Asks(d.job) /\ Heir(c, d) /\ ~Creation(d) /\ d.op = "draft"
    BY <1>1, <2>2, OkType DEF Heir, Creation
  <2> QED
    BY <1>1, <1>2, <2>1, <2>2, <2>3, GrowSame, JobsKept, AnswerStep DEF IInv
<1> QED
  BY <1>3, <1>4

(* The server answers a page of the candidates it has.                     *)
LEMMA RefreshServed ==
  ASSUME IInv, NEW c \in calls, ServeRefresh(c)
  PROVE  IInv'
<1>1. c \in Asks(c.job) /\ c.draft \in 1..MaxDrafts /\ Known(c.draft) /\ c.op = "refresh" /\ CallOK(c)
  BY CallFacts DEF ServeRefresh
<1>2. UNCHANGED <<drafts, jobs, stored, wiz, step, closed, clean>> /\ clean \in BOOLEAN
      /\ drafts \in [1..MaxDrafts -> Draft]
  BY DEF ServeRefresh, Client, IInv, TypeOK
<1>3. PICK d : /\ Set(c, d)
               /\ \/ d = Refused(c)
                  \/ \E page \in SUBSET drafts[c.draft].cands : d = [Ok(c) EXCEPT !.list = page]
  BY DEF ServeRefresh
<1>4. drafts[c.draft].cands \in SUBSET Candidates
  BY <1>1, <1>2 DEF Draft
<1>5. d \in Asks(d.job) /\ Heir(c, d) /\ ~Creation(d) /\ d.op = "refresh" /\ d.draft = c.draft
      /\ d.list \subseteq drafts[c.draft].cands
  <2>1. CASE d = Refused(c)
    BY <1>1, <2>1, OkType DEF Heir, Creation, CallOK
  <2>2. CASE d # Refused(c)
    <3>1. PICK page \in SUBSET drafts[c.draft].cands : d = [Ok(c) EXCEPT !.list = page]
      BY <1>3, <2>2
    <3>2. page \in SUBSET Candidates
      BY <1>4
    <3> QED
      BY <1>1, <3>1, <3>2 DEF Ok, Asks, Heir, Creation
  <2> QED
    BY <2>1, <2>2
<1> QED
  BY <1>1, <1>2, <1>3, <1>5, GrowSame, JobsKept, AnswerStep DEF IInv

(* Candidates marked as being on the server are candidates with that       *)
(* mark.                                                                   *)
LEMMA OnServerType ==
  ASSUME NEW s \in SUBSET Candidates
  PROVE  /\ OnServer(s) \in SUBSET Candidates /\ \A x \in OnServer(s) : x.on
         /\ \A x \in s : x.on => x \in OnServer(s)
<1>1. ASSUME NEW y \in OnServer(s) PROVE y \in Candidates /\ y.on
  <2>1. PICK x \in s : y = [email |-> x.email, cat |-> x.cat, on |-> TRUE]
    BY DEF OnServer, Candidate
  <2>2. x \in Candidates
    OBVIOUS
  <2> QED
    BY <2>1, <2>2 DEF Candidates
<1>2. ASSUME NEW x \in s, x.on PROVE x \in OnServer(s)
  <2>1. x \in [email : 0..3, cat : BOOLEAN, on : BOOLEAN]
    BY DEF Candidates
  <2>2. x = [email |-> x.email, cat |-> x.cat, on |-> TRUE]
    BY <1>2, <2>1
  <2> QED
    BY <2>2 DEF OnServer, Candidate
<1> QED
  BY <1>1, <1>2

(* One of the candidates asked for is created, or refused.                 *)
LEMMA CreateServed ==
  ASSUME IInv, NEW c \in calls, NEW x \in c.rows, ServeCreate(c, x)
  PROVE  IInv'
<1>1. c \in Asks(c.job) /\ c.draft \in 1..MaxDrafts /\ Known(c.draft) /\ c.op = "create" /\ CallOK(c)
  BY CallFacts DEF ServeCreate
<1>2. UNCHANGED <<jobs, stored, wiz, step, closed, clean>> /\ clean \in BOOLEAN
      /\ drafts \in [1..MaxDrafts -> Draft]
  BY DEF ServeCreate, Client, IInv, TypeOK
<1>3. x \in Candidates /\ OnServer({x}) \in SUBSET Candidates /\ OnServer(c.made) \subseteq drafts[c.draft].cands
  <2>1. x \in Candidates
    BY <1>1 DEF Asks
  <2> QED
    BY <1>1, <2>1, OnServerType DEF CallOK
<1>4. CASE drafts' = [drafts EXCEPT ![c.draft].cands = @ \cup OnServer({x})]
           /\ Set(c, [c EXCEPT !.rows = @ \ {x}, !.made = @ \cup {x}])
  <2>0. PICK v : v = [drafts[c.draft] EXCEPT !.cands = @ \cup OnServer({x})]
    OBVIOUS
  <2>1. PICK d : d = [c EXCEPT !.rows = @ \ {x}, !.made = @ \cup {x}]
    OBVIOUS
  <2>2. d \in Asks(d.job) /\ Heir(c, d) /\ ~Creation(d) /\ d.op = "create" /\ d.draft = c.draft
        /\ d.made = c.made \cup {x}
    BY <1>1, <1>3, <2>1 DEF Asks, Heir, Creation
  <2>3. drafts' = [drafts EXCEPT ![c.draft] = v] /\ Set(c, d)
    BY <1>1, <1>2, <1>4, <2>0, <2>1
  <2>4. v \in Draft /\ v.cands = drafts[c.draft].cands \cup OnServer({x}) /\ v.status = drafts[c.draft].status
    BY <1>1, <1>2, <1>3, <2>0 DEF Draft
  <2>5. drafts' \in [1..MaxDrafts -> Draft] /\ Grow
    BY <1>1, <2>3, <2>4, DraftStep DEF IInv, Known, Gone
  <2>6. \A e \in 1..MaxDrafts : drafts'[e].status = drafts[e].status
    BY <1>1, <1>2, <2>3, <2>4
  <2>7. OnServer(d.made) \subseteq drafts'[d.draft].cands
    BY <1>1, <1>2, <1>3, <2>2, <2>3, <2>4 DEF OnServer
  <2> QED
    BY <1>1, <1>2, <2>2, <2>3, <2>5, <2>6, <2>7, JobsKept, AnswerStep
<1>5. CASE UNCHANGED drafts /\ Set(c, [c EXCEPT !.rows = @ \ {x}])
  <2>1. PICK d : d = [c EXCEPT !.rows = @ \ {x}]
    OBVIOUS
  <2>2. d \in Asks(d.job) /\ Heir(c, d) /\ ~Creation(d) /\ d.op = "create" /\ d.draft = c.draft
        /\ d.made = c.made
    BY <1>1, <2>1 DEF Asks, Heir, Creation
  <2> QED
    BY <1>1, <1>2, <1>3, <1>5, <2>1, <2>2, GrowSame, JobsKept, AnswerStep DEF IInv
<1> QED
  BY <1>4, <1>5 DEF ServeCreate

(* A file is queued, for a draft that is known.                            *)
LEMMA ImportServed ==
  ASSUME IInv, NEW c \in calls, ServeImport(c)
  PROVE  IInv'
<1>1. c \in Asks(c.job) /\ c.draft \in 1..MaxDrafts /\ Known(c.draft) /\ c.op \in {"import", "enroll"}
      /\ c.rows \in SUBSET Candidates
  BY CallFacts DEF ServeImport, Asks
<1>2. UNCHANGED <<drafts, stored, wiz, step, closed, clean>> /\ clean \in BOOLEAN
      /\ drafts \in [1..MaxDrafts -> Draft] /\ Grow
  BY GrowSame DEF ServeImport, Client, IInv, TypeOK
<1>3. CASE UNCHANGED jobs /\ Set(c, Refused(c))
  <2>1. PICK d : d = Refused(c)
    OBVIOUS
  <2>2. d \in Asks(d.job) /\ Heir(c, d) /\ ~Creation(d) /\ d.op \in {"import", "enroll"}
    BY <1>1, <2>1, OkType DEF Heir, Creation
  <2> QED
    BY <1>1, <1>2, <1>3, <2>1, <2>2, JobsKept, AnswerStep
<1>4. ASSUME NEW i, jobs' = jobs \cup {[id |-> i, op |-> c.op, draft |-> c.draft, rows |-> c.rows,
                                        state |-> "running", some |-> FALSE]},
             Set(c, [Ok(c) EXCEPT !.job = i])
      PROVE  IInv'
  <2>1. PICK d : d = [Ok(c) EXCEPT !.job = i]
    OBVIOUS
  <2>2. d \in Asks(d.job) /\ Heir(c, d) /\ ~Creation(d) /\ d.op \in {"import", "enroll"}
    BY <1>1, <2>1 DEF Ok, Asks, Heir, Creation
  <2>3. PICK j : j = [id |-> i, op |-> c.op, draft |-> c.draft, rows |-> c.rows,
                      state |-> "running", some |-> FALSE]
    OBVIOUS
  <2>4. j \in Import(j.id) /\ Known(j.draft)'
    BY <1>1, <1>2, <2>3 DEF Import, Known
  <2>5. \A u \in jobs : u \in Import(u.id) /\ Known(u.draft)'
    BY <1>2 DEF IInv, TypeOK, BooksOK, Known
  <2>6. \A u \in jobs' : u \in Import(u.id) /\ Known(u.draft)'
    BY <1>4, <2>3, <2>4, <2>5
  <2> QED
    BY <1>1, <1>2, <1>4, <2>1, <2>2, <2>6, AnswerStep
<1>5. PICK i : i = Cardinality(jobs) + 1
  OBVIOUS
<1> QED
  BY <1>3, <1>4, <1>5 DEF ServeImport

(* The server tells the state of an import.                                *)
LEMMA PollServed ==
  ASSUME IInv, NEW c \in calls, ServePoll(c)
  PROVE  IInv'
<1>1. c \in Asks(c.job) /\ c.op = "poll"
  BY CallFacts DEF ServePoll
<1>2. UNCHANGED <<drafts, jobs, stored, wiz, step, closed, clean>> /\ clean \in BOOLEAN
      /\ drafts \in [1..MaxDrafts -> Draft] /\ Grow
  BY GrowSame DEF ServePoll, Client, IInv, TypeOK
<1>3. PICK d : Set(c, d) /\ (d = Refused(c) \/ \E yes \in BOOLEAN : d = [Ok(c) EXCEPT !.yes = yes])
  <2>1. PICK j \in jobs : Set(c, IF Exists(c.draft) THEN [Ok(c) EXCEPT !.yes = j.state # "running"]
                                 ELSE Refused(c))
    BY DEF ServePoll
  <2>2. (j.state # "running") \in BOOLEAN
    OBVIOUS
  <2> QED
    BY <2>1, <2>2
<1>4. d \in Asks(d.job) /\ Heir(c, d) /\ d.op = "poll" /\ ~Creation(d)
  <2>1. CASE d = Refused(c)
    BY <1>1, <2>1, OkType DEF Heir, Creation
  <2>2. CASE d # Refused(c)
    BY <1>1, <1>3, <2>2 DEF Ok, Asks, Heir, Creation
  <2> QED
    BY <2>1, <2>2
<1> QED
  BY <1>1, <1>2, <1>3, <1>4, JobsKept, AnswerStep

(* A draft that is taken from the wizard keeps its candidates.             *)
LEMMA TakenStep ==
  ASSUME IInv, NEW e \in 1..MaxDrafts, NEW s \in {"published", "deleted"},
         drafts[e].status = "draft", drafts' = [drafts EXCEPT ![e].status = s]
  PROVE  /\ drafts' \in [1..MaxDrafts -> Draft] /\ Grow
         /\ \A x \in 1..MaxDrafts : drafts'[x].status = "draft" => drafts[x].status = "draft"
<1>1. drafts \in [1..MaxDrafts -> Draft]
  BY DEF IInv, TypeOK
<1>2. PICK v : v = [drafts[e] EXCEPT !.status = s]
  OBVIOUS
<1>3. v \in Draft /\ v.cands = drafts[e].cands /\ v.status = s
  BY <1>1, <1>2 DEF Draft
<1>4. drafts' = [drafts EXCEPT ![e] = v]
  BY <1>2
<1>5. drafts' \in [1..MaxDrafts -> Draft] /\ Grow
  BY <1>3, <1>4, DraftStep DEF IInv, Gone
<1> QED
  BY <1>1, <1>3, <1>4, <1>5

(* The server publishes the draft, or refuses.                             *)
LEMMA PublishServed ==
  ASSUME IInv, NEW c \in calls, ServePublish(c)
  PROVE  IInv'
<1>1. c \in Asks(c.job) /\ c.op = "publish" /\ c.draft \in 1..MaxDrafts
  BY CallFacts DEF ServePublish
<1>2. UNCHANGED <<jobs, stored, wiz, step, closed, clean>> /\ clean \in BOOLEAN
      /\ drafts \in [1..MaxDrafts -> Draft]
  BY DEF ServePublish, Client, IInv, TypeOK
<1>3. PICK d, plan : /\ plan \in BOOLEAN /\ (d = Ok(c) \/ d = [Refused(c) EXCEPT !.yes = plan])
                     /\ Set(c, d)
  BY DEF ServePublish
<1>4. d \in Asks(d.job) /\ Heir(c, d) /\ d.op = "publish" /\ ~Creation(d)
  <2>1. Ok(c) \in Asks(Ok(c).job) /\ Heir(c, Ok(c)) /\ Refused(c) \in Asks(Refused(c).job) /\ Heir(c, Refused(c))
    BY <1>1, OkType
  <2>2. d \in Asks(d.job) /\ Heir(c, d)
    BY <1>3, <2>1 DEF Asks, Heir
  <2> QED
    BY <1>1, <2>2 DEF Heir, Creation
<1>5. /\ drafts' \in [1..MaxDrafts -> Draft] /\ Grow
      /\ \A e \in 1..MaxDrafts : drafts'[e].status = "draft" => drafts[e].status = "draft"
  <2>1. CASE Publishable(c.draft)
    BY <1>1, <2>1, TakenStep DEF ServePublish, Publishable
  <2>2. CASE drafts' = drafts
    BY <1>2, <2>2, GrowSame DEF IInv
  <2> QED
    BY <2>1, <2>2 DEF ServePublish
<1> QED
  BY <1>1, <1>2, <1>3, <1>4, <1>5, JobsKept, AnswerStep

(* The draft created is new to everyone.                                   *)
LEMMA DraftCreated ==
  ASSUME IInv, NEW c \in calls, ServeDraft(c), c.draft = 0
  PROVE  IInv'
<1>1. c \in Asks(c.job) /\ CallOK(c) /\ c.op = "draft" /\ c.status = "sent" /\ c.form \in Forms
      /\ c.n <= wiz.n /\ c.k <= step.k
  BY CallFacts DEF ServeDraft, Asks, CallOK
<1>2. UNCHANGED <<jobs, stored, wiz, step, closed, clean>> /\ clean \in BOOLEAN
      /\ drafts \in [1..MaxDrafts -> Draft]
  BY DEF ServeDraft, Client, IInv, TypeOK
<1>3. PICK e \in Unused : /\ drafts' = [drafts EXCEPT ![e] = [Nothing EXCEPT !.status = "draft", !.form = c.form]]
                          /\ Set(c, [Ok(c) EXCEPT !.id = e])
  BY DEF ServeDraft
<1>4. PICK d : d = [Ok(c) EXCEPT !.id = e]
  OBVIOUS
<1>5. PICK v : v = [Nothing EXCEPT !.status = "draft", !.form = c.form]
  OBVIOUS
<1>6. e \in 1..MaxDrafts /\ ~Known(e)
  BY DEF Unused, Known
<1>7. v \in Draft /\ v.status = "draft"
  <2>1. NoForm \in Forms /\ {} \in SUBSET Candidates
    BY DEF NoForm, Forms
  <2>2. Nothing \in Draft
    BY <2>1 DEF Nothing, Draft
  <2> QED
    BY <1>1, <1>5, <2>2 DEF Draft
<1>8. d \in Asks(d.job) /\ Heir(c, d) /\ Creation(d) /\ d.id = e /\ d.op = "draft" /\ d.draft = 0
      /\ d.n = c.n /\ d.status = "ok"
  <2>1. e \in 0..MaxDrafts
    BY <1>6
  <2>2. d \in Asks(d.job) /\ d.id = e /\ d.status = "ok"
    BY <1>1, <1>4, <2>1 DEF Ok, Asks
  <2>3. Heir(c, d)
    BY <1>1, <1>4 DEF Ok, Asks, Heir
  <2> QED
    BY <1>1, <2>2, <2>3 DEF Heir, Creation
<1>9. drafts' \in [1..MaxDrafts -> Draft] /\ Grow /\ Known(e)'
      /\ \A x \in 1..MaxDrafts : x # e => drafts'[x] = drafts[x]
  BY <1>2, <1>3, <1>5, <1>6, <1>7, DraftStep DEF IInv, Known
<1>10. TypeOK'
  <2>1. calls' \subseteq calls \cup {d}
    BY <1>3, <1>4 DEF Set
  <2> QED
    BY <1>2, <1>8, <1>9, <2>1 DEF IInv, TypeOK
<1>11. CallOK(d)'
  <2>1. e # stored /\ e \notin closed /\ e # 0
    BY <1>6 DEF IInv, BooksOK
  <2> QED
    BY <1>1, <1>2, <1>8, <1>9, <2>1 DEF CallOK, Creation, Heir
<1>12. \A j \in jobs' : Known(j.draft)'
  BY <1>2, <1>9, JobsKept
<1>13. Reply(c, d)
  BY <1>2, <1>3, <1>4, <1>6, <1>8, <1>9, <1>11, <1>12 DEF Reply, Set
<1>14. c \in Creating(calls) /\ ~Creation(c)
  BY <1>1 DEF Creating, Creation
<1>15. \A x \in 1..MaxDrafts :
         drafts'[x].status = "draft" => drafts[x].status = "draft" \/ (Creation(d) /\ d.id = x)
  BY <1>8, <1>9
<1> QED
  BY <1>2, <1>8, <1>10, <1>13, <1>14, <1>15, ReplyStep

(* Whatever call the server answers, the invariant is kept.                *)
LEMMA ServeStep ==
  ASSUME IInv, NEW c \in calls, Serve(c)
  PROVE  IInv'
  BY CheckServed, CriterionServed, DraftServed, DraftCreated, RefreshServed, CreateServed,
     ImportServed, PollServed, PublishServed DEF Serve

-----------------------------------------------------------------------------
(* The queue, the other managers, and the answers that are lost.           *)
LEMMA WorkStep ==
  ASSUME IInv, NEW j \in jobs, Work(j)
  PROVE  IInv'
<1>1. j \in Import(j.id) /\ Known(j.draft) /\ j.draft \in 1..MaxDrafts /\ j.rows \in SUBSET Candidates
  BY DEF IInv, TypeOK, BooksOK, Import
<1>2. UNCHANGED <<stored, wiz, step, calls, closed, clean>> /\ drafts \in [1..MaxDrafts -> Draft]
  BY DEF Work, Client, IInv, TypeOK
<1>3. PICK new \in SUBSET j.rows, state \in {"completed", "failed"}, some \in BOOLEAN :
         /\ jobs' = (jobs \ {j}) \cup {[j EXCEPT !.state = state, !.some = some]}
         /\ drafts' = IF ~some THEN drafts
                      ELSE IF j.op = "import" THEN [drafts EXCEPT ![j.draft].cands = @ \cup OnServer(new)]
                      ELSE [drafts EXCEPT ![j.draft].voters = TRUE]
  BY DEF Work
<1>4. OnServer(new) \in SUBSET Candidates
  BY <1>1, OnServerType
<1>5. /\ drafts' \in [1..MaxDrafts -> Draft] /\ Grow
      /\ \A x \in 1..MaxDrafts : drafts'[x].status = drafts[x].status
  <2>1. CASE drafts' = drafts
    BY <1>2, <2>1, GrowSame DEF IInv
  <2>2. ASSUME NEW v \in Draft, drafts' = [drafts EXCEPT ![j.draft] = v],
               drafts[j.draft].cands \subseteq v.cands, v.status = drafts[j.draft].status
        PROVE  /\ drafts' \in [1..MaxDrafts -> Draft] /\ Grow
               /\ \A x \in 1..MaxDrafts : drafts'[x].status = drafts[x].status
    BY <1>1, <1>2, <2>2, DraftStep DEF IInv, Known, Gone
  <2>3. drafts[j.draft] \in Draft
    BY <1>1, <1>2
  <2>4. CASE drafts' = [drafts EXCEPT ![j.draft].cands = @ \cup OnServer(new)]
    <3>1. PICK v : v = [drafts[j.draft] EXCEPT !.cands = @ \cup OnServer(new)]
      OBVIOUS
    <3>2. v \in Draft /\ v.cands = drafts[j.draft].cands \cup OnServer(new) /\ v.status = drafts[j.draft].status
      BY <1>4, <2>3, <3>1 DEF Draft
    <3> QED
      BY <2>2, <2>4, <3>1, <3>2
  <2>5. CASE drafts' = [drafts EXCEPT ![j.draft].voters = TRUE]
    <3>1. PICK v : v = [drafts[j.draft] EXCEPT !.voters = TRUE]
      OBVIOUS
    <3>2. v \in Draft /\ v.cands = drafts[j.draft].cands /\ v.status = drafts[j.draft].status
      BY <2>3, <3>1 DEF Draft
    <3> QED
      BY <2>2, <2>5, <3>1, <3>2
  <2> QED
    BY <1>3, <2>1, <2>4, <2>5
<1>6. \A u \in jobs' : u \in Import(u.id) /\ Known(u.draft)'
  <2>1. PICK i : i = [j EXCEPT !.state = state, !.some = some]
    OBVIOUS
  <2>2. i \in Import(i.id) /\ i.draft = j.draft
    BY <1>1, <2>1 DEF Import
  <2>3. ASSUME NEW u \in jobs PROVE u \in Import(u.id) /\ Known(u.draft)'
    <3>1. u \in Import(u.id) /\ Known(u.draft)
      BY DEF IInv, TypeOK, BooksOK
    <3>2. u.draft \in 1..MaxDrafts
      BY <3>1 DEF Import
    <3> QED
      BY <1>5, <3>1, <3>2 DEF Grow
  <2> QED
    BY <1>3, <2>1, <2>2, <2>3
<1>7. TypeOK'
  BY <1>2, <1>5, <1>6 DEF IInv, TypeOK
<1> QED
  BY <1>2, <1>5, <1>6, <1>7, QuietStep

(* Another manager, or the job that deletes stale drafts, keeps the        *)
(* invariant: it may disturb the wizard, which is then noted.              *)
LEMMA OtherStep ==
  ASSUME IInv, NEW e \in 1..MaxDrafts, Other(e)
  PROVE  IInv'
<1>1. UNCHANGED <<jobs, stored, wiz, step, calls, closed, clean>>
  BY DEF Other
<1>2. /\ drafts' \in [1..MaxDrafts -> Draft] /\ Grow
      /\ \A x \in 1..MaxDrafts : drafts'[x].status = "draft" => drafts[x].status = "draft"
  BY TakenStep DEF Other, Publishable
<1>3. TypeOK'
  BY <1>1, <1>2 DEF IInv, TypeOK
<1> QED
  BY <1>1, <1>2, <1>3, JobsKept, QuietStep

(* A call that is lost, before or after the server has served it, keeps    *)
(* the invariant.                                                          *)
LEMMA LoseStep ==
  ASSUME IInv, NEW c \in calls, Lose(c)
  PROVE  IInv'
<1>1. c \in Asks(c.job) /\ CallOK(c)
  BY CallFacts
<1>2. UNCHANGED <<drafts, jobs, stored, wiz, step, closed>> /\ drafts \in [1..MaxDrafts -> Draft] /\ Grow
      /\ clean' = (clean /\ c \notin Creating(calls)) /\ clean \in BOOLEAN
  BY GrowSame DEF Lose, IInv, TypeOK
<1>3. CASE c.op \in Reads /\ calls' = calls \ {c}
  <2>1. TypeOK'
    BY <1>2, <1>3 DEF IInv, TypeOK
  <2> QED
    BY <1>2, <1>3, <2>1, JobsKept, QuietStep
<1>4. CASE /\ c.op \in (Writes \ {"create"}) \cup {"poll"} /\ c.status \in {"sent", "ok"}
           /\ Set(c, [c EXCEPT !.status = "lost"])
  <2>1. PICK d : d = [c EXCEPT !.status = "lost"]
    OBVIOUS
  <2>2. d \in Asks(d.job) /\ Heir(c, d) /\ ~Creation(d) /\ d.op = c.op /\ d.status = "lost"
    BY <1>1, <2>1 DEF Asks, Heir, Creation
  <2>3. clean' => ~(c.op = "draft" /\ c.draft = 0)
    BY <1>2, <1>4 DEF Creating
  <2>4. d.op \notin {"create", "refresh"}
    BY <1>4, <2>2 DEF Writes
  <2> QED
    BY <1>2, <1>4, <2>1, <2>2, <2>3, <2>4, JobsKept, AnswerStep
<1>5. ASSUME c.op = "create", NEW x, Set(c, [c EXCEPT !.made = @ \ {x}, !.rows = @ \ {x}])
      PROVE  IInv'
  <2>1. PICK d : d = [c EXCEPT !.made = @ \ {x}, !.rows = @ \ {x}]
    OBVIOUS
  <2>2. d \in Asks(d.job) /\ Heir(c, d) /\ ~Creation(d) /\ d.op = "create" /\ d.draft = c.draft
        /\ d.made = c.made \ {x}
    BY <1>1, <1>5, <2>1 DEF Asks, Heir, Creation
  <2>3. OnServer(d.made) \subseteq drafts'[d.draft].cands
    BY <1>1, <1>2, <1>5, <2>2 DEF CallOK, OnServer
  <2> QED
    BY <1>2, <1>5, <2>1, <2>2, <2>3, JobsKept, AnswerStep
<1> QED
  BY <1>3, <1>4, <1>5 DEF Lose, Reads

-----------------------------------------------------------------------------
(* The step's side: the calls of a step, and what it holds.                *)
LEMMA LocalStep ==
  ASSUME IInv, UNCHANGED <<drafts, jobs, stored, wiz, closed, clean>>,
         NEW gone, NEW new, calls' = (calls \ gone) \cup new, \A x \in gone : x.op \in OfStep,
         \A x \in new : /\ x \in Asks(x.job) /\ CallOK(x) /\ x.op \in OfStep /\ Here(x)
                        /\ x.draft = stored \/ \E y \in calls : y.draft = x.draft,
         step' \in Step(step'.job), step'.k = step.k, wiz.open \/ step' = step,
         Undisturbed => /\ Marked(step'.cands) \subseteq Has(wiz.draft)
                        /\ \A x \in new : /\ x.draft = wiz.draft
                                          /\ x.op = "create" => Marked(x.all) \subseteq Has(x.draft),
         StepBusyOK'
  PROVE  IInv'
<1>1. TypeOK'
  BY DEF IInv, TypeOK
<1>2. BooksOK'
  <2>1. ASSUME NEW x \in calls' PROVE CallOK(x)'
    <3>1. CallOK(x)
      BY DEF IInv, BooksOK
    <3> QED
      BY <3>1 DEF CallOK, Creation, Known, Gone
  <2>2. ASSUME NEW x \in calls', Creation(x) PROVE x \in calls
    BY <2>2 DEF OfStep, Creation
  <2>3. ASSUME NEW x \in calls, Creation(x) PROVE x.id # stored
    BY <2>3 DEF IInv, BooksOK, CallOK
  <2>4. ASSUME NEW x \in calls, NEW y \in calls, Creation(x)
        PROVE  y.draft # x.id /\ (Creation(y) /\ y.id = x.id => y = x)
    BY <2>4 DEF IInv, BooksOK
  <2>5. ASSUME NEW x \in calls', NEW y \in calls', Creation(x)
        PROVE  y.draft # x.id /\ (Creation(y) /\ y.id = x.id => y = x)
    BY <2>2, <2>3, <2>4, <2>5
  <2>6. /\ \A j \in jobs : Known(j.draft)
        /\ \A d \in closed \cup ({stored} \ {0}) : Known(d)
    BY DEF IInv, BooksOK
  <2> QED
    BY <2>1, <2>5, <2>6 DEF BooksOK, Creation, Known
<1>3. WizardOK'
  BY DEF IInv, WizardOK
<1>4. Submits' = Submits /\ Checks' = Checks /\ \A x \in calls : x.op \notin OfStep => x \in calls'
  BY DEF Submits, Checks, Heard, OfStep
<1>5. TurnsOK'
  BY <1>4 DEF IInv, TurnsOK
<1>6. DraftsOK'
  <2>1. \A x \in Creating(calls') : x \in Creating(calls) /\ x.op \notin OfStep
    BY DEF Creating, OfStep
  <2>2. \A x \in calls : Creation(x) => x \in calls' /\ x.op \notin OfStep
    BY <1>4 DEF Creation, OfStep
  <2>3. \A x \in Heard : x.op \notin OfStep => x \in Heard'
    BY <1>4 DEF Heard
  <2> QED
    BY <2>1, <2>2, <2>3 DEF IInv, DraftsOK, Creation
<1>7. RecapOK'
  <2> SUFFICES ASSUME Undisturbed'
      PROVE /\ wiz'.cands \subseteq Has(wiz.draft)'
            /\ Marked(step.cands)' \subseteq Has(wiz.draft)'
            /\ \A x \in Heard' : /\ x.op \in OfStep => x.draft = wiz'.draft
                                 /\ x.op = "create" => Marked(x.all) \subseteq Has(x.draft)'
    BY DEF RecapOK, Marked
  <2>1. Undisturbed /\ Has(wiz.draft)' = Has(wiz.draft)
    BY DEF Undisturbed, Has
  <2>2. ASSUME NEW x \in Heard' PROVE x \in Heard \/ x \in new
    BY DEF Heard
  <2>3. ASSUME NEW x PROVE Has(x.draft)' = Has(x.draft)
    BY DEF Has
  <2>4. /\ wiz.cands \subseteq Has(wiz.draft)
        /\ \A x \in Heard : /\ x.op \in OfStep => x.draft = wiz.draft
                            /\ x.op = "create" => Marked(x.all) \subseteq Has(x.draft)
    BY <2>1 DEF IInv, RecapOK
  <2>5. Marked(step'.cands) \subseteq Has(wiz.draft)
    BY <2>1
  <2>6. \A x \in Heard' : /\ x.op \in OfStep => x.draft = wiz'.draft
                          /\ x.op = "create" => Marked(x.all) \subseteq Has(x.draft)'
    BY <2>1, <2>2, <2>3, <2>4
  <2> QED
    BY <2>1, <2>4, <2>5, <2>6 DEF Marked
<1>8. BusyOK'
  BY <1>4 DEF IInv, BusyOK
<1> QED
  BY <1>1, <1>2, <1>3, <1>5, <1>6, <1>7, <1>8 DEF IInv

(* What a busy step waits for is not gone.                                 *)
LEMMA StepBusyKept ==
  ASSUME StepBusyOK, wiz' = wiz,
         NEW gone, NEW new, calls' = (calls \ gone) \cup new,
         step'.k = step.k, step'.job = step.job, step'.import \in {step.import, "none"},
         step'.submitting => step.submitting,
         \A x \in gone : Here(x) /\ x.k = step.k =>
            /\ x.op = "create" => ~step'.submitting
            /\ x.op \in {"import", "enroll"} => step'.import # "uploading"
            /\ x.op = "poll" /\ x.job = step.job /\ step'.import = "processing" /\ wiz.draft # 0 =>
                 \E y \in new : Here(y) /\ y.op = "poll" /\ y.k = step.k /\ y.job = step.job,
         \A x \in new : x.op \notin {"import", "enroll"}
  PROVE  StepBusyOK'
<1>1. ASSUME NEW x \in Heard, x \notin gone PROVE x \in Heard'
  BY <1>1 DEF Heard
<1>2. ASSUME NEW x \in Heard', x.op \in {"import", "enroll"} PROVE x \in Heard
  BY <1>2 DEF Heard
<1>3. Screen(wiz)' = Screen(wiz)
  OBVIOUS
<1>4. \A x \in Heard : Here(x)
  BY DEF Heard, Here
<1>5. step'.submitting => Screen(wiz) = "cands" /\ \E x \in Heard' : x.op \in {"create"} /\ x.k = step'.k
  BY <1>1, <1>4 DEF StepBusyOK, Awaited
<1>6. step'.import # "none" \/ (\E x \in Heard' : x.op \in {"import", "enroll"} /\ x.k = step'.k) =>
         Screen(wiz) \in {"cands", "voters"}
  BY <1>2 DEF StepBusyOK, Awaited
<1>7. step'.import = "uploading" => \E x \in Heard' : x.op \in {"import", "enroll"} /\ x.k = step'.k
  BY <1>1, <1>4 DEF StepBusyOK, Awaited
<1>8. step'.import = "processing" /\ wiz.draft # 0 =>
         \E x \in Heard' : x.op = "poll" /\ x.k = step'.k /\ x.job = step'.job
  <2> SUFFICES ASSUME step'.import = "processing", wiz.draft # 0
      PROVE  \E x \in Heard' : x.op = "poll" /\ x.k = step'.k /\ x.job = step'.job
    OBVIOUS
  <2>1. PICK x \in Heard : x.op = "poll" /\ x.k = step.k /\ x.job = step.job
    BY DEF StepBusyOK
  <2>2. CASE x \in gone
    <3>1. PICK y \in new : Here(y) /\ y.op = "poll" /\ y.k = step.k /\ y.job = step.job
      BY <1>4, <2>1, <2>2
    <3>2. y \in Heard'
      BY <3>1 DEF Heard, Here
    <3> QED
      BY <3>1, <3>2
  <2>3. CASE x \notin gone
    BY <1>1, <2>1, <2>3
  <2> QED
    BY <2>2, <2>3
<1>9. wiz.submitting => /\ step'.import = "none"
                        /\ ~\E x \in Heard' : x.op \in {"import", "enroll"} /\ x.k = step'.k
  BY <1>2 DEF StepBusyOK, Awaited
<1> QED
  BY <1>3, <1>5, <1>6, <1>7, <1>8, <1>9 DEF StepBusyOK, Awaited

(* The wizard on which something is clicked.                               *)
LEMMA Clicked ==
  ASSUME IInv, NEW s, On(s), s # "none"
  PROVE  /\ wiz.open /\ Screen(wiz) = s /\ ~wiz.submitting
         /\ wiz \in Wizard /\ step \in Step(step.job) /\ wiz.n \in Nat /\ step.k \in Nat
         /\ wiz.draft \in 0..MaxDrafts
         /\ wiz.draft # 0 => wiz.draft = stored /\ wiz.draft \in 1..MaxDrafts /\ Known(wiz.draft)
  BY ScreenIs, StoredKnown DEF IInv, TypeOK, On, Wizard, Step

(* What a step asks about a draft that is known.                           *)
LEMMA NewCallOK ==
  ASSUME IInv, NEW x, x.op \in OfStep, x.n = wiz.n, x.k = step.k, x.draft \in 1..MaxDrafts,
         Known(x.draft), x.made = {}, x.list = {}, x.status = "sent"
  PROVE  CallOK(x)
<1>1. wiz.n \in Nat /\ step.k \in Nat
  BY DEF IInv, TypeOK, Wizard, Step
<1> QED
  BY <1>1 DEF CallOK, Creation, OfStep, OnServer

(* A call of a step's component is about the wizard's draft and the        *)
(* component shown.                                                        *)
LEMMA NewCall ==
  ASSUME IInv, wiz.open, wiz.draft # 0, NEW op \in OfStep,
         NEW c, c = Call(op, wiz.n, step.k, wiz.draft)
  PROVE  /\ c \in Asks(c.job) /\ CallOK(c) /\ Here(c) /\ c.op = op /\ c.n = wiz.n /\ c.k = step.k
         /\ c.draft = stored /\ c.draft = wiz.draft /\ c.draft \in 1..MaxDrafts /\ Known(c.draft)
         /\ c.status = "sent" /\ c.made = {} /\ c.list = {} /\ c.job = 0
<1>1. wiz.n \in Nat /\ step.k \in Nat /\ wiz.draft \in 1..MaxDrafts /\ wiz.draft = stored /\ Known(wiz.draft)
  BY StoredKnown DEF IInv, TypeOK, Wizard, Step
<1>2. op \in Ops
  BY DEF OfStep
<1>3. /\ c \in Asks(c.job) /\ c.op = op /\ c.n = wiz.n /\ c.k = step.k /\ c.draft = wiz.draft
      /\ c.status = "sent" /\ c.made = {} /\ c.list = {} /\ c.job = 0
  BY <1>1, <1>2, CallType
<1>4. CallOK(c) /\ Here(c)
  BY <1>1, <1>3, NewCallOK DEF Here
<1> QED
  BY <1>1, <1>3, <1>4

(* The step changes, and nothing is asked.                                 *)
LEMMA FilledStep ==
  ASSUME IInv, wiz.open, UNCHANGED <<wiz, calls>>, Keep, step' \in Step(step'.job),
         step'.k = step.k, step'.submitting = step.submitting, step'.import = step.import,
         step'.job = step.job, Marked(step'.cands) \subseteq Marked(step.cands)
  PROVE  IInv'
<1>0. PICK none : none = {}
  OBVIOUS
<1>1. calls' = (calls \ none) \cup none
  BY <1>0
<1>2. StepBusyOK'
  BY <1>0, <1>1, StepBusyKept DEF IInv, BusyOK
<1>3. Undisturbed => Marked(step'.cands) \subseteq Has(wiz.draft)
  BY DEF IInv, RecapOK
<1> QED
  BY <1>0, <1>1, <1>2, <1>3, LocalStep DEF Keep

(* Candidates that are typed or read from a file are not marked as being   *)
(* on the server.                                                          *)
LEMMA TypedRows ==
  ASSUME IInv, NEW rows \in SUBSET Typed
  PROVE  /\ addImportedCandidats(rows) \in SUBSET Candidates
         /\ \A x \in addImportedCandidats(rows) : ~x.on
  BY DEF addImportedCandidats, Typed, Candidates

(* Adding, importing in the browser and removing candidates marks none     *)
(* as being on the server.                                                 *)
LEMMA AddStep ==
  ASSUME IInv, \/ \E f \in File : handleImportFile(f) \/ \E x \in f : handleAddCandidat(x)
               \/ continueClientImport \/ \E x \in step.cands : handleRemoveCandidat(x)
  PROVE  IInv'
<1>1. step \in Step(step.job) /\ step.file \in SUBSET Typed
  BY DEF IInv, TypeOK, Step
<1>2. On("cands") /\ UNCHANGED <<wiz, calls>> /\ Keep
  BY DEF handleImportFile, handleAddCandidat, continueClientImport, handleRemoveCandidat,
       WithStep
<1>3. ASSUME NEW more \in SUBSET Candidates, NEW less, NEW file \in SUBSET Typed, \A x \in more : ~x.on,
             \/ step' = [step EXCEPT !.cands = (@ \ less) \cup more]
             \/ step' = [step EXCEPT !.cands = (@ \ less) \cup more, !.file = file]
      PROVE  IInv'
  <2>1. /\ step' \in Step(step'.job) /\ step'.k = step.k /\ step'.submitting = step.submitting
        /\ step'.import = step.import /\ step'.job = step.job
        /\ step'.cands = (step.cands \ less) \cup more
    <3>1. (step.cands \ less) \cup more \in SUBSET Candidates
      BY <1>1 DEF Step
    <3>2. PICK cs \in SUBSET Candidates : cs = (step.cands \ less) \cup more
      BY <3>1
    <3>3. step' = [step EXCEPT !.cands = cs] \/ step' = [step EXCEPT !.cands = cs, !.file = file]
      BY <1>3, <3>2
    <3> QED
      BY <1>1, <3>2, <3>3 DEF Step
  <2>2. Marked(step'.cands) \subseteq Marked(step.cands)
    BY <1>3, <2>1 DEF Marked
  <2> QED
    BY <1>2, <2>1, <2>2, Clicked, FilledStep
<1>4. ASSUME NEW f \in File, handleImportFile(f) PROVE IInv'
  <2>1. f \in SUBSET Typed
    BY Constants
  <2>2. CASE step' = [step EXCEPT !.file = f]
    <3>1. /\ step' \in Step(step'.job) /\ step'.k = step.k /\ step'.submitting = step.submitting
          /\ step'.import = step.import /\ step'.job = step.job /\ step'.cands = step.cands
      BY <1>1, <2>1, <2>2 DEF Step
    <3> QED
      BY <1>2, <3>1, Clicked, FilledStep
  <2>3. CASE step' = [step EXCEPT !.cands = @ \cup addImportedCandidats(f)]
    <3>1. step' = [step EXCEPT !.cands = (@ \ {}) \cup addImportedCandidats(f)]
      BY <2>3
    <3> QED
      BY <1>1, <1>3, <2>1, <3>1, TypedRows
  <2> QED
    BY <1>4, <2>2, <2>3 DEF handleImportFile, WithStep
<1>5. ASSUME NEW f \in File, NEW x \in f, handleAddCandidat(x) PROVE IInv'
  <2>1. {x} \in SUBSET Candidates /\ \A y \in {x} : ~y.on
    <3>1. x \in Typed
      BY Constants
    <3> QED
      BY <3>1 DEF Typed, Candidates
  <2>2. step' = [step EXCEPT !.cands = (@ \ {}) \cup {x}]
    BY <1>5 DEF handleAddCandidat, WithStep
  <2> QED
    BY <1>1, <1>3, <2>1, <2>2
<1>6. CASE continueClientImport
  <2>1. step' = [step EXCEPT !.cands = (@ \ {}) \cup addImportedCandidats(step.file), !.file = {}]
    BY <1>6 DEF continueClientImport, WithStep
  <2>2. {} \in SUBSET Typed
    OBVIOUS
  <2> QED
    BY <1>1, <1>3, <2>1, <2>2, TypedRows
<1>7. ASSUME NEW x \in step.cands, handleRemoveCandidat(x) PROVE IInv'
  <2>1. step' = [step EXCEPT !.cands = (@ \ {x}) \cup {}]
    BY <1>7 DEF handleRemoveCandidat, WithStep
  <2>2. {} \in SUBSET Candidates
    OBVIOUS
  <2> QED
    BY <1>1, <1>3, <2>1, <2>2
<1> QED
  BY <1>4, <1>5, <1>6, <1>7

(* The step asks for c, and may wait for it.                               *)
LEMMA AskStep ==
  ASSUME IInv, wiz.open, wiz' = wiz, Keep, NEW c, c \in Asks(c.job), CallOK(c), Here(c), c.k = step.k,
         c.op \in OfStep, c.draft = stored, c.draft = wiz.draft, c.op = "create" => c.all = step.cands,
         calls' = calls \cup {c}, step' \in Step(step'.job), step'.k = step.k, step'.job = step.job,
         step'.cands = step.cands,
         c.op \in {"import", "enroll"} => Screen(wiz) \in {"cands", "voters"} /\ ~wiz.submitting,
         step'.submitting = step.submitting \/ (c.op = "create" /\ Screen(wiz) = "cands"),
         step'.import = step.import \/ (step'.import = "uploading" /\ c.op \in {"import", "enroll"})
  PROVE  IInv'
<1>1. PICK none, new : none = {} /\ new = {c}
  OBVIOUS
<1>2. calls' = (calls \ none) \cup new
  BY <1>1
<1>3. StepBusyOK'
  <2>1. Heard \subseteq Heard' /\ c \in Heard' /\ \A x \in Heard' : x \in Heard \/ x = c
    BY DEF Heard, Here
  <2>2. Screen(wiz)' = Screen(wiz) /\ StepBusyOK
    BY DEF IInv, BusyOK
  <2>3. step'.submitting => Screen(wiz) = "cands" /\ \E x \in Heard' : x.op \in {"create"} /\ x.k = step'.k
    BY <2>1, <2>2 DEF StepBusyOK, Awaited
  <2>4. step'.import # "none" \/ (\E x \in Heard' : x.op \in {"import", "enroll"} /\ x.k = step'.k) =>
           Screen(wiz) \in {"cands", "voters"}
    BY <2>1, <2>2 DEF StepBusyOK, Awaited
  <2>5. step'.import = "uploading" => \E x \in Heard' : x.op \in {"import", "enroll"} /\ x.k = step'.k
    BY <2>1, <2>2 DEF StepBusyOK, Awaited
  <2>6. step'.import = "processing" /\ wiz.draft # 0 =>
           \E x \in Heard' : x.op = "poll" /\ x.k = step'.k /\ x.job = step'.job
    BY <2>1, <2>2 DEF StepBusyOK
  <2>7. wiz.submitting => /\ step'.import = "none"
                          /\ ~\E x \in Heard' : x.op \in {"import", "enroll"} /\ x.k = step'.k
    BY <2>1, <2>2 DEF StepBusyOK, Awaited
  <2> QED
    BY <2>2, <2>3, <2>4, <2>5, <2>6, <2>7 DEF StepBusyOK, Awaited
<1>4. Undisturbed => Marked(step'.cands) \subseteq Has(wiz.draft)
  BY DEF IInv, RecapOK
<1>5. \A x \in new : /\ x \in Asks(x.job) /\ CallOK(x) /\ x.op \in OfStep /\ Here(x)
                     /\ x.draft = stored /\ x.draft = wiz.draft
                     /\ x.op = "create" => x.all = step'.cands
  BY <1>1
<1> QED
  BY <1>1, <1>2, <1>3, <1>4, <1>5, LocalStep DEF Keep

(* Changing a criterion keeps the invariant.                               *)
LEMMA CriterionStep ==
  ASSUME IInv, ChangeCriteria
  PROVE  IInv'
<1>1. wiz.open /\ wiz.draft # 0 /\ step \in Step(step.job)
  BY Clicked DEF ChangeCriteria
<1>2. PICK c : c = Call("criterion", wiz.n, step.k, wiz.draft)
  OBVIOUS
<1>3. "criterion" \in OfStep
  BY DEF OfStep, Ops
<1>4. /\ c \in Asks(c.job) /\ CallOK(c) /\ Here(c) /\ c.op = "criterion" /\ c.k = step.k
      /\ c.draft = stored /\ c.draft = wiz.draft
  BY <1>1, <1>2, <1>3, NewCall
<1>5. calls' = calls \cup {c} /\ UNCHANGED <<wiz, step>> /\ Keep
  BY <1>2 DEF ChangeCriteria
<1> QED
  BY <1>1, <1>3, <1>4, <1>5, AskStep

(* An import by the server makes the step busy with the call that          *)
(* uploads the file.                                                       *)
LEMMA ImportStep ==
  ASSUME IInv, startServerImport
  PROVE  IInv'
<1>1. /\ wiz.open /\ wiz.draft # 0 /\ step \in Step(step.job) /\ Screen(wiz) = "cands"
      /\ ~wiz.submitting
  BY Clicked DEF startServerImport, On
<1>2. PICK b : b = Call("import", wiz.n, step.k, wiz.draft)
  OBVIOUS
<1>3. "import" \in OfStep
  BY DEF OfStep, Ops
<1>4. /\ b \in Asks(b.job) /\ CallOK(b) /\ Here(b) /\ b.op = "import" /\ b.k = step.k /\ b.n = wiz.n
      /\ b.draft = stored /\ b.draft = wiz.draft /\ b.draft \in 1..MaxDrafts /\ Known(b.draft)
      /\ b.status = "sent" /\ b.made = {} /\ b.list = {}
  BY <1>1, <1>2, <1>3, NewCall
<1>5. PICK c : c = [b EXCEPT !.rows = step.file]
  OBVIOUS
<1>6. step.file \in SUBSET Candidates
  BY <1>1 DEF Step, Typed, Candidates
<1>7. /\ c \in Asks(c.job) /\ c.op = "import" /\ c.k = step.k /\ c.n = wiz.n
      /\ c.draft = stored /\ c.draft = wiz.draft /\ c.draft \in 1..MaxDrafts /\ Known(c.draft)
      /\ c.status = "sent" /\ c.made = {} /\ c.list = {}
  BY <1>4, <1>5, <1>6 DEF Asks
<1>8. CallOK(c) /\ Here(c)
  BY <1>1, <1>3, <1>7, NewCallOK DEF Here
<1>9. calls' = calls \cup {c} /\ wiz' = wiz /\ Keep
  BY <1>2, <1>5 DEF startServerImport
<1>10. /\ step' \in Step(step'.job) /\ step'.k = step.k /\ step'.job = step.job
       /\ step'.cands = step.cands /\ step'.submitting = step.submitting /\ step'.import = "uploading"
  BY <1>1 DEF startServerImport, Step
<1> QED
  BY <1>1, <1>3, <1>7, <1>8, <1>9, <1>10, AskStep

(* The candidates that are not on the server yet are asked for.            *)
LEMMA CreationsStep ==
  ASSUME IInv, handleNext, {c \in step.cands : ~c.on} # {}
  PROVE  IInv'
<1>0. PICK todo : todo = {c \in step.cands : ~c.on}
  OBVIOUS
<1>1. wiz.open /\ wiz.draft # 0 /\ step \in Step(step.job) /\ Screen(wiz) = "cands"
  BY Clicked DEF handleNext
<1>2. PICK b : b = Call("create", wiz.n, step.k, wiz.draft)
  OBVIOUS
<1>3. "create" \in OfStep
  BY DEF OfStep, Ops
<1>4. /\ b \in Asks(b.job) /\ CallOK(b) /\ Here(b) /\ b.op = "create" /\ b.k = step.k /\ b.n = wiz.n
      /\ b.draft = stored /\ b.draft = wiz.draft /\ b.draft \in 1..MaxDrafts /\ Known(b.draft)
      /\ b.status = "sent" /\ b.made = {} /\ b.list = {}
  BY <1>1, <1>2, <1>3, NewCall
<1>5. PICK c : c = [b EXCEPT !.rows = todo, !.all = step.cands]
  OBVIOUS
<1>6. todo \in SUBSET Candidates /\ step.cands \in SUBSET Candidates
  BY <1>0, <1>1 DEF Step
<1>7. /\ c \in Asks(c.job) /\ c.op = "create" /\ c.k = step.k /\ c.n = wiz.n
      /\ c.draft = stored /\ c.draft = wiz.draft /\ c.draft \in 1..MaxDrafts /\ Known(c.draft)
      /\ c.status = "sent" /\ c.made = {} /\ c.list = {} /\ c.all = step.cands
  BY <1>4, <1>5, <1>6 DEF Asks
<1>8. CallOK(c) /\ Here(c)
  BY <1>1, <1>3, <1>7, NewCallOK DEF Here
<1>9. calls' = calls \cup {c} /\ wiz' = wiz /\ Keep /\ step' = [step EXCEPT !.submitting = TRUE]
  BY <1>0, <1>2, <1>5 DEF handleNext
<1>10. /\ step' \in Step(step'.job) /\ step'.k = step.k /\ step'.job = step.job
       /\ step'.cands = step.cands /\ step'.import = step.import
  BY <1>1, <1>9 DEF Step
<1> QED
  BY <1>1, <1>3, <1>7, <1>8, <1>9, <1>10, AskStep

(* Electors that are typed or uploaded keep the invariant.                 *)
LEMMA VotersStep ==
  ASSUME IInv, handleFileUpload \/ handleAddVotant
  PROVE  IInv'
<1>1. /\ wiz.open /\ step \in Step(step.job) /\ Screen(wiz) = "voters"
      /\ wiz' = wiz /\ Keep /\ ~wiz.submitting
  BY Clicked DEF handleFileUpload, handleAddVotant, On
<1>2. CASE wiz.draft = 0
  <2>1. calls' = calls /\ (step' = [step EXCEPT !.preview = TRUE] \/ step' = [step EXCEPT !.manual = TRUE])
    BY <1>2 DEF handleFileUpload, handleAddVotant
  <2>2. /\ step' \in Step(step'.job) /\ step'.k = step.k /\ step'.submitting = step.submitting
        /\ step'.import = step.import /\ step'.job = step.job /\ step'.cands = step.cands
    BY <1>1, <2>1 DEF Step
  <2> QED
    BY <1>1, <2>1, <2>2, FilledStep
<1>3. ASSUME wiz.draft # 0, NEW op \in {"enroll", "elector"},
             calls' = calls \cup {Call(op, wiz.n, step.k, wiz.draft)},
             step' = step \/ (op = "enroll" /\ step' = [step EXCEPT !.import = "uploading"])
      PROVE  IInv'
  <2>1. PICK c : c = Call(op, wiz.n, step.k, wiz.draft)
    OBVIOUS
  <2>2. op \in OfStep
    BY DEF OfStep, Ops
  <2>3. /\ c \in Asks(c.job) /\ CallOK(c) /\ Here(c) /\ c.op = op /\ c.k = step.k
        /\ c.draft = stored /\ c.draft = wiz.draft
    BY <1>1, <1>3, <2>1, <2>2, NewCall
  <2>4. /\ step' \in Step(step'.job) /\ step'.k = step.k /\ step'.submitting = step.submitting
        /\ step'.job = step.job /\ step'.cands = step.cands
        /\ step'.import = step.import \/ (step'.import = "uploading" /\ op = "enroll")
    BY <1>1, <1>3 DEF Step
  <2>5. calls' = calls \cup {c} /\ op # "create"
    BY <1>3, <2>1
  <2> QED
    BY <1>1, <2>2, <2>3, <2>4, <2>5, AskStep
<1> QED
  BY <1>2, <1>3 DEF handleFileUpload, handleAddVotant

(* An answer to a step; it is heard if the step is still shown.            *)
Shown(c) == Here(c) /\ step.k = c.k

(* The component of a step hears an answer: it is enough that its next     *)
(* state marks only what the server has, and waits only for calls in       *)
(* flight.                                                                 *)
LEMMA HeardStep ==
  ASSUME IInv, NEW c \in calls, c.op \in OfStep, NEW s, NEW cs, HearStep(c, s, cs),
         Shown(c) => /\ s \in Step(s.job) /\ s.k = step.k
                     /\ Undisturbed => Marked(s.cands) \subseteq Has(wiz.draft)
                     /\ \A x \in cs : /\ x \in Asks(x.job) /\ CallOK(x) /\ x.op \in OfStep \ {"create"}
                                      /\ x.n = c.n /\ x.k = c.k /\ x.draft = c.draft
                     /\ StepBusyOK'
  PROVE  IInv'
<1>1. PICK gone, new : gone = {c} /\ new = IF Shown(c) THEN cs ELSE {}
  OBVIOUS
<1>2. calls' = (calls \ gone) \cup new
  BY <1>1 DEF HearStep, Shown
<1>3. step' = IF Shown(c) THEN s ELSE step
  BY DEF HearStep, Shown
<1>4. UNCHANGED <<drafts, jobs, stored, wiz, closed, clean>>
  BY DEF HearStep, Server
<1>5. step \in Step(step.job) /\ (Shown(c) => wiz.open)
  BY DEF IInv, TypeOK, Shown, Here
<1>6. StepBusyOK'
  <2>1. CASE ~Shown(c)
    <3>1. step' = step /\ wiz' = wiz /\ new = {} /\ StepBusyOK
      BY <1>1, <1>3, <1>4, <2>1 DEF IInv, BusyOK
    <3>2. \A x \in gone : ~(Here(x) /\ x.k = step.k)
      BY <1>1, <2>1 DEF Shown
    <3> QED
      BY <1>2, <3>1, <3>2, StepBusyKept
  <2> QED
    BY <2>1
<1>7. \A x \in new : /\ x \in Asks(x.job) /\ CallOK(x) /\ x.op \in OfStep /\ Here(x)
                     /\ x.draft = stored \/ \E y \in calls : y.draft = x.draft
  BY <1>1 DEF Shown, Here
<1>8. Undisturbed => /\ Marked(step'.cands) \subseteq Has(wiz.draft)
                     /\ \A x \in new : /\ x.draft = wiz.draft
                                       /\ x.op = "create" => Marked(x.all) \subseteq Has(x.draft)
  <2>1. Shown(c) => c \in Heard
    BY DEF Shown, Here, Heard
  <2> QED
    BY <1>1, <1>3, <2>1 DEF IInv, RecapOK
<1>9. step' \in Step(step'.job) /\ step'.k = step.k /\ (wiz.open \/ step' = step)
  BY <1>3, <1>5
<1>10. \A x \in gone : x.op \in OfStep
  BY <1>1
<1> QED
  BY <1>2, <1>4, <1>6, <1>7, <1>8, <1>9, <1>10, LocalStep

(* The step asks something else of the draft.                              *)
LEMMA AskedAgain ==
  ASSUME IInv, NEW c \in calls, Shown(c), c.op \in OfStep, NEW op \in OfStep,
         NEW x, x = Call(op, c.n, c.k, c.draft)
  PROVE  /\ x \in Asks(x.job) /\ CallOK(x) /\ x.op = op /\ x.n = c.n /\ x.k = c.k /\ x.draft = c.draft
         /\ x.status = "sent" /\ x.made = {} /\ x.list = {}
<1>1. c.n = wiz.n /\ c.k = step.k /\ c.n \in Nat /\ c.k \in Nat /\ c.draft \in 1..MaxDrafts /\ Known(c.draft)
  BY CallFacts DEF Shown, Here, Asks, OfStep
<1>2. op \in Ops
  BY DEF OfStep
<1>3. /\ x \in Asks(x.job) /\ x.op = op /\ x.n = c.n /\ x.k = c.k /\ x.draft = c.draft
      /\ x.status = "sent" /\ x.made = {} /\ x.list = {}
  BY <1>1, <1>2, CallType
<1> QED
  BY <1>1, <1>3, NewCallOK

(* An answer that changes neither what is submitted nor what is imported.  *)
LEMMA NotedStep ==
  ASSUME IInv, NEW c \in calls, c.op \in OfStep \ {"create", "import", "enroll", "poll"},
         NEW s, NEW cs, HearStep(c, s, cs),
         s \in Step(s.job), s.k = step.k, s.submitting = step.submitting, s.import = step.import,
         s.job = step.job,
         Shown(c) => /\ Undisturbed => Marked(s.cands) \subseteq Has(wiz.draft)
                     /\ \A x \in cs : /\ x \in Asks(x.job) /\ CallOK(x) /\ x.op = "criteria"
                                      /\ x.n = c.n /\ x.k = c.k /\ x.draft = c.draft
  PROVE  IInv'
<1>1. Shown(c) => StepBusyOK'
  <2> SUFFICES ASSUME Shown(c) PROVE StepBusyOK'
    OBVIOUS
  <2>1. PICK gone : gone = {c}
    OBVIOUS
  <2>2. calls' = (calls \ gone) \cup cs /\ step' = s /\ wiz' = wiz
    BY <2>1 DEF HearStep, Shown
  <2> QED
    BY <2>1, <2>2, StepBusyKept DEF IInv, BusyOK
<1>2. "criteria" \in OfStep \ {"create"}
  BY DEF OfStep, Ops
<1> QED
  BY <1>1, <1>2, HeardStep

(* What is marked in the step is on the server.                            *)
LEMMA StepMarked == IInv /\ Undisturbed => Marked(step.cands) \subseteq Has(wiz.draft)
  BY DEF IInv, RecapOK

(* The answers about criteria and electors keep the invariant.             *)
LEMMA CriteriaHeard ==
  ASSUME IInv, NEW c \in calls, HearCriteria(c) \/ HearCriterion(c) \/ HearElectors(c) \/ HearElector(c)
  PROVE  IInv'
<1>1. step \in Step(step.job) /\ c \in Asks(c.job) /\ CallOK(c) /\ drafts \in [1..MaxDrafts -> Draft]
  BY CallFacts DEF IInv, TypeOK
<1>2. c.op \in {"criteria", "criterion", "electors", "elector"}
  BY DEF HearCriteria, HearCriterion, HearElectors, HearElector
<1>3. c.op \in OfStep \ {"create", "import", "enroll", "poll"} /\ "criteria" \in OfStep
  BY <1>2 DEF OfStep, Ops
<1>4. c.draft \in 1..MaxDrafts
  BY <1>2, CallFacts
<1>5. PICK s, cs :
         /\ HearStep(c, s, cs)
         /\ \/ s = step
            \/ \E b \in BOOLEAN : s = [step EXCEPT !.count = b]
            \/ \E b \in BOOLEAN : s = [step EXCEPT !.existing = b]
            \/ \E b \in BOOLEAN : s = [step EXCEPT !.manual = b]
         /\ cs \in {{}, {c}, {Call("criteria", c.n, c.k, c.draft)}}
         /\ c \in cs => c.op = "criteria"
  <2>1. CASE HearCriteria(c)
    <3>1. (Exists(c.draft) /\ drafts[c.draft].criteria) \in BOOLEAN
      OBVIOUS
    <3> QED
      BY <2>1, <3>1 DEF HearCriteria
  <2>2. CASE HearCriterion(c)
    <3>1. c \notin {Call("criteria", c.n, c.k, c.draft)}
      BY <2>2 DEF HearCriterion, Call
    <3> QED
      BY <2>2, <3>1 DEF HearCriterion
  <2>3. CASE HearElectors(c)
    <3>1. (IF Exists(c.draft) /\ wiz.draft = c.draft THEN drafts[c.draft].voters ELSE step.existing) \in BOOLEAN
      BY <1>1, <1>4 DEF Draft, Step
    <3> QED
      BY <2>3, <3>1 DEF HearElectors
  <2>4. CASE HearElector(c)
    <3>1. step.manual \in BOOLEAN
      BY <1>1 DEF Step
    <3>2. PICK r : r = [step EXCEPT !.manual = @ \/ c.status = "ok"]
      OBVIOUS
    <3>3. HearStep(c, r, {})
      BY <2>4, <3>2 DEF HearElector
    <3>4. \E b \in BOOLEAN : r = [step EXCEPT !.manual = b]
      <4>1. CASE c.status = "ok"
        BY <3>2, <4>1
      <4>2. CASE c.status # "ok"
        BY <3>1, <3>2, <4>2
      <4> QED
        BY <4>1, <4>2
    <3>5. PICK none : none = {}
      OBVIOUS
    <3>6. c \notin none /\ none \in {{}, {c}, {Call("criteria", c.n, c.k, c.draft)}} /\ HearStep(c, r, none)
      BY <3>3, <3>5
    <3> QED
      BY <3>4, <3>6
  <2> QED
    BY <2>1, <2>2, <2>3, <2>4
<1>6. /\ s \in Step(s.job) /\ s.k = step.k /\ s.submitting = step.submitting /\ s.import = step.import
      /\ s.job = step.job /\ s.cands = step.cands
  BY <1>1, <1>5 DEF Step
<1>7. Shown(c) => \A x \in cs : /\ x \in Asks(x.job) /\ CallOK(x) /\ x.op = "criteria"
                                /\ x.n = c.n /\ x.k = c.k /\ x.draft = c.draft
  <2> SUFFICES ASSUME Shown(c), NEW x \in cs
      PROVE /\ x \in Asks(x.job) /\ CallOK(x) /\ x.op = "criteria"
            /\ x.n = c.n /\ x.k = c.k /\ x.draft = c.draft
    OBVIOUS
  <2>1. CASE x = c
    BY <1>1, <1>5, <2>1
  <2>2. CASE x = Call("criteria", c.n, c.k, c.draft)
    BY <1>3, <2>2, AskedAgain
  <2> QED
    BY <1>5, <2>1, <2>2
<1> QED
  BY <1>3, <1>5, <1>6, <1>7, StepMarked, NotedStep

(* The list of the server is heard: what it marks is on the server.        *)
LEMMA RefreshHeard ==
  ASSUME IInv, NEW c \in calls, HearRefresh(c)
  PROVE  IInv'
<1>1. /\ step \in Step(step.job) /\ c \in Asks(c.job) /\ CallOK(c) /\ c.op = "refresh"
      /\ c.draft \in 1..MaxDrafts /\ step.cands \in SUBSET Candidates /\ c.list \in SUBSET Candidates
  BY CallFacts DEF IInv, TypeOK, HearRefresh, Asks, Step
<1>2. c.op \in OfStep \ {"create", "import", "enroll", "poll"}
  BY <1>1 DEF OfStep, Ops
<1>3. PICK s : s = IF c.status = "ok" THEN [step EXCEPT !.cands = {x \in @ : ~x.on} \cup c.list] ELSE step
  OBVIOUS
<1>4. HearStep(c, s, {})
  BY <1>3 DEF HearRefresh
<1>5. PICK cs \in SUBSET Candidates : cs = {x \in step.cands : ~x.on} \cup c.list
  BY <1>1
<1>6. /\ s \in Step(s.job) /\ s.k = step.k /\ s.submitting = step.submitting /\ s.import = step.import
      /\ s.job = step.job /\ (s.cands = step.cands \/ s.cands = cs)
  BY <1>1, <1>3, <1>5 DEF Step
<1>7. Shown(c) /\ Undisturbed => Marked(s.cands) \subseteq Has(wiz.draft)
  <2> SUFFICES ASSUME Shown(c), Undisturbed, s.cands = cs PROVE Marked(s.cands) \subseteq Has(wiz.draft)
    BY <1>6, StepMarked
  <2>1. c \in Heard
    BY DEF Shown, Here, Heard
  <2>2. c.draft = wiz.draft
    BY <1>2, <2>1 DEF IInv, RecapOK
  <2>3. Marked(cs) \subseteq c.list
    BY <1>5 DEF Marked
  <2>4. c.list \subseteq drafts[c.draft].cands
    BY <1>1 DEF CallOK
  <2> QED
    BY <1>1, <2>2, <2>3, <2>4 DEF Has
<1>8. PICK none : none = {}
  OBVIOUS
<1> QED
  BY <1>2, <1>4, <1>6, <1>7, <1>8, NotedStep

(* Not every candidate was created: what was is known.                     *)
LEMMA CreateRefused ==
  ASSUME IInv, NEW c \in calls, c.op = "create",
         HearStep(c, [step EXCEPT !.submitting = FALSE,
                                  !.cands = (@ \ c.made) \cup OnServer(@ \cap c.made)], {})
  PROVE  IInv'
<1>1. /\ step \in Step(step.job) /\ c \in Asks(c.job) /\ CallOK(c)
      /\ c.draft \in 1..MaxDrafts /\ step.cands \in SUBSET Candidates /\ c.made \in SUBSET Candidates
  BY CallFacts DEF IInv, TypeOK, Asks, Step
<1>2. c.op \in OfStep
  BY DEF OfStep, Ops
<1>3. PICK cs \in SUBSET Candidates : cs = (step.cands \ c.made) \cup OnServer(step.cands \cap c.made)
  <2>1. step.cands \cap c.made \in SUBSET Candidates
    BY <1>1
  <2>2. OnServer(step.cands \cap c.made) \in SUBSET Candidates
    BY <2>1, OnServerType
  <2> QED
    BY <1>1, <2>2
<1>4. PICK s : s = [step EXCEPT !.submitting = FALSE,
                                !.cands = (@ \ c.made) \cup OnServer(@ \cap c.made)]
  OBVIOUS
<1>5. /\ s \in Step(s.job) /\ s.k = step.k /\ ~s.submitting /\ s.import = step.import
      /\ s.job = step.job /\ s.cands = cs
  <2>1. s = [step EXCEPT !.submitting = FALSE, !.cands = cs]
    BY <1>3, <1>4
  <2> QED
    BY <1>1, <2>1 DEF Step
<1>6. PICK none : none = {}
  OBVIOUS
<1>7. HearStep(c, s, none)
  BY <1>4, <1>6
<1>8. Shown(c) /\ Undisturbed => Marked(s.cands) \subseteq Has(wiz.draft)
  <2> SUFFICES ASSUME Shown(c), Undisturbed PROVE Marked(cs) \subseteq Has(wiz.draft)
    BY <1>5
  <2>1. c \in Heard
    BY DEF Shown, Here, Heard
  <2>2. c.draft = wiz.draft
    BY <1>2, <2>1 DEF IInv, RecapOK
  <2>3. Marked(cs) \subseteq Marked(step.cands) \cup OnServer(c.made)
    BY <1>3 DEF Marked, OnServer
  <2>4. OnServer(c.made) \subseteq drafts[c.draft].cands
    BY <1>1 DEF CallOK
  <2> QED
    BY <1>1, <2>2, <2>3, <2>4, StepMarked DEF Has
<1>9. Shown(c) => StepBusyOK'
  <2> SUFFICES ASSUME Shown(c) PROVE StepBusyOK'
    OBVIOUS
  <2>1. PICK gone : gone = {c}
    OBVIOUS
  <2>2. calls' = (calls \ gone) \cup none /\ step' = s /\ wiz' = wiz
    BY <1>6, <1>7, <2>1 DEF HearStep, Shown
  <2>3. /\ step'.k = step.k /\ step'.job = step.job /\ step'.import \in {step.import, "none"}
        /\ ~step'.submitting
    BY <1>5, <2>2
  <2>4. \A x \in gone : x.op = "create"
    BY <2>1
  <2> QED
    BY <1>6, <2>2, <2>3, <2>4, StepBusyKept DEF IInv, BusyOK
<1> QED
  BY <1>2, <1>5, <1>6, <1>7, <1>8, <1>9, HeardStep

(* A file was queued: its import is asked about.                           *)
LEMMA ImportHeard ==
  ASSUME IInv, NEW c \in calls, HearImport(c)
  PROVE  IInv'
<1>1. step \in Step(step.job) /\ c \in Asks(c.job) /\ c.op \in {"import", "enroll"}
  BY CallFacts DEF IInv, TypeOK, HearImport
<1>2. c.op \in OfStep /\ "poll" \in OfStep \ {"create"}
  BY <1>1 DEF OfStep, Ops
<1>3. CASE c.status = "ok"
  <2>1. PICK s, b : s = [step EXCEPT !.import = "processing", !.job = c.job] /\ b = Call("poll", c.n, c.k, c.draft)
    OBVIOUS
  <2>2. PICK x : x = [b EXCEPT !.job = c.job]
    OBVIOUS
  <2>3. PICK cs : cs = IF wiz.draft = 0 THEN {} ELSE {x}
    OBVIOUS
  <2>4. HearStep(c, s, cs)
    BY <1>3, <2>1, <2>2, <2>3 DEF HearImport
  <2>5. /\ s \in Step(s.job) /\ s.k = step.k /\ s.submitting = step.submitting
        /\ s.import = "processing" /\ s.job = c.job /\ s.cands = step.cands
    BY <1>1, <2>1 DEF Step
  <2> SUFFICES ASSUME Shown(c)
      PROVE /\ x \in Asks(x.job) /\ CallOK(x) /\ x.op \in OfStep \ {"create"}
            /\ x.n = c.n /\ x.k = c.k /\ x.draft = c.draft
            /\ StepBusyOK'
    BY <1>2, <2>3, <2>4, <2>5, StepMarked, HeardStep
  <2>6. /\ b \in Asks(b.job) /\ b.op = "poll" /\ b.n = c.n /\ b.k = c.k /\ b.draft = c.draft
        /\ b.status = "sent" /\ b.made = {} /\ b.list = {}
    BY <1>2, <2>1, AskedAgain
  <2>7. /\ x \in Asks(x.job) /\ x.op = "poll" /\ x.n = c.n /\ x.k = c.k /\ x.draft = c.draft
        /\ x.status = "sent" /\ x.made = {} /\ x.list = {} /\ x.job = c.job
    BY <2>2, <2>6 DEF Asks
  <2>8. CallOK(x)
    <3>1. c.draft \in 1..MaxDrafts /\ Known(c.draft) /\ c.n = wiz.n /\ c.k = step.k
      BY <1>1, CallFacts DEF Shown, Here
    <3> QED
      BY <1>2, <2>7, <3>1, NewCallOK
  <2>9. calls' = (calls \ {c}) \cup cs /\ step' = s /\ wiz' = wiz /\ c.k = step.k
    BY <2>3, <2>4 DEF HearStep, Shown
  <2>10. StepBusyOK'
    <3>1. c \in Heard /\ (wiz.draft # 0 => x \in Heard') /\ (\A y \in Heard' : y \in Heard \/ y = x)
          /\ \A y \in Heard : y # c => y \in Heard'
      BY <2>3, <2>7, <2>9 DEF Heard, Here, Shown
    <3>2. Screen(wiz)' = Screen(wiz) /\ StepBusyOK
      BY <2>9 DEF IInv, BusyOK
    <3>3. Screen(wiz) \in {"cands", "voters"}
      BY <1>1, <2>9, <3>1, <3>2 DEF StepBusyOK, Awaited
    <3>4. step'.submitting => Screen(wiz) = "cands" /\ \E y \in Heard' : y.op \in {"create"} /\ y.k = step'.k
      BY <1>1, <2>5, <2>9, <3>1, <3>2 DEF StepBusyOK, Awaited
    <3>5. ~wiz.submitting
      BY <1>1, <2>9, <3>1, <3>2 DEF StepBusyOK, Awaited
    <3>6. wiz.draft # 0 => \E y \in Heard' : y.op = "poll" /\ y.k = step'.k /\ y.job = step'.job
      BY <2>5, <2>7, <2>9, <3>1
    <3> QED
      BY <2>5, <2>9, <3>2, <3>3, <3>4, <3>5, <3>6 DEF StepBusyOK, Awaited
  <2> QED
    BY <1>2, <2>7, <2>8, <2>10
<1>4. CASE c.status # "ok"
  <2>1. PICK s, none : s = [step EXCEPT !.import = "none"] /\ none = {}
    OBVIOUS
  <2>2. HearStep(c, s, none)
    BY <1>4, <2>1 DEF HearImport
  <2>3. /\ s \in Step(s.job) /\ s.k = step.k /\ s.submitting = step.submitting
        /\ s.import = "none" /\ s.job = step.job /\ s.cands = step.cands
    BY <1>1, <2>1 DEF Step
  <2>4. Shown(c) => StepBusyOK'
    <3> SUFFICES ASSUME Shown(c) PROVE StepBusyOK'
      OBVIOUS
    <3>1. PICK gone : gone = {c}
      OBVIOUS
    <3>2. calls' = (calls \ gone) \cup none /\ step' = s /\ wiz' = wiz
      BY <2>1, <2>2, <3>1 DEF HearStep, Shown
    <3> QED
      BY <1>1, <2>1, <2>3, <3>1, <3>2, StepBusyKept DEF IInv, BusyOK
  <2> QED
    BY <1>2, <2>1, <2>2, <2>3, <2>4, StepMarked, HeardStep
<1> QED
  BY <1>3, <1>4

(* The import has ended, or is asked about again.                          *)
LEMMA PollHeard ==
  ASSUME IInv, NEW c \in calls, HearPoll(c)
  PROVE  IInv'
<1>1. step \in Step(step.job) /\ c \in Asks(c.job) /\ c.op = "poll"
  BY CallFacts DEF IInv, TypeOK, HearPoll
<1>2. c.op \in OfStep /\ "poll" \in OfStep \ {"create"} /\ "refresh" \in OfStep \ {"create"}
  BY <1>1 DEF OfStep, Ops
<1>3. PICK j \in jobs :
         IF c.status = "ok" /\ c.yes
         THEN HearStep(c, [step EXCEPT !.import = "none", !.preview = @ \/ (j.op = "enroll" /\ j.some)],
                       IF j.op = "import" /\ j.state = "completed"
                       THEN {Call("refresh", c.n, c.k, c.draft)} ELSE {})
         ELSE HearStep(c, step, IF step.import = "processing" /\ step.job = c.job /\ wiz.draft # 0
                                THEN {[Call("poll", c.n, c.k, c.draft) EXCEPT !.job = c.job]} ELSE {})
  BY DEF HearPoll
<1>4. CASE c.status = "ok" /\ c.yes
  <2>1. PICK s, cs : /\ s = [step EXCEPT !.import = "none", !.preview = @ \/ (j.op = "enroll" /\ j.some)]
                     /\ cs \in {{}, {Call("refresh", c.n, c.k, c.draft)}}
                     /\ HearStep(c, s, cs)
    BY <1>3, <1>4
  <2>2. /\ s \in Step(s.job) /\ s.k = step.k /\ s.submitting = step.submitting
        /\ s.import = "none" /\ s.job = step.job /\ s.cands = step.cands
    BY <1>1, <2>1 DEF Step
  <2>3. ASSUME Shown(c), NEW x \in cs
        PROVE  /\ x \in Asks(x.job) /\ CallOK(x) /\ x.op = "refresh"
               /\ x.n = c.n /\ x.k = c.k /\ x.draft = c.draft
    BY <1>2, <2>1, <2>3, AskedAgain
  <2>4. Shown(c) => StepBusyOK'
    <3> SUFFICES ASSUME Shown(c) PROVE StepBusyOK'
      OBVIOUS
    <3>1. PICK gone : gone = {c}
      OBVIOUS
    <3>2. calls' = (calls \ gone) \cup cs /\ step' = s /\ wiz' = wiz
      BY <2>1, <3>1 DEF HearStep, Shown
    <3>3. \A x \in gone : x.op = "poll"
      BY <1>1, <3>1
    <3>4. \A x \in cs : x.op = "refresh"
      BY <2>3
    <3>5. /\ step'.k = step.k /\ step'.job = step.job /\ step'.import = "none"
          /\ step'.submitting = step.submitting
      BY <2>2, <3>2
    <3> QED
      BY <3>2, <3>3, <3>4, <3>5, StepBusyKept DEF IInv, BusyOK
  <2> QED
    BY <1>2, <2>1, <2>2, <2>3, <2>4, StepMarked, HeardStep
<1>5. CASE ~(c.status = "ok" /\ c.yes)
  <2>0. PICK b : b = Call("poll", c.n, c.k, c.draft)
    OBVIOUS
  <2>1. PICK x : x = [b EXCEPT !.job = c.job]
    OBVIOUS
  <2>2. PICK s, cs : /\ s = step
                     /\ cs = IF step.import = "processing" /\ step.job = c.job /\ wiz.draft # 0 THEN {x} ELSE {}
    OBVIOUS
  <2>3. HearStep(c, s, cs)
    BY <1>3, <1>5, <2>0, <2>1, <2>2
  <2>4. ASSUME Shown(c)
        PROVE  /\ x \in Asks(x.job) /\ CallOK(x) /\ x.op = "poll" /\ x.job = c.job
               /\ x.n = c.n /\ x.k = c.k /\ x.draft = c.draft
    <3>1. /\ b \in Asks(b.job) /\ b.op = "poll" /\ b.n = c.n /\ b.k = c.k /\ b.draft = c.draft
          /\ b.status = "sent" /\ b.made = {} /\ b.list = {}
      BY <1>2, <2>0, <2>4, AskedAgain
    <3>2. /\ x \in Asks(x.job) /\ x.op = "poll" /\ x.n = c.n /\ x.k = c.k /\ x.draft = c.draft
          /\ x.status = "sent" /\ x.made = {} /\ x.list = {} /\ x.job = c.job
      BY <2>1, <3>1 DEF Asks
    <3>3. c.draft \in 1..MaxDrafts /\ Known(c.draft) /\ c.n = wiz.n /\ c.k = step.k
      BY <1>1, <2>4, CallFacts DEF Shown, Here
    <3> QED
      BY <1>2, <3>2, <3>3, NewCallOK
  <2>5. Shown(c) => StepBusyOK'
    <3> SUFFICES ASSUME Shown(c) PROVE StepBusyOK'
      OBVIOUS
    <3>1. PICK gone : gone = {c}
      OBVIOUS
    <3>2. calls' = (calls \ gone) \cup cs /\ step' = step /\ wiz' = wiz
      BY <2>2, <2>3, <3>1 DEF HearStep, Shown
    <3>3. \A y \in gone : y = c /\ y.op = "poll"
      BY <1>1, <3>1
    <3>4. \A y \in cs : y.op = "poll"
      BY <2>2, <2>4
    <3>5. step.import = "processing" /\ c.job = step.job /\ wiz.draft # 0 => x \in cs /\ Here(x) /\ x.k = step.k
      BY <2>2, <2>4 DEF Shown, Here
    <3>6. ASSUME NEW y \in gone, y.job = step.job, step'.import = "processing", wiz.draft # 0
          PROVE  \E z \in cs : Here(z) /\ z.op = "poll" /\ z.k = step.k /\ z.job = step.job
      BY <2>4, <3>2, <3>3, <3>5, <3>6
    <3>7. /\ step'.k = step.k /\ step'.job = step.job /\ step'.import = step.import
          /\ step'.submitting = step.submitting
      BY <3>2
    <3> QED
      BY <3>2, <3>3, <3>4, <3>6, <3>7, StepBusyKept DEF IInv, BusyOK
  <2> QED
    BY <1>1, <1>2, <2>2, <2>3, <2>4, <2>5, StepMarked, HeardStep
<1> QED
  BY <1>4, <1>5

-----------------------------------------------------------------------------
(* Another screen, or the same with something submitted.  What the new     *)
(* component asks, and what is asked of the draft e that the wizard keeps. *)
Mounted(x, w, k) ==
    /\ x \in Asks(x.job) /\ x.op \in {"criteria", "refresh", "electors"} /\ x.n = w.n /\ x.k = k
    /\ x.draft = w.draft /\ w.draft # 0 /\ x.status = "sent" /\ x.list = {}

Fresh(x, e) ==
    /\ x \in Asks(x.job) /\ x.status = "sent" /\ x.list = {} /\ x.op # "create" /\ x.draft \in {0, e}
    /\ x.op \notin {"draft", "quota"} => x.draft # 0

(* What a mounted step asks is asked for the wizard and the component      *)
(* shown.                                                                  *)
LEMMA MountAsks ==
  ASSUME NEW w \in Wizard, NEW k \in Nat, NEW x \in MountCalls(w, k)
  PROVE  Mounted(x, w, k) /\ w.open
<1>1. w.n \in Nat /\ w.draft \in 0..MaxDrafts /\ w.draft # 0
  BY DEF Wizard, MountCalls
<1>2. PICK op \in {"criteria", "refresh", "electors"} : x = Call(op, w.n, k, w.draft) /\ Screen(w) # "none"
  BY <1>1 DEF MountCalls
<1>3. op \in Ops
  BY DEF Ops
<1>4. /\ x \in Asks(x.job) /\ x.op = op /\ x.n = w.n /\ x.k = k /\ x.draft = w.draft
      /\ x.status = "sent" /\ x.list = {}
  <2>1. PICK y : y = Call(op, w.n, k, w.draft)
    OBVIOUS
  <2>2. /\ y \in Asks(y.job) /\ y.op = op /\ y.n = w.n /\ y.k = k /\ y.draft = w.draft
        /\ y.status = "sent" /\ y.list = {}
    BY <1>1, <1>3, <2>1, CallType
  <2>3. x = y
    BY <1>2, <2>1
  <2> QED
    BY <2>2, <2>3
<1> QED
  BY <1>1, <1>2, <1>4, ScreenIs DEF Mounted

(* A new state of the wizard: the component is kept if the screen is the   *)
(* same, else a new one is mounted with the wizard's candidates.           *)
LEMMA BecomesFacts ==
  ASSUME IInv, NEW w \in Wizard, NEW cs, \A x \in cs : x \in Asks(x.job), Becomes(w, cs)
  PROVE  /\ wiz' = w /\ Screen(wiz)' = Screen(w)
         /\ step' \in Step(step'.job) /\ step.k \in Nat /\ step'.k \in Nat /\ step'.k >= step.k
         /\ Screen(w) = Screen(wiz) => step' = step
         /\ Screen(w) # Screen(wiz) => /\ step'.k = step.k + 1 /\ step'.cands = w.cands
                                       /\ ~step'.submitting /\ step'.import = "none"
         /\ \A x \in calls' : x \in Asks(x.job) /\ (x \in cs \/ (Mounted(x, w, step'.k) /\ w.open))
         /\ \A x \in cs : Matters(x, w, step'.k) => x \in calls'
<1>1. step \in Step(step.job) /\ step.k \in Nat
  BY DEF IInv, TypeOK, Step
<1>2. PICK k \in Nat : k = step.k + 1
  BY <1>1
<1>3. wiz' = w /\ Screen(wiz)' = Screen(w)
  BY DEF Becomes
<1>4. CASE Screen(w) = Screen(wiz)
  <2>1. step' = step /\ calls' = {x \in cs : Matters(x, w, step.k)}
    BY <1>4 DEF Becomes
  <2> QED
    BY <1>1, <1>3, <1>4, <2>1
<1>5. CASE Screen(w) # Screen(wiz)
  <2>1. step' = Mount(w, k) /\ calls' = {x \in cs \cup MountCalls(w, k) : Matters(x, w, k)}
    BY <1>2, <1>5 DEF Becomes
  <2>2. /\ step' \in Step(step'.job) /\ step'.k = k /\ step'.cands = w.cands
        /\ ~step'.submitting /\ step'.import = "none"
    BY <2>1, MountType
  <2>3. \A x \in MountCalls(w, k) : Mounted(x, w, k) /\ w.open
    BY MountAsks
  <2>4. \A x \in calls' : x \in cs \/ (Mounted(x, w, k) /\ w.open)
    BY <2>1, <2>3
  <2>5. \A x \in calls' : x \in Asks(x.job)
    BY <2>4 DEF Mounted
  <2> QED
    BY <1>1, <1>2, <1>3, <1>5, <2>1, <2>2, <2>4, <2>5
<1> QED
  BY <1>4, <1>5

(* It has the types.                                                       *)
LEMMA BecomesTyped ==
  ASSUME IInv, NEW w \in Wizard, NEW cs, \A x \in cs : x \in Asks(x.job), Becomes(w, cs),
         UNCHANGED <<drafts, jobs>>, stored' \in 0..MaxDrafts, closed' \in SUBSET (1..MaxDrafts),
         clean' \in BOOLEAN
  PROVE  TypeOK'
<1>1. wiz' \in Wizard /\ step' \in Step(step'.job) /\ \A c \in calls' : c \in Asks(c.job)
  BY BecomesFacts
<1> QED
  BY <1>1 DEF IInv, TypeOK

(* What the books say is still true.                                       *)
LEMMA BecomesBooks ==
  ASSUME IInv, TypeOK', NEW w \in Wizard, NEW cs, \A x \in cs : x \in Asks(x.job), Becomes(w, cs),
         UNCHANGED <<drafts, jobs>>, w.n >= wiz.n, w.draft \in {0, stored'},
         \A x \in cs \ calls : Fresh(x, stored') /\ x.n = w.n /\ x.k = 0,
         \A d \in closed' \cup ({stored'} \ {0}) : Known(d),
         \A x \in calls \cap cs : Creation(x) => x.id # stored' /\ x.id \notin closed'
  PROVE  BooksOK'
<1>1. /\ wiz' = w /\ step.k \in Nat /\ step'.k \in Nat /\ step'.k >= step.k
      /\ \A x \in calls' : x \in Asks(x.job) /\ (x \in cs \/ (Mounted(x, w, step'.k) /\ w.open))
  BY BecomesFacts
<1>2. w.n \in Nat /\ wiz.n \in Nat /\ Grow
  BY GrowSame DEF IInv, TypeOK, Wizard
<1>3. ASSUME NEW x \in calls'
      PROVE  x \in calls \cap cs \/ (Fresh(x, stored') /\ x.n = w.n /\ x.k \in {0, step'.k})
  <2>1. CASE x \in cs
    BY <2>1
  <2>2. CASE Mounted(x, w, step'.k)
    BY <2>2 DEF Mounted, Fresh
  <2> QED
    BY <1>1, <2>1, <2>2
<1>4. ASSUME NEW x \in calls' PROVE CallOK(x)'
  <2>1. CASE x \in calls \cap cs
    <3>1. CallOK(x)
      BY <2>1, CallFacts
    <3> QED
      BY <1>1, <1>2, <2>1, <3>1, CallKept DEF IInv
  <2>2. CASE Fresh(x, stored') /\ x.n = w.n /\ x.k \in {0, step'.k}
    <3>1. x.n <= wiz'.n /\ x.k <= step'.k
      BY <1>1, <1>2, <2>2
    <3>2. x.draft # 0 => Known(x.draft)'
      BY <2>2 DEF Fresh, Known
    <3> QED
      BY <2>2, <3>1, <3>2 DEF CallOK, Fresh, Creation
  <2> QED
    BY <1>3, <2>1, <2>2
<1>5. ASSUME NEW x \in calls', NEW y \in calls', Creation(x)
      PROVE  y.draft # x.id /\ (Creation(y) /\ y.id = x.id => y = x)
  <2>1. x \in calls \cap cs /\ x.id # stored' /\ x.id # 0
    <3>1. x \in calls \cap cs
      BY <1>3, <1>5 DEF Fresh, Creation
    <3>2. CallOK(x)
      BY <3>1, CallFacts
    <3> QED
      BY <1>5, <3>1, <3>2 DEF CallOK
  <2>2. CASE y \in calls
    BY <1>5, <2>1, <2>2 DEF IInv, BooksOK
  <2>3. CASE Fresh(y, stored')
    BY <2>1, <2>3 DEF Fresh, Creation
  <2> QED
    BY <1>3, <2>2, <2>3
<1>6. (\A j \in jobs' : Known(j.draft)') /\ \A d \in closed' \cup ({stored'} \ {0}) : Known(d)'
  BY DEF IInv, BooksOK, Known
<1> QED
  BY <1>4, <1>5, <1>6 DEF BooksOK, Creation

(* The wizard that stays open becomes w: what it hears of afterwards.      *)
Turn(w, cs) ==
    /\ wiz.open /\ w.open /\ w.n = wiz.n /\ w \in Wizard
    /\ Becomes(w, cs) /\ \A x \in cs : x \in Asks(x.job)
    /\ UNCHANGED <<drafts, jobs, closed, clean>>
    /\ stored' = w.draft /\ stored' \notin closed /\ (stored' # 0 => Known(stored'))
    /\ \A x \in cs \ calls : /\ Fresh(x, stored') /\ x.op \in {"check", "draft", "publish"}
                             /\ x.n = w.n /\ x.k = 0
    /\ \A x \in calls \ cs : \/ x.op \in {"check", "quota", "draft", "publish"}
                             \/ x.op = "create" /\ (Screen(wiz) = "cands" => Screen(w) # "cands")
                             \/ x.op = "poll" /\ w.draft = 0
    /\ w.draft # 0 /\ wiz.draft = 0 => wiz.submitting
    /\ w.submitting => wiz.submitting \/ Screen(wiz) \notin {"cands", "voters"}

(* What a turn of the wizard still listens to: the calls it keeps, and     *)
(* those of the step it mounts.                                            *)
LEMMA TurnHeard ==
  ASSUME IInv, NEW w, NEW cs, Turn(w, cs)
  PROVE  /\ \A x \in Heard' : (x \in cs /\ x.n = w.n) \/ Mounted(x, w, step'.k)
         /\ \A x \in cs : /\ x.n = w.n
                          /\ x.op \in {"check", "quota", "draft", "create", "publish"} \/ x.k = step'.k
                          => x \in Heard'
         /\ Submits' = {x \in cs : x.n = w.n /\ x.op \in {"draft", "publish"}}
         /\ Checks' = {x \in cs : x.n = w.n /\ x.op = "check"}
         /\ \A x \in Creating(calls') : x \in Creating(cs)
<1>1. w \in Wizard /\ w.open /\ Becomes(w, cs) /\ \A x \in cs : x \in Asks(x.job)
  BY DEF Turn
<1>2. /\ wiz' = w /\ \A x \in calls' : x \in cs \/ Mounted(x, w, step'.k)
      /\ \A x \in cs : Matters(x, w, step'.k) => x \in calls'
  BY <1>1, BecomesFacts
<1>3. Heard' = {x \in calls' : x.n = w.n}
  BY <1>1, <1>2 DEF Heard
<1>4. \A x \in Heard' : (x \in cs /\ x.n = w.n) \/ Mounted(x, w, step'.k)
  BY <1>2, <1>3
<1>5. ASSUME NEW x \in cs, x.n = w.n,
             x.op \in {"check", "quota", "draft", "create", "publish"} \/ x.k = step'.k
      PROVE  x \in Heard'
  BY <1>1, <1>2, <1>3, <1>5, HeardMatters
<1>6. \A x \in Heard' : x.op \in {"draft", "publish", "check"} => x \in cs /\ x.n = w.n
  BY <1>4 DEF Mounted
<1>7. Submits' = {x \in cs : x.n = w.n /\ x.op \in {"draft", "publish"}}
  BY <1>5, <1>6 DEF Submits
<1>8. Checks' = {x \in cs : x.n = w.n /\ x.op = "check"}
  BY <1>5, <1>6 DEF Checks
<1>9. \A x \in Creating(calls') : x \in Creating(cs)
  BY <1>2 DEF Creating, Mounted
<1> QED
  BY <1>4, <1>5, <1>7, <1>8, <1>9

(* If the wizard's candidates are on the server, so are those of the       *)
(* step it mounts.                                                         *)
LEMMA TurnRecap ==
  ASSUME IInv, NEW w, NEW cs, Turn(w, cs),
         Undisturbed => w.cands \subseteq Has(w.draft) /\ (w.draft = wiz.draft \/ wiz.draft = 0)
  PROVE  RecapOK'
<1> SUFFICES ASSUME Undisturbed'
    PROVE /\ wiz'.cands \subseteq Has(wiz.draft)'
          /\ Marked(step.cands)' \subseteq Has(wiz.draft)'
          /\ \A x \in Heard' : /\ x.op \in OfStep => x.draft = wiz'.draft
                               /\ x.op = "create" => Marked(x.all) \subseteq Has(x.draft)'
  BY DEF RecapOK, Marked
<1>1. Undisturbed /\ drafts' = drafts
  BY DEF Undisturbed, Turn
<1>2. w \in Wizard /\ Becomes(w, cs) /\ \A x \in cs : x \in Asks(x.job)
  BY DEF Turn
<1>3. /\ wiz' = w
      /\ Screen(w) = Screen(wiz) => step' = step
      /\ Screen(w) # Screen(wiz) => step'.cands = w.cands
  BY <1>2, BecomesFacts
<1>4. \A e : Has(e)' = Has(e)
  BY <1>1 DEF Has
<1>5. Has(wiz.draft) \subseteq Has(w.draft)
  BY <1>1 DEF Has
<1>6. Marked(step'.cands) \subseteq Has(w.draft)
  BY <1>1, <1>3, <1>5 DEF IInv, RecapOK, Marked
<1>7. ASSUME NEW x \in Heard'
      PROVE  /\ x.op \in OfStep => x.draft = w.draft
             /\ x.op = "create" => Marked(x.all) \subseteq Has(x.draft)
  <2>1. CASE x \in cs /\ x.n = w.n
    <3>1. CASE x \in calls
      <4>1. x \in Heard
        BY <2>1, <3>1 DEF Heard, Turn
      <4>2. /\ x.op \in OfStep => x.draft = wiz.draft
            /\ x.op = "create" => Marked(x.all) \subseteq Has(x.draft)
        BY <1>1, <4>1 DEF IInv, RecapOK
      <4>3. x.op \in OfStep => x.draft # 0
        BY <3>1, CallFacts DEF OfStep, Ops
      <4> QED
        BY <1>1, <4>2, <4>3
    <3>2. CASE x \notin calls
      BY <2>1, <3>2 DEF Turn, OfStep
    <3> QED
      BY <3>1, <3>2
  <2>2. CASE Mounted(x, w, step'.k)
    BY <2>2 DEF Mounted
  <2> QED
    BY <2>1, <2>2, TurnHeard
<1>8. w.cands \subseteq Has(w.draft)
  BY <1>1
<1> QED
  BY <1>3, <1>4, <1>6, <1>7, <1>8 DEF Marked

(* A step that is kept still waits for its calls; a new one waits for      *)
(* none.                                                                   *)
LEMMA TurnStepBusy ==
  ASSUME IInv, NEW w, NEW cs, Turn(w, cs)
  PROVE  StepBusyOK'
<1>1. w \in Wizard /\ Becomes(w, cs) /\ \A x \in cs : x \in Asks(x.job)
  BY DEF Turn
<1>2. /\ wiz' = w /\ Screen(wiz)' = Screen(w) /\ step.k \in Nat
      /\ Screen(w) = Screen(wiz) => step' = step
      /\ Screen(w) # Screen(wiz) => step'.k = step.k + 1 /\ ~step'.submitting /\ step'.import = "none"
  BY <1>1, BecomesFacts
<1>3. ASSUME NEW x \in Heard', x.op \in {"import", "enroll"} PROVE x \in Heard
  <2>1. x \in cs /\ x.n = w.n
    BY <1>3, TurnHeard DEF Mounted
  <2> QED
    BY <1>3, <2>1 DEF Heard, Turn
<1>4. CASE Screen(w) = Screen(wiz)
  <2>1. ASSUME NEW x \in Heard, x.op \in {"create", "import", "enroll", "poll"}, x.k = step.k,
               x.op = "create" => Screen(wiz) = "cands", x.op = "poll" => w.draft # 0
        PROVE  x \in Heard'
    <3>1. x \in calls /\ x.n = w.n
      BY DEF Heard, Turn
    <3>2. x \in cs
      BY <1>4, <2>1, <3>1 DEF Turn
    <3> QED
      BY <1>2, <1>4, <2>1, <3>1, <3>2, TurnHeard
  <2>2. StepBusyOK
    BY DEF IInv, BusyOK
  <2>3. step.submitting => Screen(wiz) = "cands" /\ \E x \in Heard' : x.op \in {"create"} /\ x.k = step.k
    BY <2>1, <2>2 DEF StepBusyOK, Awaited
  <2>4. step.import # "none" \/ (\E x \in Heard' : x.op \in {"import", "enroll"} /\ x.k = step.k) =>
           Screen(wiz) \in {"cands", "voters"}
    BY <1>3, <2>2 DEF StepBusyOK, Awaited
  <2>5. step.import = "uploading" => \E x \in Heard' : x.op \in {"import", "enroll"} /\ x.k = step.k
    BY <2>1, <2>2 DEF StepBusyOK, Awaited
  <2>6. step.import = "processing" /\ w.draft # 0 =>
           \E x \in Heard' : x.op = "poll" /\ x.k = step.k /\ x.job = step.job
    <3> SUFFICES ASSUME step.import = "processing", w.draft # 0
        PROVE  \E x \in Heard' : x.op = "poll" /\ x.k = step.k /\ x.job = step.job
      OBVIOUS
    <3>1. ~wiz.submitting
      BY <2>2 DEF StepBusyOK
    <3>2. wiz.draft # 0
      BY <3>1 DEF Turn
    <3> QED
      BY <2>1, <2>2, <3>2 DEF StepBusyOK
  <2>7. w.submitting => /\ step.import = "none"
                        /\ ~\E x \in Heard' : x.op \in {"import", "enroll"} /\ x.k = step.k
    BY <1>3, <2>2 DEF StepBusyOK, Awaited, Turn
  <2> QED
    BY <1>2, <1>4, <2>3, <2>4, <2>5, <2>6, <2>7 DEF StepBusyOK, Awaited
<1>5. CASE Screen(w) # Screen(wiz)
  <2>1. ASSUME NEW x \in Heard', x.op \in {"import", "enroll"}, x.k = step.k + 1 PROVE FALSE
    <3>1. x \in calls
      BY <1>3, <2>1 DEF Heard
    <3>2. x.k <= step.k /\ x.k \in Nat
      BY <3>1, CallFacts DEF CallOK, Asks
    <3> QED
      BY <1>2, <2>1, <3>2
  <2> QED
    BY <1>2, <1>5, <2>1 DEF StepBusyOK, Awaited
<1> QED
  BY <1>4, <1>5

(* What becomes of the drafts and of what is submitted is for each click   *)
(* and answer to show.                                                     *)
LEMMA TurnStep ==
  ASSUME IInv, NEW w, NEW cs, Turn(w, cs),
         Undisturbed => w.cands \subseteq Has(w.draft) /\ (w.draft = wiz.draft \/ wiz.draft = 0),
         \A x \in calls \cap cs : Creation(x) => x.id # stored',
         clean => \A x \in calls : Creation(x) => x \in cs \/ x.id = stored',
         stored' = stored \/ stored = 0 \/ Gone(stored),
         TurnsOK', w.submitting => Submits' # {}
  PROVE  IInv'
<1>1. w \in Wizard /\ Becomes(w, cs) /\ w.open /\ w.n = wiz.n /\ \A x \in cs : x \in Asks(x.job)
  BY DEF Turn
<1>2. wiz' = w
  BY <1>1, BecomesFacts
<1>3. TypeOK'
  <2>1. stored' \in 0..MaxDrafts /\ closed' \in SUBSET (1..MaxDrafts) /\ clean' \in BOOLEAN
        /\ UNCHANGED <<drafts, jobs>>
    BY <1>1 DEF IInv, TypeOK, Turn, Wizard
  <2> QED
    BY <1>1, <2>1, BecomesTyped
<1>4. BooksOK'
  <2>1. w.n >= wiz.n
    BY <1>1 DEF Wizard
  <2>2. \A x \in calls \cap cs : Creation(x) => x.id # stored' /\ x.id \notin closed'
    BY CallFacts DEF CallOK, Turn
  <2>3. \A d \in closed' \cup ({stored'} \ {0}) : Known(d)
    BY DEF IInv, BooksOK, Turn
  <2>4. \A x \in cs \ calls : Fresh(x, stored') /\ x.n = w.n /\ x.k = 0
    BY DEF Turn
  <2>5. w.draft \in {0, stored'} /\ UNCHANGED <<drafts, jobs>>
    BY DEF Turn
  <2> QED
    BY <1>1, <1>3, <2>1, <2>2, <2>3, <2>4, <2>5, BecomesBooks
<1>5. WizardOK'
  BY <1>1, <1>2 DEF WizardOK, Turn
<1>6. DraftsOK'
  <2> SUFFICES ASSUME clean
      PROVE /\ \A x \in Creating(calls') : x \in Heard' /\ x.status \in {"sent", "ok"}
            /\ \A e \in 1..MaxDrafts \ closed : drafts[e].status = "draft" =>
                   e = stored' \/ \E x \in calls' : Creation(x) /\ x.id = e
    BY DEF DraftsOK, Turn, Creation, Creating
  <2>1. \A x \in Creating(calls) : x \in Heard /\ x.status \in {"sent", "ok"}
    BY DEF IInv, DraftsOK
  <2>2. ASSUME NEW x \in Creating(calls') PROVE x \in Heard' /\ x.status \in {"sent", "ok"}
    <3>1. x \in cs /\ x.op = "draft" /\ x \in Creating(cs)
      BY TurnHeard DEF Creating
    <3>2. CASE x \in calls
      <4>1. x \in Heard /\ x.status \in {"sent", "ok"}
        BY <2>1, <3>1, <3>2 DEF Creating
      <4>2. x.n = w.n
        BY <1>1, <4>1 DEF Heard
      <4> QED
        BY <3>1, <4>1, <4>2, TurnHeard
    <3>3. CASE x \notin calls
      <4>1. x.status = "sent" /\ x.n = w.n
        BY <3>1, <3>3 DEF Turn, Fresh
      <4> QED
        BY <3>1, <4>1, TurnHeard
    <3> QED
      BY <3>2, <3>3
  <2>3. ASSUME NEW e \in 1..MaxDrafts \ closed, drafts[e].status = "draft", e # stored'
        PROVE  \E x \in calls' : Creation(x) /\ x.id = e
    <3>1. e # stored
      BY <2>3 DEF Gone
    <3>2. PICK x \in calls : Creation(x) /\ x.id = e
      BY <2>3, <3>1 DEF IInv, DraftsOK
    <3>3. x \in cs
      BY <2>3, <3>2
    <3>4. x \in Heard
      BY <2>1, <3>2 DEF Creating, Creation
    <3>5. x.n = w.n /\ x.op = "draft"
      BY <1>1, <3>2, <3>4 DEF Heard, Creation
    <3>6. x \in Heard'
      BY <3>3, <3>5, TurnHeard
    <3> QED
      BY <3>2, <3>6 DEF Heard
  <2> QED
    BY <2>2, <2>3
<1>7. BusyOK'
  BY <1>2, TurnStepBusy DEF BusyOK
<1>8. RecapOK'
  BY TurnRecap
<1> QED
  BY <1>3, <1>4, <1>5, <1>6, <1>7, <1>8 DEF IInv

(* Another screen, of the same draft; or an answer that changes none.      *)
LEMMA MoveStep ==
  ASSUME IInv, wiz.open, NEW w \in Wizard, w.open, w.n = wiz.n, w.draft = wiz.draft,
         w.submitting = wiz.submitting, NEW gone, NEW cs, cs = calls \ gone, Becomes(w, cs),
         UNCHANGED <<drafts, jobs, stored, closed, clean>>,
         \A x \in gone : \/ x.op \in {"check", "quota"}
                         \/ x.op = "create" /\ (Screen(wiz) = "cands" => Screen(w) # "cands"),
         Undisturbed => w.cands \subseteq Has(w.draft)
  PROVE  IInv'
<1>1. stored = wiz.draft /\ stored \notin closed /\ (stored # 0 => Known(stored))
  BY StoredKnown DEF IInv, WizardOK
<1>2. \A x \in cs : x \in Asks(x.job)
  BY CallFacts
<1>3. Turn(w, cs)
  BY <1>1, <1>2 DEF Turn
<1>4. Submits' = Submits /\ Checks' \subseteq Checks
  BY <1>3, TurnHeard DEF Submits, Checks, Heard
<1>5. TurnsOK'
  <2>1. wiz' = w
    BY <1>2, BecomesFacts
  <2> QED
    BY <1>4, <2>1 DEF IInv, TurnsOK
<1>6. w.submitting => Submits' # {}
  BY <1>4 DEF IInv, BusyOK
<1>7. \A x \in calls \cap cs : Creation(x) => x.id # stored'
  BY CallFacts DEF CallOK
<1>8. \A x \in calls : Creation(x) => x \in cs
  BY DEF Creation
<1> QED
  BY <1>3, <1>5, <1>6, <1>7, <1>8, TurnStep

(* The steps that are gone to by a click.                                  *)
LEMMA AtType ==
  ASSUME NEW w \in Wizard, NEW at \in Int
  PROVE  LET v == [w EXCEPT !.at = at] IN
         /\ v \in Wizard /\ v.open = w.open /\ v.n = w.n /\ v.draft = w.draft
         /\ v.submitting = w.submitting /\ v.cands = w.cands
  BY DEF Wizard

(* Going to another step keeps the invariant.                              *)
LEMMA GoStep ==
  ASSUME IInv, wiz.open, NEW at \in Int, Becomes([wiz EXCEPT !.at = at], calls),
         UNCHANGED <<drafts, jobs, stored, closed, clean>>
  PROVE  IInv'
<1>1. wiz \in Wizard
  BY DEF IInv, TypeOK
<1>2. PICK w : w = [wiz EXCEPT !.at = at]
  OBVIOUS
<1>3. /\ w \in Wizard /\ w.open /\ w.n = wiz.n /\ w.draft = wiz.draft
      /\ w.submitting = wiz.submitting /\ w.cands = wiz.cands
  BY <1>1, <1>2, AtType
<1>4. PICK gone, cs : gone = {} /\ cs = calls \ gone
  OBVIOUS
<1>5. Becomes(w, cs)
  <2>1. cs = calls
    BY <1>4
  <2> QED
    BY <1>2, <2>1
<1>6. Undisturbed => w.cands \subseteq Has(w.draft)
  BY <1>3 DEF IInv, RecapOK
<1>7. \A x \in gone : \/ x.op \in {"check", "quota"}
                      \/ x.op = "create" /\ (Screen(wiz) = "cands" => Screen(w) # "cands")
  BY <1>4
<1> QED
  BY <1>3, <1>4, <1>5, <1>6, <1>7, MoveStep

(* So do the buttons and the steps clicked, before there is a draft.       *)
LEMMA MovesStep ==
  ASSUME IInv,
         \/ \E at \in 1..5 : handleStepClick(at)
         \/ handlePrevious \/ handleCriteriaNext
         \/ (handleSaveDraft \/ handlePublish) /\ wiz.draft = 0
  PROVE  IInv'
<1>1. wiz \in Wizard /\ wiz.at \in Int /\ wiz.at - 1 \in Int /\ wiz.at + 1 \in Int
  BY DEF IInv, TypeOK, Wizard
<1>2. CASE \E at \in 1..5 : handleStepClick(at)
  <2>1. PICK at \in 1..5 : handleStepClick(at)
    BY <1>2
  <2>2. wiz.open
    BY <1>1, <2>1, ScreenIs DEF handleStepClick
  <2> QED
    BY <2>1, <2>2, GoStep DEF handleStepClick
<1>3. CASE handlePrevious
  <2>1. wiz.open
    BY <1>3, Clicked DEF handlePrevious
  <2>2. PICK at \in Int : at = wiz.at - 1
    BY <1>1
  <2>3. Becomes([wiz EXCEPT !.at = at], calls)
    BY <1>3, <2>2 DEF handlePrevious
  <2> QED
    BY <1>3, <2>1, <2>3, GoStep DEF handlePrevious
<1>4. CASE handleCriteriaNext
  <2>1. wiz.open
    BY <1>4, Clicked DEF handleCriteriaNext
  <2>2. PICK at \in Int : at = wiz.at + 1
    BY <1>1
  <2>3. Becomes([wiz EXCEPT !.at = at], calls)
    BY <1>4, <2>2 DEF handleCriteriaNext
  <2> QED
    BY <1>4, <2>1, <2>3, GoStep DEF handleCriteriaNext, Keep
<1>5. CASE (handleSaveDraft \/ handlePublish) /\ wiz.draft = 0
  <2>1. wiz.open
    BY <1>5, Clicked DEF handleSaveDraft, handlePublish
  <2>2. Becomes([wiz EXCEPT !.at = 1], calls)
    BY <1>5 DEF handleSaveDraft, handlePublish
  <2>3. UNCHANGED <<drafts, jobs, stored, closed, clean>>
    BY <1>5 DEF handleSaveDraft, handlePublish
  <2> QED
    BY <2>1, <2>2, <2>3, GoStep
<1> QED
  BY <1>2, <1>3, <1>4, <1>5

(* The step of the voters is left.                                         *)
LEMMA VotersNextStep ==
  ASSUME IInv, NEW grouped \in BOOLEAN, handleVotersNext(grouped)
  PROVE  IInv'
<1>1. wiz.open /\ wiz \in Wizard /\ step \in Step(step.job)
  BY Clicked DEF handleVotersNext
<1>2. PICK given : given = IF grouped THEN step.preview ELSE step.manual
  OBVIOUS
<1>3. PICK typed : typed = (~grouped /\ step.manual)
  OBVIOUS
<1>4. given \in BOOLEAN /\ typed \in BOOLEAN
  BY <1>1, <1>2, <1>3 DEF Step
<1>5. PICK w : w = [wiz EXCEPT !.at = @ + 1, !.preview = given, !.manual = typed]
  OBVIOUS
<1>6. /\ w \in Wizard /\ w.open /\ w.n = wiz.n /\ w.draft = wiz.draft
      /\ w.submitting = wiz.submitting /\ w.cands = wiz.cands
  <2>1. PICK at \in Int : at = wiz.at + 1
    BY <1>1 DEF Wizard
  <2>2. w = [wiz EXCEPT !.at = at, !.preview = given, !.manual = typed]
    BY <1>5, <2>1
  <2> QED
    BY <1>1, <1>4, <2>1, <2>2 DEF Wizard
<1>7. PICK gone, cs : gone = {} /\ cs = calls \ gone
  OBVIOUS
<1>8. Becomes(w, cs)
  <2>1. cs = calls
    BY <1>7
  <2>2. Becomes(w, calls)
    BY <1>2, <1>3, <1>5 DEF handleVotersNext
  <2> QED
    BY <2>1, <2>2
<1>9. UNCHANGED <<drafts, jobs, stored, closed, clean>>
  BY DEF handleVotersNext, Keep
<1>10. Undisturbed => w.cands \subseteq Has(w.draft)
  BY <1>6 DEF IInv, RecapOK
<1>11. \A x \in gone : \/ x.op \in {"check", "quota"}
                       \/ x.op = "create" /\ (Screen(wiz) = "cands" => Screen(w) # "cands")
  BY <1>7
<1> QED
  BY <1>1, <1>6, <1>7, <1>8, <1>9, <1>10, <1>11, MoveStep

(* The step of the candidates is left, when all are on the server.         *)
LEMMA NextStep2 ==
  ASSUME IInv, handleNext, \A c \in step.cands : c.on
  PROVE  IInv'
<1>1. wiz.open /\ wiz \in Wizard /\ step \in Step(step.job)
  BY Clicked DEF handleNext
<1>2. PICK w : w = [wiz EXCEPT !.cands = step.cands, !.at = @ + 1]
  OBVIOUS
<1>3. /\ w \in Wizard /\ w.open /\ w.n = wiz.n /\ w.draft = wiz.draft
      /\ w.submitting = wiz.submitting /\ w.cands = step.cands
  <2>1. PICK at \in Int : at = wiz.at + 1
    BY <1>1 DEF Wizard
  <2>2. PICK cs \in SUBSET Candidates : cs = step.cands
    BY <1>1 DEF Step
  <2>3. w = [wiz EXCEPT !.cands = cs, !.at = at]
    BY <1>2, <2>1, <2>2
  <2> QED
    BY <1>1, <2>1, <2>2, <2>3 DEF Wizard
<1>4. Becomes(w, calls)
  BY <1>2 DEF handleNext
<1>5. PICK gone, cs : gone = {} /\ cs = calls \ gone
  OBVIOUS
<1>6. Becomes(w, cs)
  <2>1. cs = calls
    BY <1>5
  <2> QED
    BY <1>4, <2>1
<1>7. UNCHANGED <<drafts, jobs, stored, closed, clean>>
  BY DEF handleNext, Keep
<1>8. Undisturbed => w.cands \subseteq Has(w.draft)
  BY <1>3, StepMarked DEF Marked
<1>9. \A x \in gone : \/ x.op \in {"check", "quota"}
                      \/ x.op = "create" /\ (Screen(wiz) = "cands" => Screen(w) # "cands")
  BY <1>5
<1> QED
  BY <1>1, <1>3, <1>5, <1>6, <1>7, <1>8, <1>9, MoveStep

(* An answer that nobody waits for.                                        *)
LEMMA UnheardStep ==
  ASSUME IInv, NEW c \in calls, ~Here(c), c.op \in {"create", "publish"},
         NEW cs, cs = calls \ {c}, Becomes(wiz, cs),
         UNCHANGED <<drafts, jobs, stored, closed, clean>>
  PROVE  IInv'
<1>1. wiz' = wiz /\ step' = step /\ calls' = {x \in cs : Matters(x, wiz, step.k)}
  BY DEF Becomes
<1>2. Heard' \subseteq Heard
  BY <1>1 DEF Heard
<1>3. ASSUME NEW x \in Heard,
             x.op \in {"check", "quota", "draft", "create", "publish"} \/ x.k = step.k
      PROVE  x \in Heard'
  <2>1. wiz.open /\ x.n = wiz.n /\ x \in calls /\ Here(x)
    BY DEF Heard, Here
  <2>2. Matters(x, wiz, step.k)
    BY <1>3, <2>1, HeardMatters
  <2> QED
    BY <1>1, <2>1, <2>2 DEF Heard
<1>4. TypeOK' /\ WizardOK'
  BY <1>1 DEF IInv, TypeOK, WizardOK
<1>5. BooksOK'
  <2>1. ASSUME NEW x \in calls' PROVE CallOK(x)'
    <3>1. CallOK(x)
      BY <1>1, CallFacts
    <3> QED
      BY <1>1, <3>1 DEF CallOK, Known, Gone, Creation
  <2> QED
    BY <1>1, <2>1 DEF IInv, BooksOK, Known, Creation
<1>6. Submits' = Submits /\ Checks' = Checks
  BY <1>2, <1>3 DEF Submits, Checks
<1>7. TurnsOK'
  BY <1>1, <1>6 DEF IInv, TurnsOK
<1>8. DraftsOK'
  <2>1. clean => \A x \in Creating(calls) : x \in Heard'
    BY <1>3 DEF IInv, DraftsOK, Creating
  <2>2. \A x \in Heard' : x \in calls'
    BY DEF Heard
  <2> QED
    BY <1>1, <2>1, <2>2 DEF IInv, DraftsOK, Creating, Creation
<1>9. RecapOK'
  BY <1>1, <1>2 DEF IInv, RecapOK, Undisturbed, Marked, Has
<1>10. StepBusyOK'
  <2>1. StepBusyOK /\ Screen(wiz)' = Screen(wiz)
    BY <1>1 DEF IInv, BusyOK
  <2>2. step.submitting => \E x \in Heard' : x.op \in {"create"} /\ x.k = step'.k
    BY <1>1, <1>3, <2>1 DEF StepBusyOK, Awaited
  <2>3. step.import = "uploading" => \E x \in Heard' : x.op \in {"import", "enroll"} /\ x.k = step'.k
    BY <1>1, <1>3, <2>1 DEF StepBusyOK, Awaited
  <2>4. step.import = "processing" /\ wiz.draft # 0 =>
           \E x \in Heard' : x.op = "poll" /\ x.k = step'.k /\ x.job = step'.job
    BY <1>1, <1>3, <2>1 DEF StepBusyOK
  <2> QED
    BY <1>1, <1>2, <2>1, <2>2, <2>3, <2>4 DEF StepBusyOK, Awaited
<1>11. BusyOK'
  BY <1>1, <1>6, <1>10 DEF IInv, BusyOK
<1> QED
  BY <1>4, <1>5, <1>7, <1>8, <1>9, <1>11 DEF IInv

(* All the candidates were created: on to the next step.                   *)
LEMMA CreateHeard ==
  ASSUME IInv, NEW c \in calls, HearCreate(c), {x \in c.all : ~x.on} \subseteq c.made
  PROVE  IInv'
<1>1. /\ c.op = "create" /\ UNCHANGED <<drafts, jobs, stored, closed, clean>>
      /\ Hear(c, IF Here(c) THEN [wiz EXCEPT !.cands = OnServer(c.all), !.at = @ + 1] ELSE wiz, {})
  BY DEF HearCreate, Hear, Server
<1>2. PICK gone, cs : gone = {c} /\ cs = calls \ gone
  OBVIOUS
<1>3. (calls \ {c}) \cup {} = cs
  BY <1>2
<1>4. CASE ~Here(c)
  <2>1. Becomes(wiz, cs)
    BY <1>1, <1>3, <1>4 DEF Hear
  <2> QED
    BY <1>1, <1>2, <1>4, <2>1, UnheardStep
<1>5. CASE Here(c)
  <2>1. wiz \in Wizard /\ c \in Asks(c.job) /\ wiz.open /\ c \in Heard /\ CallOK(c) /\ c.draft \in 1..MaxDrafts
    BY <1>1, <1>5, CallFacts DEF Here, Heard, IInv, TypeOK
  <2>2. PICK all \in SUBSET Candidates : all = OnServer(c.all)
    <3>1. c.all \in SUBSET Candidates
      BY <2>1 DEF Asks
    <3> QED
      BY <3>1, OnServerType
  <2>3. PICK at \in Int : at = wiz.at + 1
    BY <2>1 DEF Wizard
  <2>4. PICK w : w = [wiz EXCEPT !.cands = all, !.at = at]
    OBVIOUS
  <2>5. /\ w \in Wizard /\ w.open /\ w.n = wiz.n /\ w.draft = wiz.draft /\ w.submitting = wiz.submitting
        /\ w.cands = all /\ w.at = wiz.at + 1 /\ w.blocked = wiz.blocked /\ w.general = wiz.general
    BY <2>1, <2>3, <2>4 DEF Wizard
  <2>6. Becomes(w, cs)
    BY <1>1, <1>3, <1>5, <2>2, <2>3, <2>4 DEF Hear
  <2>7. Screen(wiz) = "cands" => Screen(w) # "cands"
    BY <2>1, <2>5, NextScreen
  <2>8. Undisturbed => w.cands \subseteq Has(w.draft)
    <3> SUFFICES ASSUME Undisturbed PROVE all \subseteq Has(wiz.draft)
      BY <2>5
    <3>1. "create" \in OfStep
      BY DEF OfStep, Ops
    <3>2. c.draft = wiz.draft /\ Marked(c.all) \subseteq Has(c.draft)
      BY <1>1, <2>1, <3>1 DEF IInv, RecapOK
    <3>3. OnServer(c.made) \subseteq Has(c.draft)
      BY <1>1, <2>1 DEF CallOK, Has
    <3>4. ASSUME NEW x \in c.all PROVE Candidate(x.email, x.cat, TRUE) \in Marked(c.all) \cup OnServer(c.made)
      <4>1. CASE x.on
        <5>1. x \in Candidates
          BY <2>1 DEF Asks
        <5>2. x = Candidate(x.email, x.cat, TRUE)
          BY <4>1, <5>1 DEF Candidates, Candidate
        <5> QED
          BY <4>1, <5>2 DEF Marked
      <4>2. CASE ~x.on
        BY <4>2 DEF OnServer
      <4> QED
        BY <4>1, <4>2
    <3> QED
      BY <2>2, <3>2, <3>3, <3>4 DEF OnServer
  <2>9. \A x \in gone : \/ x.op \in {"check", "quota"}
                        \/ x.op = "create" /\ (Screen(wiz) = "cands" => Screen(w) # "cands")
    BY <1>1, <1>2, <2>7
  <2> QED
    BY <1>1, <1>2, <2>1, <2>5, <2>6, <2>8, <2>9, MoveStep
<1> QED
  BY <1>4, <1>5

(* The quota is heard: the wizard is blocked or opened at its first        *)
(* step.                                                                   *)
LEMMA QuotaHeard ==
  ASSUME IInv, NEW c \in calls, HearQuota(c)
  PROVE  IInv'
<1>1. wiz \in Wizard /\ wiz.open /\ c.op = "quota"
  BY DEF HearQuota, Here, IInv, TypeOK
<1>2. PICK b \in BOOLEAN : b = (wiz.blocked \/ Cardinality(Elections) >= MaxElections)
  OBVIOUS
<1>3. PICK w : w = [wiz EXCEPT !.blocked = b]
  OBVIOUS
<1>4. /\ w \in Wizard /\ w.open /\ w.n = wiz.n /\ w.draft = wiz.draft /\ w.submitting = wiz.submitting
      /\ w.cands = wiz.cands
  BY <1>1, <1>3 DEF Wizard
<1>5. PICK gone, cs : gone = {c} /\ cs = calls \ gone
  OBVIOUS
<1>6. Becomes(w, cs)
  <2>1. (calls \ {c}) \cup {} = cs
    BY <1>5
  <2> QED
    BY <1>2, <1>3, <2>1 DEF HearQuota, Hear
<1>7. UNCHANGED <<drafts, jobs, stored, closed, clean>>
  BY DEF HearQuota, Hear, Server
<1>8. Undisturbed => w.cands \subseteq Has(w.draft)
  BY <1>4 DEF IInv, RecapOK
<1>9. \A x \in gone : \/ x.op \in {"check", "quota"}
                      \/ x.op = "create" /\ (Screen(wiz) = "cands" => Screen(w) # "cands")
  BY <1>1, <1>5
<1> QED
  BY <1>1, <1>4, <1>5, <1>6, <1>7, <1>8, <1>9, MoveStep

(* The draft is one still, or it is forgotten.                             *)
LEMMA CheckHeard ==
  ASSUME IInv, NEW c \in calls, HearCheck(c)
  PROVE  IInv'
<1>1. /\ wiz \in Wizard /\ wiz.open /\ c.op = "check" /\ c.status = "ok" /\ c \in Heard
      /\ c \in Checks /\ CallOK(c) /\ c.draft \in 1..MaxDrafts
  BY CallFacts DEF HearCheck, Here, Heard, Checks, IInv, TypeOK
<1>2. PICK gone, cs : gone = {c} /\ cs = calls \ gone
  OBVIOUS
<1>3. (calls \ {c}) \cup {} = cs
  BY <1>2
<1>4. \A x \in cs : x \in Asks(x.job)
  BY <1>2, CallFacts
<1>5. UNCHANGED <<drafts, jobs, closed, clean>>
  BY DEF HearCheck, Hear, Server
<1>6. CASE c.yes
  <2>1. Becomes(wiz, cs) /\ stored' = stored
    BY <1>3, <1>6 DEF HearCheck, Hear
  <2>2. Undisturbed => wiz.cands \subseteq Has(wiz.draft)
    BY DEF IInv, RecapOK
  <2>3. \A x \in gone : \/ x.op \in {"check", "quota"}
                        \/ x.op = "create" /\ (Screen(wiz) = "cands" => Screen(wiz) # "cands")
    BY <1>1, <1>2
  <2> QED
    BY <1>1, <1>2, <1>5, <2>1, <2>2, <2>3, MoveStep
<1>7. CASE ~c.yes
  <2>1. PICK w, cut, rs : /\ w = [wiz EXCEPT !.draft = 0] /\ rs = calls \ ({c} \cup cut)
                          /\ cut \in SUBSET Waiting /\ Becomes(w, rs) /\ stored' = 0
    BY <1>7 DEF HearCheck
  <2>2. 0 \in 0..MaxDrafts
    BY Constants
  <2>3. /\ w \in Wizard /\ w.open /\ w.n = wiz.n /\ w.draft = 0 /\ w.submitting = wiz.submitting
        /\ w.cands = wiz.cands
    BY <1>1, <2>1, <2>2 DEF Wizard
  <2>4. Becomes(w, rs) /\ stored' = 0
    BY <2>1
  <2>5. stored = c.draft /\ Gone(stored) /\ stored \notin closed
    BY <1>1, <1>7 DEF IInv, TurnsOK, WizardOK, CallOK
  <2>6. ~Undisturbed
    BY <1>1, <2>5 DEF Undisturbed, Gone
  <2>7. 0 \notin closed
    BY Constants DEF IInv, TypeOK
  <2>0. /\ \A x \in rs : x \in calls /\ x \in Asks(x.job)
        /\ \A x \in calls : x = c \/ x \in rs \/ x.op = "poll"
    BY <2>1, CallFacts DEF Waiting
  <2>8. Turn(w, rs)
    BY <1>1, <1>5, <2>0, <2>3, <2>4, <2>7 DEF Turn
  <2>9. Submits' = Submits /\ Checks' = {}
    <3>1. Submits' = {x \in rs : x.n = w.n /\ x.op \in {"draft", "publish"}}
      BY <2>8, TurnHeard
    <3>2. Checks' = {x \in rs : x.n = w.n /\ x.op = "check"}
      BY <2>8, TurnHeard
    <3>3. \A x \in Checks : x = c
      BY <1>1 DEF IInv, TurnsOK
    <3>4. c \notin rs /\ \A x \in calls : x.op \in {"draft", "publish", "check"} => x = c \/ x \in rs
      BY <2>0, <2>1
    <3>5. Submits = {x \in calls : x.n = wiz.n /\ x.op \in {"draft", "publish"}}
      BY <1>1 DEF Submits, Heard
    <3>6. Checks = {x \in calls : x.n = wiz.n /\ x.op = "check"}
      BY <1>1 DEF Checks, Heard
    <3>7. Submits' = Submits
      BY <1>1, <2>0, <2>3, <3>1, <3>4, <3>5
    <3>8. Checks' = {}
      BY <2>0, <2>3, <3>2, <3>3, <3>4, <3>6
    <3> QED
      BY <3>7, <3>8
  <2>10. wiz' = w
    BY <2>0, <2>3, <2>4, BecomesFacts
  <2>11. TurnsOK'
    BY <2>3, <2>9, <2>10 DEF IInv, TurnsOK
  <2>12. w.submitting => Submits' # {}
    BY <2>3, <2>9 DEF IInv, BusyOK
  <2>13. \A x \in calls \cap rs : Creation(x) => x.id # stored'
    BY <2>4, CallFacts DEF CallOK
  <2>14. \A x \in calls : Creation(x) => x \in rs
    BY <1>1, <2>0 DEF Creation
  <2> QED
    BY <2>5, <2>6, <2>8, <2>11, <2>12, <2>13, <2>14, TurnStep
<1> QED
  BY <1>6, <1>7

-----------------------------------------------------------------------------
(* Something is submitted.                                                 *)
LEMMA SubmitStep ==
  ASSUME IInv, wiz.open, ~wiz.submitting, Screen(wiz) \notin {"cands", "voters"}, NEW x,
         NEW w \in Wizard, w.open, w.n = wiz.n, w.draft = wiz.draft, w.submitting, w.cands = wiz.cands,
         NEW cs, \A y : y \in cs <=> y \in calls \/ y = x, Becomes(w, cs),
         UNCHANGED <<drafts, jobs, stored, closed, clean>>,
         Fresh(x, stored), x.op \in {"draft", "publish"}, x.n = wiz.n, x.k = 0, x.draft = wiz.draft
  PROVE  IInv'
<1>1. wiz \in Wizard /\ stored = wiz.draft /\ stored \notin closed /\ (stored # 0 => Known(stored))
  BY StoredKnown DEF IInv, TypeOK, WizardOK
<1>2. \A y \in cs : y \in Asks(y.job)
  BY CallFacts DEF Fresh
<1>3. Turn(w, cs)
  BY <1>1, <1>2 DEF Turn
<1>4. Submits = {}
  BY DEF IInv, TurnsOK
<1>5. Submits' = {x} /\ Checks' = Checks
  <2>1. Submits' = {y \in cs : y.n = w.n /\ y.op \in {"draft", "publish"}}
    BY <1>3, TurnHeard
  <2>2. Checks' = {y \in cs : y.n = w.n /\ y.op = "check"}
    BY <1>3, TurnHeard
  <2> QED
    BY <1>4, <2>1, <2>2 DEF Submits, Checks, Heard
<1>6. wiz' = w
  BY <1>2, BecomesFacts
<1>7. TurnsOK'
  BY <1>5, <1>6 DEF IInv, TurnsOK
<1>8. \A y \in calls \cap cs : Creation(y) => y.id # stored'
  BY CallFacts DEF CallOK
<1>9. Undisturbed => w.cands \subseteq Has(w.draft)
  BY DEF IInv, RecapOK
<1> QED
  BY <1>3, <1>5, <1>7, <1>8, <1>9, TurnStep

(* Step 1 is submitted: one call is under way, and the button is           *)
(* disabled.                                                               *)
LEMMA DraftSubmitted ==
  ASSUME IInv, NEW f \in Form, handleStep1Next(f)
  PROVE  IInv'
<1>1. /\ wiz.open /\ ~wiz.submitting /\ wiz.n \in Nat /\ wiz.draft \in 0..MaxDrafts
      /\ wiz.draft # 0 => wiz.draft = stored
      /\ Screen(wiz) \notin {"cands", "voters"}
  BY Clicked DEF handleStep1Next, On
<1>2. f \in Forms
  BY Constants
<1>3. PICK g \in Forms : g = handleSubmit(f)
  <2>1. CASE f.accepts /\ f.mode = "public"
    <3>1. handleSubmit(f) = [f EXCEPT !.accepts = TRUE]
      BY <2>1 DEF handleSubmit
    <3> QED
      BY <1>2, <3>1 DEF Forms
  <2>2. CASE ~(f.accepts /\ f.mode = "public")
    <3>1. handleSubmit(f) = [f EXCEPT !.accepts = FALSE]
      BY <2>2 DEF handleSubmit
    <3> QED
      BY <1>2, <3>1 DEF Forms
  <2> QED
    BY <2>1, <2>2
<1>4. PICK y : y = Call("draft", wiz.n, 0, wiz.draft)
  OBVIOUS
<1>5. /\ y \in Asks(y.job) /\ y.op = "draft" /\ y.n = wiz.n /\ y.k = 0 /\ y.draft = wiz.draft
      /\ y.status = "sent" /\ y.list = {}
  BY <1>1, <1>4, CallType DEF Ops
<1>6. PICK x : x = [y EXCEPT !.form = g]
  OBVIOUS
<1>7. /\ x \in Asks(x.job) /\ x.op = "draft" /\ x.n = wiz.n /\ x.k = 0 /\ x.draft = wiz.draft
      /\ x.status = "sent" /\ x.list = {}
  BY <1>5, <1>6 DEF Asks
<1>8. Fresh(x, stored)
  BY <1>1, <1>7 DEF Fresh
<1>9. PICK w, cs : w = [wiz EXCEPT !.submitting = TRUE] /\ cs = calls \cup {x}
  OBVIOUS
<1>10. Becomes(w, cs)
  BY <1>3, <1>4, <1>6, <1>9 DEF handleStep1Next
<1>11. UNCHANGED <<drafts, jobs, stored, closed, clean>>
  BY DEF handleStep1Next
<1>12. /\ w \in Wizard /\ w.open /\ w.n = wiz.n /\ w.draft = wiz.draft /\ w.submitting
      /\ w.cands = wiz.cands
  BY <1>1, <1>9 DEF IInv, TypeOK, Wizard
<1>13. \A z : z \in cs <=> z \in calls \/ z = x
  BY <1>9
<1> QED
  BY <1>1, <1>7, <1>8, <1>10, <1>11, <1>12, <1>13, SubmitStep

(* The publication is submitted: one call is under way.                    *)
LEMMA PublishSubmitted ==
  ASSUME IInv, handlePublish, wiz.draft # 0
  PROVE  IInv'
<1>1. /\ wiz.open /\ ~wiz.submitting /\ wiz.n \in Nat /\ wiz.draft \in 0..MaxDrafts /\ wiz.draft = stored
      /\ Screen(wiz) \notin {"cands", "voters"}
  BY Clicked DEF handlePublish, On
<1>2. PICK x : x = Call("publish", wiz.n, 0, wiz.draft)
  OBVIOUS
<1>3. /\ x \in Asks(x.job) /\ x.op = "publish" /\ x.n = wiz.n /\ x.k = 0 /\ x.draft = wiz.draft
      /\ x.status = "sent" /\ x.list = {}
  BY <1>1, <1>2, CallType DEF Ops
<1>4. Fresh(x, stored)
  BY <1>1, <1>3 DEF Fresh
<1>5. PICK w, cs : w = [wiz EXCEPT !.submitting = TRUE] /\ cs = calls \cup {x}
  OBVIOUS
<1>6. Becomes(w, cs)
  BY <1>2, <1>5 DEF handlePublish
<1>7. UNCHANGED <<drafts, jobs, stored, closed, clean>>
  BY DEF handlePublish
<1>8. /\ w \in Wizard /\ w.open /\ w.n = wiz.n /\ w.draft = wiz.draft /\ w.submitting
      /\ w.cands = wiz.cands
  BY <1>1, <1>5 DEF IInv, TypeOK, Wizard
<1>9. \A y : y \in cs <=> y \in calls \/ y = x
  BY <1>5
<1> QED
  BY <1>1, <1>3, <1>4, <1>6, <1>7, <1>8, <1>9, SubmitStep

(* What was submitted is answered: the draft created is the wizard's, or   *)
(* the wizard is as it was.                                                *)
LEMMA SubmitHeard ==
  ASSUME IInv, NEW c \in calls, Here(c), c.op \in {"draft", "publish"}, ~Creation(c),
         NEW w \in Wizard, w.open, w.n = wiz.n, w.draft = wiz.draft, ~w.submitting, w.cands = wiz.cands,
         NEW cs, \A y : y \in cs <=> y \in calls /\ y # c, Becomes(w, cs),
         UNCHANGED <<drafts, jobs, stored, closed, clean>>
  PROVE  IInv'
<1>1. wiz.open /\ c \in Submits
  BY DEF Here, Submits, Heard
<1>2. stored = wiz.draft /\ stored \notin closed /\ (stored # 0 => Known(stored))
  BY <1>1, StoredKnown DEF IInv, WizardOK
<1>3. \A y \in cs : y \in Asks(y.job)
  BY CallFacts
<1>4. Turn(w, cs)
  BY <1>1, <1>2, <1>3 DEF Turn
<1>5. Submits' = {} /\ Checks' = Checks
  <2>1. Submits' = {y \in cs : y.n = w.n /\ y.op \in {"draft", "publish"}}
    BY <1>4, TurnHeard
  <2>2. Checks' = {y \in cs : y.n = w.n /\ y.op = "check"}
    BY <1>4, TurnHeard
  <2>3. \A y \in Submits : y = c
    BY <1>1 DEF IInv, TurnsOK
  <2> QED
    BY <1>1, <2>1, <2>2, <2>3 DEF Submits, Checks, Heard
<1>6. wiz' = w
  BY <1>3, BecomesFacts
<1>7. TurnsOK'
  BY <1>5, <1>6 DEF IInv, TurnsOK
<1>8. \A y \in calls \cap cs : Creation(y) => y.id # stored'
  BY CallFacts DEF CallOK
<1>9. Undisturbed => w.cands \subseteq Has(w.draft)
  BY DEF IInv, RecapOK
<1> QED
  BY <1>4, <1>5, <1>7, <1>8, <1>9, TurnStep

(* The draft was created or updated: it becomes the wizard's and is        *)
(* stored, and no other is in flight.                                      *)
LEMMA DraftHeard ==
  ASSUME IInv, NEW c \in calls, HearDraft(c)
  PROVE  IInv'
<1>1. /\ wiz \in Wizard /\ wiz.open /\ c.op = "draft" /\ c.status # "sent" /\ Here(c) /\ c \in Submits
      /\ c \in Asks(c.job) /\ CallOK(c) /\ wiz.n \in Nat
  BY CallFacts DEF HearDraft, Here, Heard, Submits, IInv, TypeOK, Wizard
<1>2. UNCHANGED <<drafts, jobs, closed, clean>> /\ c.form \in Forms
  BY <1>1 DEF HearDraft, Hear, Server, Asks
<1>3. PICK w : /\ w = [wiz EXCEPT !.general = c.form, !.at = 2, !.submitting = FALSE,
                                    !.draft = IF c.draft = 0 THEN c.id ELSE @]
               /\ w \in Wizard /\ w.open /\ w.n = wiz.n /\ ~w.submitting /\ w.cands = wiz.cands
               /\ w.draft = IF c.draft = 0 THEN c.id ELSE wiz.draft
  <2>1. PICK d \in 0..MaxDrafts : d = IF c.draft = 0 THEN c.id ELSE wiz.draft
    BY <1>1 DEF Asks, Wizard
  <2>2. PICK a : a = [wiz EXCEPT !.general = c.form]
    OBVIOUS
  <2>3. a \in Wizard /\ a.open /\ a.n = wiz.n /\ a.cands = wiz.cands
    BY <1>1, <1>2, <2>2 DEF Wizard
  <2>4. PICK b : b = [a EXCEPT !.at = 2]
    OBVIOUS
  <2>5. b \in Wizard /\ b.open /\ b.n = wiz.n /\ b.cands = wiz.cands
    BY <2>3, <2>4 DEF Wizard
  <2>6. PICK v : v = [b EXCEPT !.submitting = FALSE, !.draft = d]
    OBVIOUS
  <2>7. /\ v \in Wizard /\ v.open /\ v.n = wiz.n /\ ~v.submitting /\ v.cands = wiz.cands
        /\ v.draft = d
    BY <2>1, <2>5, <2>6 DEF Wizard
  <2>8. v = [wiz EXCEPT !.general = c.form, !.at = 2, !.submitting = FALSE,
                        !.draft = IF c.draft = 0 THEN c.id ELSE @]
    BY <2>1, <2>2, <2>4, <2>6
  <2> QED
    BY <2>1, <2>7, <2>8
<1>4. CASE c.status # "ok"
  <2>1. PICK v, cs : v = [wiz EXCEPT !.submitting = FALSE] /\ cs = (calls \ {c}) \cup {}
    OBVIOUS
  <2>2. Becomes(v, cs) /\ stored' = stored
    BY <1>4, <2>1 DEF HearDraft, Hear
  <2>3. v \in Wizard /\ v.open /\ v.n = wiz.n /\ v.draft = wiz.draft /\ ~v.submitting /\ v.cands = wiz.cands
    BY <1>1, <2>1 DEF Wizard
  <2>4. \A y : y \in cs <=> y \in calls /\ y # c
    BY <2>1
  <2>5. ~Creation(c)
    BY <1>4 DEF Creation
  <2> QED
    BY <1>1, <1>2, <2>2, <2>3, <2>4, <2>5, SubmitHeard
<1>5. CASE c.status = "ok" /\ c.draft # 0
  <2>1. PICK cs : cs = (calls \ {c}) \cup {}
    OBVIOUS
  <2>2. Becomes(w, cs) /\ stored' = stored
    BY <1>3, <1>5, <2>1 DEF HearDraft, Hear
  <2>3. w \in Wizard /\ w.open /\ w.n = wiz.n /\ w.draft = wiz.draft /\ ~w.submitting /\ w.cands = wiz.cands
    BY <1>1, <1>3, <1>5
  <2>4. \A y : y \in cs <=> y \in calls /\ y # c
    BY <2>1
  <2>5. ~Creation(c)
    BY <1>5 DEF Creation
  <2> QED
    BY <1>1, <1>2, <2>2, <2>3, <2>4, <2>5, SubmitHeard
<1>6. CASE c.status = "ok" /\ c.draft = 0
  <2>1. Creation(c) /\ c.id \in 1..MaxDrafts /\ c.id \notin closed /\ Known(c.id) /\ wiz.draft = 0 /\ stored = 0
    BY <1>1, <1>6 DEF Creation, CallOK, Asks, IInv, TurnsOK, WizardOK
  <2>2. PICK x : x = Call("check", wiz.n, 0, c.id)
    OBVIOUS
  <2>3. /\ x \in Asks(x.job) /\ x.op = "check" /\ x.n = wiz.n /\ x.k = 0 /\ x.draft = c.id
        /\ x.status = "sent" /\ x.list = {}
    <3>1. "check" \in Ops /\ 0 \in Nat /\ c.id \in 0..MaxDrafts
      BY <2>1 DEF Ops
    <3> QED
      BY <1>1, <2>2, <3>1, CallType
  <2>4. PICK cs : cs = (calls \ {c}) \cup {x}
    OBVIOUS
  <2>5. Becomes(w, cs) /\ stored' = c.id
    BY <1>3, <1>6, <2>2, <2>4 DEF HearDraft, Hear
  <2>6. w \in Wizard /\ w.open /\ w.n = wiz.n /\ w.draft = c.id /\ ~w.submitting /\ w.cands = wiz.cands
    BY <1>1, <1>3, <1>6
  <2>7. \A y : y \in cs <=> (y \in calls /\ y # c) \/ y = x
    BY <2>4
  <2>8. \A y \in cs : y \in Asks(y.job)
    BY <2>3, <2>7, CallFacts
  <2>9. Turn(w, cs)
    <3>1. \A y \in cs \ calls : Fresh(y, c.id) /\ y.op \in {"check", "draft", "publish"} /\ y.n = w.n /\ y.k = 0
      BY <2>1, <2>3, <2>6, <2>7 DEF Fresh
    <3>2. \A y \in calls \ cs : y.op = "draft"
      BY <1>1, <2>7
    <3>3. wiz.submitting
      BY <1>1 DEF IInv, TurnsOK
    <3> QED
      BY <1>1, <1>2, <2>1, <2>5, <2>6, <2>8, <3>1, <3>2, <3>3 DEF Turn
  <2>10. Submits' = {} /\ Checks' = {x}
    <3>1. Submits' = {y \in cs : y.n = w.n /\ y.op \in {"draft", "publish"}}
      BY <2>9, TurnHeard
    <3>2. Checks' = {y \in cs : y.n = w.n /\ y.op = "check"}
      BY <2>9, TurnHeard
    <3>3. \A y \in Submits : y = c
      BY <1>1 DEF IInv, TurnsOK
    <3>4. ASSUME NEW y \in Checks PROVE FALSE
      <4>1. y \in calls /\ y.op = "check" /\ y.draft = 0
        BY <2>1 DEF IInv, TurnsOK, Checks, Heard
      <4> QED
        BY <4>1, CallFacts
    <3> QED
      BY <1>1, <2>3, <2>6, <2>7, <3>1, <3>2, <3>3, <3>4 DEF Submits, Checks, Heard
  <2>11. wiz' = w
    BY <2>5, <2>6, <2>8, BecomesFacts
  <2>12. TurnsOK'
    BY <2>3, <2>6, <2>10, <2>11 DEF TurnsOK
  <2>13. Undisturbed => w.cands \subseteq Has(w.draft) /\ wiz.draft = 0
    BY <2>1, <2>6 DEF IInv, RecapOK, Has
  <2>14. ASSUME NEW y \in calls \cap cs, Creation(y) PROVE y.id # stored'
    <3>1. y # c
      BY <2>3, <2>7, <2>14 DEF Creation
    <3> QED
      BY <2>1, <2>5, <2>14, <3>1 DEF IInv, BooksOK
  <2>15. \A y \in calls : y \in cs \/ y.id = stored'
    BY <2>5, <2>7
  <2> QED
    BY <2>1, <2>6, <2>9, <2>12, <2>13, <2>14, <2>15, TurnStep
<1> QED
  BY <1>4, <1>5, <1>6

(* A publication that is refused, but not for the subscription.            *)
LEMMA PublishRefused ==
  ASSUME IInv, NEW c \in calls, HearPublish(c), c.status # "ok", ~(c.status = "refused" /\ c.yes)
  PROVE  IInv'
<1>1. /\ c.op = "publish" /\ UNCHANGED <<drafts, jobs, stored, closed, clean>>
      /\ Hear(c, IF Here(c) THEN [wiz EXCEPT !.submitting = FALSE] ELSE wiz, {})
  BY DEF HearPublish, Hear, Server
<1>2. CASE ~Here(c)
  <2>1. PICK cs : cs = calls \ {c}
    OBVIOUS
  <2>2. (calls \ {c}) \cup {} = cs
    BY <2>1
  <2>3. Becomes(wiz, cs)
    BY <1>1, <1>2, <2>2 DEF Hear
  <2> QED
    BY <1>1, <1>2, <2>1, <2>3, UnheardStep
<1>3. CASE Here(c)
  <2>1. PICK w, cs : w = [wiz EXCEPT !.submitting = FALSE] /\ cs = (calls \ {c}) \cup {}
    OBVIOUS
  <2>2. Becomes(w, cs)
    BY <1>1, <1>3, <2>1 DEF Hear
  <2>3. w \in Wizard /\ w.open /\ w.n = wiz.n /\ w.draft = wiz.draft /\ ~w.submitting /\ w.cands = wiz.cands
    BY <1>3, <2>1 DEF Wizard, IInv, TypeOK, Here
  <2>4. \A y : y \in cs <=> y \in calls /\ y # c
    BY <2>1
  <2>5. ~Creation(c)
    BY <1>1 DEF Creation
  <2> QED
    BY <1>1, <1>3, <2>2, <2>3, <2>4, <2>5, SubmitHeard
<1> QED
  BY <1>2, <1>3

-----------------------------------------------------------------------------
(* Another page is shown: nobody listens any more.                         *)
LEMMA CloseStep ==
  ASSUME IInv, NEW w \in Wizard, w.n = wiz.n, ~w.open, w.draft = 0, w.cands = {}, ~w.submitting,
         NEW cs, cs \subseteq calls, Becomes(w, cs), UNCHANGED <<drafts, jobs>>,
         stored' \in 0..MaxDrafts, closed' \in SUBSET (1..MaxDrafts), clean' \in BOOLEAN,
         closed \subseteq closed', \A d \in closed' : Known(d), stored' \notin closed',
         stored' = stored \/ (stored' = 0 /\ stored \in closed' \cup {0}),
         \A x \in cs : Creation(x) => x.id \notin closed',
         clean' => clean /\ Creating(calls) = {}
  PROVE  IInv'
<1>1. \A x \in cs : x \in Asks(x.job)
  BY CallFacts
<1>2. /\ wiz' = w /\ Screen(wiz)' = Screen(w) /\ calls' \subseteq cs
      /\ Screen(w) = Screen(wiz) => step' = step
      /\ Screen(w) # Screen(wiz) => step'.cands = w.cands /\ ~step'.submitting /\ step'.import = "none"
  BY <1>1, BecomesFacts
<1>3. Heard' = {}
  BY <1>2 DEF Heard
<1>4. step'.cands = {} /\ ~step'.submitting /\ step'.import = "none"
  <2>1. CASE Screen(w) = Screen(wiz)
    <3>1. ~wiz.open
      BY <2>1, ScreenIs DEF IInv, TypeOK
    <3> QED
      BY <1>2, <2>1, <3>1 DEF IInv, WizardOK
  <2> QED
    BY <1>2, <2>1
<1>5. TypeOK'
  BY <1>1, BecomesTyped
<1>6. WizardOK'
  BY <1>2, <1>4 DEF WizardOK
<1>7. BooksOK'
  <2>1. w.n >= wiz.n /\ w.draft \in {0, stored'}
    BY DEF Wizard
  <2>2. \A x \in cs \ calls : Fresh(x, stored') /\ x.n = w.n /\ x.k = 0
    OBVIOUS
  <2>3. \A d \in closed' \cup ({stored'} \ {0}) : Known(d)
    BY DEF IInv, BooksOK
  <2>4. \A x \in calls \cap cs : Creation(x) => x.id # stored' /\ x.id \notin closed'
    BY CallFacts DEF CallOK
  <2> QED
    BY <1>1, <1>5, <2>1, <2>2, <2>3, <2>4, BecomesBooks
<1>8. TurnsOK'
  BY <1>3 DEF TurnsOK, Submits, Checks
<1>9. DraftsOK'
  <2> SUFFICES ASSUME clean'
      PROVE /\ \A x \in Creating(calls') : x \in Heard' /\ x.status \in {"sent", "ok"}
            /\ \A e \in 1..MaxDrafts \ closed' : drafts'[e].status = "draft" =>
                   e = stored' \/ \E x \in calls' : Creation(x) /\ x.id = e
    BY DEF DraftsOK, Creation, Creating
  <2>1. clean /\ Creating(calls) = {}
    OBVIOUS
  <2>2. Creating(calls') = {}
    BY <1>2, <2>1 DEF Creating
  <2>3. \A x \in calls : ~Creation(x)
    BY <2>1 DEF Creating, Creation
  <2>4. \A e \in 1..MaxDrafts \ closed : drafts[e].status = "draft" => e = stored
    BY <2>1, <2>3 DEF IInv, DraftsOK
  <2> QED
    BY <2>2, <2>4
<1>10. RecapOK'
  BY <1>2, <1>3, <1>4 DEF RecapOK, Marked
<1>11. BusyOK'
  BY <1>2, <1>3, <1>4 DEF BusyOK, StepBusyOK, Awaited
<1> QED
  BY <1>5, <1>6, <1>7, <1>8, <1>9, <1>10, <1>11 DEF IInv

(* The user leaves the wizard: what it has heard stays stored, a           *)
(* creation under way is noted as unheard.                                 *)
LEMMA LeaveStep ==
  ASSUME IInv, Leave
  PROVE  IInv'
<1>1. wiz.n \in Nat
  BY DEF IInv, TypeOK, Wizard
<1>2. PICK w : w = [Nobody EXCEPT !.n = wiz.n]
  OBVIOUS
<1>3. w \in Wizard /\ w.n = wiz.n /\ ~w.open /\ w.draft = 0 /\ w.cands = {} /\ ~w.submitting
  BY <1>1, <1>2, NobodyType
<1>4. PICK cs : cs = calls
  OBVIOUS
<1>5. Becomes(w, cs) /\ UNCHANGED <<drafts, jobs, stored, closed>>
  BY <1>2, <1>4 DEF Leave
<1>6. clean' \in BOOLEAN /\ (clean' => clean /\ Creating(calls) = {})
  BY DEF Leave
<1>7. stored \in 0..MaxDrafts /\ closed \in SUBSET (1..MaxDrafts) /\ stored \notin closed
  BY DEF IInv, TypeOK, WizardOK
<1>8. \A d \in closed : Known(d)
  BY DEF IInv, BooksOK
<1>9. \A x \in cs : Creation(x) => x.id \notin closed
  BY <1>4, CallFacts DEF CallOK
<1> QED
  BY <1>3, <1>4, <1>5, <1>6, <1>7, <1>8, <1>9, CloseStep

(* The draft is saved: it is closed, nothing was being submitted.          *)
LEMMA SaveStep ==
  ASSUME IInv, handleSaveDraft, wiz.draft # 0
  PROVE  IInv'
<1>1. wiz.open /\ ~wiz.submitting /\ wiz.n \in Nat /\ wiz.draft = stored /\ stored \in 1..MaxDrafts /\ Known(stored)
  BY Clicked DEF handleSaveDraft
<1>2. PICK w : w = [Nobody EXCEPT !.n = wiz.n]
  OBVIOUS
<1>3. w \in Wizard /\ w.n = wiz.n /\ ~w.open /\ w.draft = 0 /\ w.cands = {} /\ ~w.submitting
  BY <1>1, <1>2, NobodyType
<1>4. PICK cs : cs = calls
  OBVIOUS
<1>5. Becomes(w, cs) /\ UNCHANGED <<drafts, jobs, clean>> /\ stored' = 0 /\ closed' = closed \cup {stored}
  BY <1>1, <1>2, <1>4 DEF handleSaveDraft
<1>6. clean \in BOOLEAN /\ closed' \in SUBSET (1..MaxDrafts) /\ 0 \in 0..MaxDrafts /\ stored' \notin closed'
  BY <1>1, <1>5, Constants DEF IInv, TypeOK
<1>7. clean => Creating(calls) = {}
  <2>1. Submits = {}
    BY <1>1 DEF IInv, TurnsOK
  <2>2. clean => \A x \in Creating(calls) : x \in Submits
    BY DEF IInv, DraftsOK, Creating, Submits
  <2> QED
    BY <2>1, <2>2
<1>8. \A d \in closed' : Known(d)
  BY <1>1, <1>5 DEF IInv, BooksOK
<1>9. \A x \in cs : Creation(x) => x.id \notin closed'
  BY <1>4, <1>5, CallFacts DEF CallOK
<1> QED
  BY <1>3, <1>4, <1>5, <1>6, <1>7, <1>8, <1>9, CloseStep

(* The draft is published, and closed if its wizard is still there; or the *)
(* subscription is shown.                                                  *)
LEMMA Published ==
  ASSUME IInv, NEW c \in calls, HearPublish(c), c.status = "ok" \/ (c.status = "refused" /\ c.yes)
  PROVE  IInv'
<1>1. c.op = "publish" /\ c.draft \in 1..MaxDrafts /\ Known(c.draft) /\ wiz.n \in Nat
  BY CallFacts DEF HearPublish, IInv, TypeOK, Wizard
<1>2. PICK w : w = [Nobody EXCEPT !.n = wiz.n]
  OBVIOUS
<1>3. w \in Wizard /\ w.n = wiz.n /\ ~w.open /\ w.draft = 0 /\ w.cands = {} /\ ~w.submitting
  BY <1>1, <1>2, NobodyType
<1>4. PICK cs : cs = (calls \ {c}) \cup {}
  OBVIOUS
<1>5. /\ Becomes(w, cs) /\ UNCHANGED <<drafts, jobs>>
      /\ stored' = (IF Here(c) /\ c.status = "ok" THEN 0 ELSE stored)
      /\ closed' = (IF Here(c) /\ c.status = "ok" THEN closed \cup {c.draft} ELSE closed)
  BY <1>2, <1>4 DEF HearPublish, Hear, Server
<1>6. clean' \in BOOLEAN /\ (clean' => clean /\ Creating(calls) = {})
  BY DEF HearPublish
<1>7. stored \in 0..MaxDrafts /\ closed \in SUBSET (1..MaxDrafts) /\ stored \notin closed
  BY DEF IInv, TypeOK, WizardOK
<1>8. \A d \in closed' : Known(d)
  BY <1>1, <1>5 DEF IInv, BooksOK
<1>9. \A x \in cs : Creation(x) => x.id \notin closed'
  <2>1. \A x \in calls : Creation(x) => c.draft # x.id
    BY DEF IInv, BooksOK
  <2>2. \A x \in calls : Creation(x) => x.id \notin closed
    BY CallFacts DEF CallOK
  <2> QED
    BY <1>4, <1>5, <2>1, <2>2
<1>10. cs \subseteq calls /\ closed \subseteq closed' /\ closed' \in SUBSET (1..MaxDrafts)
  BY <1>1, <1>4, <1>5, <1>7
<1>11. /\ stored' \in 0..MaxDrafts /\ stored' \notin closed'
       /\ stored' = stored \/ (stored' = 0 /\ stored \in closed' \cup {0})
  <2>1. CASE Here(c) /\ c.status = "ok"
    <3>1. c \in Submits
      BY <1>1, <2>1 DEF Here, Submits, Heard
    <3>2. stored = wiz.draft /\ wiz.draft \in {0, c.draft}
      BY <1>1, <2>1, <3>1 DEF IInv, TurnsOK, WizardOK, Here
    <3>3. 0 \in 0..MaxDrafts /\ 0 \notin closed'
      BY <1>10, Constants
    <3> QED
      BY <1>5, <2>1, <3>2, <3>3
  <2>2. CASE ~(Here(c) /\ c.status = "ok")
    BY <1>5, <1>7, <2>2
  <2> QED
    BY <2>1, <2>2
<1> QED
  BY <1>3, <1>5, <1>6, <1>8, <1>9, <1>10, <1>11, CloseStep

(* The wizard is opened, on the draft that is stored.                      *)
LEMMA OpenStep ==
  ASSUME IInv, Open
  PROVE  IInv'
<1>1. /\ ~wiz.open /\ wiz.n \in Nat /\ stored \in 0..MaxDrafts /\ stored \notin closed /\ wiz \in Wizard
      /\ UNCHANGED <<drafts, jobs, stored, closed, clean>>
  BY DEF Open, IInv, TypeOK, Wizard, WizardOK
<1>2. PICK n \in Nat : n = wiz.n + 1
  BY <1>1
<1>3. PICK w : w = [Nobody EXCEPT !.n = n, !.open = TRUE, !.draft = stored]
  OBVIOUS
<1>4. /\ w \in Wizard /\ w.n = n /\ w.open /\ ~w.blocked /\ w.at = 1 /\ w.draft = stored /\ w.cands = {}
      /\ ~w.submitting
  <2>1. PICK v : v = [Nobody EXCEPT !.n = n]
    OBVIOUS
  <2>2. v \in Wizard /\ v.n = n /\ v.cands = {} /\ ~v.submitting /\ v.at = 1 /\ ~v.blocked
    BY <2>1, NobodyType DEF Nobody
  <2>3. w = [v EXCEPT !.open = TRUE, !.draft = stored]
    BY <1>3, <2>1
  <2> QED
    BY <1>1, <2>2, <2>3 DEF Wizard
<1>5. PICK quota, check : quota = Call("quota", n, 0, 0) /\ check = Call("check", n, 0, stored)
  OBVIOUS
<1>6. /\ quota \in Asks(quota.job) /\ quota.op = "quota" /\ quota.n = n /\ quota.k = 0 /\ quota.draft = 0
      /\ quota.status = "sent" /\ quota.list = {}
      /\ check \in Asks(check.job) /\ check.op = "check" /\ check.n = n /\ check.k = 0
      /\ check.draft = stored /\ check.status = "sent" /\ check.list = {}
  <2>1. "quota" \in Ops /\ "check" \in Ops /\ 0 \in Nat /\ 0 \in 0..MaxDrafts
    BY Constants DEF Ops
  <2> QED
    BY <1>1, <1>5, <2>1, CallType
<1>7. PICK cs : cs = calls \cup {quota} \cup (IF stored = 0 THEN {} ELSE {check})
  OBVIOUS
<1>8. Becomes(w, cs)
  <2>1. Becomes([Nobody EXCEPT !.n = wiz.n + 1, !.open = TRUE, !.draft = stored],
                calls \cup {Call("quota", wiz.n + 1, 0, 0)} \cup
                (IF stored = 0 THEN {} ELSE {Call("check", wiz.n + 1, 0, stored)}))
    BY DEF Open
  <2> QED
    BY <1>2, <1>3, <1>5, <1>7, <2>1
<1>9. \A x \in cs : x \in calls \/ x = quota \/ (x = check /\ stored # 0)
  BY <1>7
<1>10. \A x \in cs : x \in Asks(x.job)
  BY <1>6, <1>9, CallFacts
<1>11. Screen(w) # Screen(wiz)
  BY <1>1, <1>4, ScreenIs
<1>12. /\ wiz' = w /\ step.k \in Nat /\ step'.k = step.k + 1 /\ step'.cands = {} /\ ~step'.submitting
       /\ step'.import = "none"
       /\ \A x \in calls' : x \in cs \/ Mounted(x, w, step'.k)
  BY <1>4, <1>8, <1>10, <1>11, BecomesFacts
<1>13. ASSUME NEW x \in Heard' PROVE x = quota \/ (x = check /\ stored # 0) \/ Mounted(x, w, step'.k)
  <2>1. x \in calls' /\ x.n = n
    BY <1>4, <1>12 DEF Heard
  <2>2. x \notin calls
    BY <1>1, <1>2, <2>1, CallFacts DEF CallOK, Asks
  <2> QED
    BY <1>9, <1>12, <2>1, <2>2
<1>14. TypeOK'
  <2>1. stored' \in 0..MaxDrafts /\ closed' \in SUBSET (1..MaxDrafts) /\ clean' \in BOOLEAN
    BY <1>1 DEF IInv, TypeOK
  <2> QED
    BY <1>1, <1>4, <1>8, <1>10, <2>1, BecomesTyped
<1>15. BooksOK'
  <2>1. w.n >= wiz.n /\ w.draft \in {0, stored'}
    BY <1>1, <1>2, <1>4
  <2>2. \A x \in cs \ calls : Fresh(x, stored') /\ x.n = w.n /\ x.k = 0
    BY <1>1, <1>4, <1>6, <1>9 DEF Fresh
  <2>3. \A d \in closed' \cup ({stored'} \ {0}) : Known(d)
    BY <1>1 DEF IInv, BooksOK
  <2>4. \A x \in calls \cap cs : Creation(x) => x.id # stored' /\ x.id \notin closed'
    BY <1>1, CallFacts DEF CallOK
  <2> QED
    BY <1>1, <1>4, <1>8, <1>10, <1>14, <2>1, <2>2, <2>3, <2>4, BecomesBooks
<1>16. WizardOK'
  BY <1>1, <1>4, <1>12 DEF WizardOK
<1>17. TurnsOK'
  <2>1. Submits' = {}
    BY <1>6, <1>13 DEF Submits, Mounted
  <2>2. \A x \in Checks' : x = check
    BY <1>6, <1>13 DEF Checks, Mounted
  <2> QED
    BY <1>4, <1>6, <1>12, <2>1, <2>2 DEF TurnsOK
<1>18. DraftsOK'
  <2>1. clean => Creating(calls) = {}
    BY <1>1 DEF IInv, DraftsOK, Heard
  <2>2. Creating(calls') \subseteq Creating(calls)
    BY <1>6, <1>9, <1>12 DEF Creating, Mounted
  <2>3. clean => \A x \in calls : ~Creation(x)
    BY <2>1 DEF Creating, Creation
  <2> QED
    BY <1>1, <2>1, <2>2, <2>3 DEF IInv, DraftsOK, Creation, Creating
<1>19. RecapOK'
  <2>1. \A x \in Heard' : x.op # "create" /\ (x.op \in OfStep => x.draft = stored)
    BY <1>4, <1>6, <1>13 DEF OfStep, Mounted
  <2> QED
    BY <1>4, <1>12, <2>1 DEF RecapOK, Marked
<1>20. BusyOK'
  <2>1. \A x \in Heard' : x.op \notin {"import", "enroll"}
    BY <1>6, <1>13 DEF Mounted
  <2> QED
    BY <1>4, <1>12, <2>1 DEF BusyOK, StepBusyOK, Awaited
<1> QED
  BY <1>14, <1>15, <1>16, <1>17, <1>18, <1>19, <1>20 DEF IInv

-----------------------------------------------------------------------------
(* At the start there is no draft and the wizard is closed.                *)
LEMMA InitOK == Init => IInv
<1> SUFFICES ASSUME Init PROVE IInv
  OBVIOUS
<1>1. PICK w : w = Nobody
  OBVIOUS
<1>2. w \in Wizard /\ ~w.open /\ w.draft = 0 /\ w.cands = {} /\ ~w.submitting
  BY <1>1, Constants DEF Nobody, Wizard, NoForm, Forms
<1>3. wiz = w
  BY <1>1 DEF Init
<1>4. step = Mount(w, 0)
  BY <1>1 DEF Init
<1>5. step \in Step(step.job) /\ step.cands = {} /\ ~step.submitting /\ step.import = "none"
  BY <1>2, <1>4, MountType
<1>6. Nothing \in Draft /\ Nothing.status = "none"
  BY DEF Nothing, Draft, NoForm, Forms
<1>7. /\ drafts \in [1..MaxDrafts -> Draft] /\ \A d \in 1..MaxDrafts : drafts[d].status = "none"
      /\ jobs = {} /\ calls = {} /\ stored = 0 /\ closed = {} /\ clean = TRUE
  BY <1>6 DEF Init
<1>8. TypeOK
  BY <1>2, <1>3, <1>5, <1>7, Constants DEF TypeOK
<1>9. BooksOK
  BY <1>7 DEF BooksOK
<1>10. WizardOK
  BY <1>2, <1>3, <1>5, <1>7 DEF WizardOK
<1>11. Heard = {}
  BY <1>7 DEF Heard
<1>12. TurnsOK
  BY <1>11 DEF TurnsOK, Submits, Checks
<1>13. DraftsOK
  BY <1>7 DEF DraftsOK, Creating
<1>14. RecapOK
  BY <1>2, <1>3, <1>5, <1>11 DEF RecapOK, Marked
<1>15. BusyOK
  BY <1>2, <1>3, <1>5, <1>11 DEF BusyOK, StepBusyOK, Awaited
<1> QED
  BY <1>8, <1>9, <1>10, <1>12, <1>13, <1>14, <1>15 DEF IInv

(* Every click keeps the invariant.                                        *)
LEMMA ClickStep == IInv /\ Clicks => IInv'
<1> SUFFICES ASSUME IInv, Clicks PROVE IInv'
  OBVIOUS
<1>1. CASE Open \/ Leave
  BY <1>1, OpenStep, LeaveStep
<1>2. CASE (handleSaveDraft \/ handlePublish) /\ wiz.draft # 0
  BY <1>2, SaveStep, PublishSubmitted
<1>3. CASE \/ \E at \in 1..5 : handleStepClick(at)
           \/ handlePrevious \/ handleCriteriaNext
           \/ (handleSaveDraft \/ handlePublish) /\ wiz.draft = 0
  BY <1>3, MovesStep
<1>4. CASE \E f \in Form : handleStep1Next(f)
  BY <1>4, DraftSubmitted
<1>5. CASE ChangeCriteria \/ startServerImport
  BY <1>5, CriterionStep, ImportStep
<1>6. CASE \/ \E rows \in File : handleImportFile(rows) \/ \E c \in rows : handleAddCandidat(c)
           \/ continueClientImport \/ \E c \in step.cands : handleRemoveCandidat(c)
  BY <1>6, AddStep
<1>7. CASE handleNext
  <2>1. CASE \A c \in step.cands : c.on
    BY <1>7, <2>1, NextStep2
  <2>2. CASE \E c \in step.cands : ~c.on
    <3>1. {c \in step.cands : ~c.on} # {}
      BY <2>2
    <3> QED
      BY <1>7, <3>1, CreationsStep
  <2> QED
    BY <2>1, <2>2
<1>8. CASE handleFileUpload \/ handleAddVotant
  BY <1>8, VotersStep
<1>9. CASE \E grouped \in BOOLEAN : handleVotersNext(grouped)
  BY <1>9, VotersNextStep
<1> QED
  BY <1>1, <1>2, <1>3, <1>4, <1>5, <1>6, <1>7, <1>8, <1>9 DEF Clicks

(* Every answer that is heard keeps the invariant.                         *)
LEMMA HearStepOK == IInv => \A c \in calls : Answer(c) => IInv'
<1> SUFFICES ASSUME IInv, NEW c \in calls, Answer(c) PROVE IInv'
  OBVIOUS
<1>1. CASE HearCheck(c) \/ HearQuota(c) \/ HearDraft(c)
  BY <1>1, CheckHeard, QuotaHeard, DraftHeard
<1>2. CASE HearCriteria(c) \/ HearCriterion(c) \/ HearElectors(c) \/ HearElector(c)
  BY <1>2, CriteriaHeard
<1>3. CASE HearRefresh(c) \/ HearImport(c) \/ HearPoll(c)
  BY <1>3, RefreshHeard, ImportHeard, PollHeard
<1>4. CASE HearCreate(c)
  <2>1. CASE {x \in c.all : ~x.on} \subseteq c.made
    BY <1>4, <2>1, CreateHeard
  <2>2. CASE ~({x \in c.all : ~x.on} \subseteq c.made)
    <3>1. /\ c.op = "create"
          /\ HearStep(c, [step EXCEPT !.submitting = FALSE,
                                      !.cands = (@ \ c.made) \cup OnServer(@ \cap c.made)], {})
      BY <1>4, <2>2 DEF HearCreate
    <3> QED
      BY <3>1, CreateRefused
  <2> QED
    BY <2>1, <2>2
<1>5. CASE HearPublish(c)
  BY <1>5, Published, PublishRefused
<1> QED
  BY <1>1, <1>2, <1>3, <1>4, <1>5 DEF Answer

(* So does doing nothing.                                                  *)
LEMMA StutterOK == IInv /\ UNCHANGED vars => IInv'
<1> SUFFICES ASSUME IInv, UNCHANGED vars PROVE IInv'
  OBVIOUS
<1>1. UNCHANGED <<drafts, jobs, stored, wiz, step, calls, closed, clean>>
  BY DEF vars
<1>2. TypeOK' /\ Grow
  BY <1>1, GrowSame DEF IInv, TypeOK
<1>3. \A j \in jobs' : Known(j.draft)'
  BY <1>1, <1>2, JobsKept
<1>4. calls' \subseteq calls /\ \A x \in calls \ calls' : x.op \in Reads
  BY <1>1
<1>5. UNCHANGED <<stored, wiz, step, closed>> /\ (clean' => clean)
  BY <1>1
<1>6. \A e \in 1..MaxDrafts : drafts'[e].status = "draft" => drafts[e].status = "draft"
  BY <1>1
<1> QED
  BY <1>2, <1>3, <1>4, <1>5, <1>6, QuietStep

(* What is known of the wizard, the steps and the calls is true of every   *)
(* state.                                                                  *)
THEOREM InductiveInvariant == Spec => []IInv
<1>1. IInv /\ Next => IInv'
  BY ClickStep, HearStepOK, ServeStep, LoseStep, WorkStep, OtherStep DEF Next
<1>2. IInv /\ [Next]_vars => IInv'
  BY <1>1, StutterOK
<1> QED
  BY <1>2, InitOK, PTL DEF Spec

-----------------------------------------------------------------------------
(* Every state of the wizard is well formed.                               *)
THEOREM TypeCorrect == Spec => []TypeOK
<1>1. IInv => TypeOK
  BY DEF IInv
<1> QED
  BY <1>1, InductiveInvariant, PTL

(* As long as no draft is taken from the wizard, the candidates on which   *)
(* the Publish button is decided are all on the server, in that very       *)
(* draft: whatever was imported, created, refused or lost.                 *)
THEOREM RecapIsKept == Spec => []RecapIsOnServer
<1>1. IInv => RecapIsOnServer
  BY DEF IInv, RecapOK, RecapIsOnServer, Has
<1> QED
  BY <1>1, InductiveInvariant, PTL

-----------------------------------------------------------------------------
(* A publication answered after its wizard was left: the draft is not one  *)
(* any more, and a wizard that takes it up has asked about it.             *)
Asking(c, d, n) ==
    /\ c.op = "check" /\ c.n = n /\ c.draft = d
    /\ c.status = "sent" \/ (c.status = "ok" /\ ~c.yes)

LateOK ==
    /\ lost \in Nat
    /\ \A c \in calls : c.op = "publish" /\ c.status = "ok" => Gone(c.draft)
    /\ \A d \in late : d \in 1..MaxDrafts /\ Gone(d)
    /\ lost = 0 /\ wiz.draft \in late => \E c \in calls : Asking(c, wiz.draft, wiz.n)

(* What is gone stays gone, and a publication is answered once done.       *)
StayGone == \A d \in 1..MaxDrafts : Gone(d) => Gone(d)'
Done     == \A c \in calls' : c.op = "publish" /\ c.status = "ok" => c \in calls \/ Gone(c.draft)'

(* The wizard has the draft it had, and still asks about it.               *)
AsksOn ==
    /\ wiz'.draft = wiz.draft /\ wiz'.n = wiz.n
    /\ wiz.draft \in late =>
         \A c \in calls : Asking(c, wiz.draft, wiz.n) => \E d \in calls' : Asking(d, wiz.draft, wiz.n)

(* A call newly sent, of any kind.                                         *)
LEMMA SentType ==
  ASSUME IInv, NEW op \in Ops, NEW d \in 0..MaxDrafts
  PROVE  \A n \in {wiz.n, wiz.n + 1} : \A x : x = Call(op, n, 0, d) =>
            /\ x \in Asks(x.job) /\ x.op = op /\ x.n = n /\ x.draft = d /\ x.status = "sent"
<1>1. wiz.n \in Nat /\ wiz.n + 1 \in Nat /\ 0 \in Nat
  BY DEF IInv, TypeOK, Wizard
<1> QED
  BY <1>1, CallType

(* What is enough for a step that hears of no late publication.            *)
LEMMA LateKept ==
  ASSUME IInv, LateOK, StayGone, Done, UNCHANGED <<late, lost>>,
         wiz'.draft = 0 \/ (\E c \in calls' : Asking(c, wiz'.draft, wiz'.n)) \/ AsksOn
  PROVE  LateOK'
<1>1. ASSUME NEW c \in calls', c.op = "publish", c.status = "ok" PROVE Gone(c.draft)'
  <2>1. c \in calls => c.draft \in 1..MaxDrafts /\ Gone(c.draft)
    BY <1>1, CallFacts DEF LateOK
  <2> QED
    BY <1>1, <2>1 DEF Done, StayGone
<1>2. ASSUME NEW d \in late' PROVE d \in 1..MaxDrafts /\ Gone(d)'
  BY <1>2 DEF LateOK, StayGone
<1>3. ASSUME lost' = 0, wiz'.draft \in late' PROVE \E c \in calls' : Asking(c, wiz'.draft, wiz'.n)
  <2>1. wiz'.draft # 0
    BY <1>2, <1>3
  <2>2. CASE AsksOn
    BY <1>3, <2>2 DEF LateOK, AsksOn
  <2> QED
    BY <2>1, <2>2
<1>4. lost' \in Nat
  BY DEF LateOK
<1> QED
  BY <1>1, <1>2, <1>3, <1>4 DEF LateOK, Asking

(* The wizard becomes w: a check of its draft that it keeps is kept.       *)
LEMMA LateTurn ==
  ASSUME IInv, LateOK, NEW w \in Wizard, NEW cs, Becomes(w, cs), UNCHANGED <<drafts, late, lost>>,
         \A x \in cs : x \in calls \/ x.status = "sent", \A x \in cs : x \in Asks(x.job),
         \/ w.draft = 0
         \/ w.open /\ \E x \in cs : Asking(x, w.draft, w.n)
         \/ w.open /\ w.draft = wiz.draft /\ w.n = wiz.n
            /\ \A x \in calls : Asking(x, w.draft, w.n) => x \in cs
  PROVE  LateOK'
<1>1. /\ wiz' = w /\ \A x \in calls' : x \in cs \/ x.op \in {"criteria", "refresh", "electors"}
      /\ \A x \in cs : Matters(x, w, step'.k) => x \in calls'
  BY BecomesFacts DEF Mounted
<1>2. \A x \in cs : w.open /\ Asking(x, w.draft, w.n) => x \in calls'
  BY <1>1, HeardMatters DEF Asking
<1>3. StayGone /\ Done
  BY <1>1 DEF StayGone, Done, Gone
<1>4. wiz'.draft = 0 \/ (\E x \in calls' : Asking(x, wiz'.draft, wiz'.n)) \/ AsksOn
  BY <1>1, <1>2 DEF AsksOn
<1> QED
  BY <1>3, <1>4, LateKept

(* The step asks something, or hears something.                            *)
LEMMA LateLocal ==
  ASSUME IInv, LateOK, wiz' = wiz, UNCHANGED <<drafts, late, lost>>,
         \A x \in calls' : x \in calls \/ x.status = "sent",
         \A x \in calls : x.op = "check" => x \in calls'
  PROVE  LateOK'
<1>1. StayGone /\ Done
  BY DEF StayGone, Done, Gone
<1>2. AsksOn
  BY DEF AsksOn, Asking
<1> QED
  BY <1>1, <1>2, LateKept

(* A click takes no draft but the one stored, and then asks about it.      *)
LEMMA LateClick ==
  ASSUME IInv, LateOK, Clicks
  PROVE  LateOK'
<1>1. /\ wiz \in Wizard /\ wiz.n \in Nat /\ wiz.draft \in 0..MaxDrafts /\ stored \in 0..MaxDrafts
      /\ wiz.draft # 0 => wiz.open
      /\ \A x \in calls : x \in Asks(x.job)
  BY StoredKnown DEF IInv, TypeOK, Wizard
<1>2. ASSUME NEW w \in Wizard, NEW cs, Becomes(w, cs), UNCHANGED <<drafts, late, lost>>,
             calls \subseteq cs, \A x \in cs \ calls : x \in Asks(x.job) /\ x.status = "sent",
             w.draft = 0 \/ (w.open /\ w.draft = wiz.draft /\ w.n = wiz.n)
      PROVE  LateOK'
  BY <1>1, <1>2, LateTurn
<1>3. ASSUME NEW w \in Wizard, Becomes(w, calls), UNCHANGED <<drafts, late, lost>>,
             w.draft = 0 \/ (w.open /\ w.draft = wiz.draft /\ w.n = wiz.n)
      PROVE  LateOK'
  BY <1>2, <1>3
<1>4. ASSUME wiz' = wiz, UNCHANGED <<drafts, late, lost>>, calls \subseteq calls',
             \A x \in calls' \ calls : x.status = "sent"
      PROVE  LateOK'
  BY <1>4, LateLocal
<1>5. [Nobody EXCEPT !.n = wiz.n] \in Wizard /\ [Nobody EXCEPT !.n = wiz.n].draft = 0
  BY <1>1, NobodyType
<1>6. CASE Open
  <2>1. PICK w, q, k : /\ w = [Nobody EXCEPT !.n = wiz.n + 1, !.open = TRUE, !.draft = stored]
                       /\ q = Call("quota", wiz.n + 1, 0, 0) /\ k = Call("check", wiz.n + 1, 0, stored)
    OBVIOUS
  <2>2. w \in Wizard /\ w.open /\ w.draft = stored /\ w.n = wiz.n + 1
    <3>1. PICK v : v = [Nobody EXCEPT !.n = wiz.n + 1]
      OBVIOUS
    <3>2. v \in Wizard /\ v.n = wiz.n + 1
      <4>1. PICK n \in Nat : n = wiz.n + 1
        BY <1>1
      <4> QED
        BY <3>1, <4>1, NobodyType
    <3>3. w = [v EXCEPT !.open = TRUE, !.draft = stored]
      BY <2>1, <3>1
    <3> QED
      BY <1>1, <3>2, <3>3 DEF Wizard
  <2>3. q \in Asks(q.job) /\ q.status = "sent"
    <3>1. "quota" \in Ops /\ 0 \in 0..MaxDrafts
      BY Constants DEF Ops
    <3> QED
      BY <2>1, <3>1, SentType
  <2>4. /\ k \in Asks(k.job) /\ k.op = "check" /\ k.status = "sent"
        /\ k.draft = stored /\ k.n = wiz.n + 1
    <3>1. "check" \in Ops
      BY DEF Ops
    <3> QED
      BY <1>1, <2>1, <3>1, SentType
  <2>5. PICK cs : cs = calls \cup {q} \cup (IF stored = 0 THEN {} ELSE {k})
    OBVIOUS
  <2>6. Becomes(w, cs) /\ UNCHANGED <<drafts, late, lost>>
    BY <1>6, <2>1, <2>5 DEF Open
  <2>7. stored # 0 => k \in cs /\ Asking(k, w.draft, w.n)
    BY <2>2, <2>4, <2>5 DEF Asking
  <2> QED
    BY <1>1, <2>2, <2>3, <2>4, <2>5, <2>6, <2>7, LateTurn
<1>7. CASE Leave
  BY <1>3, <1>5, <1>7 DEF Leave
<1>8. CASE handlePrevious \/ (\E at \in 1..5 : handleStepClick(at)) \/ handleCriteriaNext
  <2>1. PICK at \in Int : Becomes([wiz EXCEPT !.at = at], calls) /\ UNCHANGED <<drafts, late, lost>> /\ wiz.open
    <3>1. CASE handlePrevious
      <4>1. wiz.at - 1 \in Int /\ wiz.open
        BY <1>1, <3>1, ScreenIs DEF handlePrevious, On, Wizard
      <4> QED
        BY <3>1, <4>1 DEF handlePrevious
    <3>2. CASE handleCriteriaNext
      <4>1. wiz.at + 1 \in Int /\ wiz.open
        BY <1>1, <3>2, ScreenIs DEF handleCriteriaNext, On, Wizard
      <4> QED
        BY <3>2, <4>1 DEF handleCriteriaNext, Keep
    <3>3. ASSUME NEW at \in 1..5, handleStepClick(at)
          PROVE  \E i \in Int : Becomes([wiz EXCEPT !.at = i], calls) /\ UNCHANGED <<drafts, late, lost>> /\ wiz.open
      <4>1. wiz.open
        BY <1>1, <3>3, ScreenIs DEF handleStepClick
      <4> QED
        BY <3>3, <4>1 DEF handleStepClick
    <3> QED
      BY <1>8, <3>1, <3>2, <3>3
  <2>2. PICK w : w = [wiz EXCEPT !.at = at]
    OBVIOUS
  <2>3. w \in Wizard /\ w.open /\ w.draft = wiz.draft /\ w.n = wiz.n
    BY <1>1, <2>1, <2>2 DEF Wizard
  <2> QED
    BY <1>3, <2>1, <2>2, <2>3
<1>9. ASSUME NEW f \in Form, handleStep1Next(f) PROVE LateOK'
  <2>1. PICK w, x : /\ w = [wiz EXCEPT !.submitting = TRUE]
                    /\ x = [Call("draft", wiz.n, 0, wiz.draft) EXCEPT !.form = handleSubmit(f)]
    OBVIOUS
  <2>2. w \in Wizard /\ w.open /\ w.draft = wiz.draft /\ w.n = wiz.n
    BY <1>1, <1>9, <2>1, Clicked DEF handleStep1Next, Wizard
  <2>3. handleSubmit(f) \in Forms
    <3>1. f \in Forms /\ (f.accepts /\ f.mode = "public") \in BOOLEAN
      BY Constants
    <3>2. PICK b \in BOOLEAN : b = (f.accepts /\ f.mode = "public")
      BY <3>1
    <3>3. handleSubmit(f) = [f EXCEPT !.accepts = b]
      BY <3>2 DEF handleSubmit
    <3> QED
      BY <3>1, <3>3 DEF Forms
  <2>4. PICK y : y = Call("draft", wiz.n, 0, wiz.draft)
    OBVIOUS
  <2>5. y \in Asks(y.job) /\ y.status = "sent"
    <3>1. "draft" \in Ops
      BY DEF Ops
    <3> QED
      BY <1>1, <2>4, <3>1, SentType
  <2>6. x \in Asks(x.job) /\ x.status = "sent"
    BY <2>1, <2>3, <2>4, <2>5 DEF Asks
  <2>7. Becomes(w, calls \cup {x}) /\ UNCHANGED <<drafts, late, lost>>
    BY <1>9, <2>1 DEF handleStep1Next
  <2> QED
    BY <1>2, <2>2, <2>6, <2>7
<1>10. CASE handleSaveDraft
  <2>1. CASE wiz.draft = 0
    <3>1. PICK w : w = [wiz EXCEPT !.at = 1]
      OBVIOUS
    <3>2. w \in Wizard /\ w.draft = 0
      BY <1>1, <2>1, <3>1 DEF Wizard
    <3> QED
      BY <1>3, <1>10, <2>1, <3>1, <3>2 DEF handleSaveDraft
  <2>2. CASE wiz.draft # 0
    BY <1>3, <1>5, <1>10, <2>2 DEF handleSaveDraft
  <2> QED
    BY <2>1, <2>2
<1>11. CASE handlePublish
  <2>1. CASE wiz.draft = 0
    <3>1. PICK w, cs : w = [wiz EXCEPT !.at = 1] /\ cs = calls \cup {}
      OBVIOUS
    <3>2. w \in Wizard /\ w.draft = 0 /\ cs = calls
      BY <1>1, <2>1, <3>1 DEF Wizard
    <3>3. Becomes(w, cs) /\ UNCHANGED <<drafts, late, lost>>
      BY <1>11, <2>1, <3>1 DEF handlePublish
    <3> QED
      BY <1>3, <3>2, <3>3
  <2>2. CASE wiz.draft # 0
    <3>1. PICK w, x : w = [wiz EXCEPT !.submitting = TRUE] /\ x = Call("publish", wiz.n, 0, wiz.draft)
      OBVIOUS
    <3>2. w \in Wizard /\ w.open /\ w.draft = wiz.draft /\ w.n = wiz.n
      BY <1>1, <2>2, <3>1 DEF Wizard
    <3>3. x \in Asks(x.job) /\ x.status = "sent"
      <4>1. "publish" \in Ops
        BY DEF Ops
      <4> QED
        BY <1>1, <3>1, <4>1, SentType
    <3>4. Becomes(w, calls \cup {x}) /\ UNCHANGED <<drafts, late, lost>>
      BY <1>11, <2>2, <3>1 DEF handlePublish
    <3> QED
      BY <1>2, <3>2, <3>3, <3>4
  <2> QED
    BY <2>1, <2>2
<1>12. CASE ChangeCriteria \/ startServerImport \/ handleFileUpload \/ handleAddVotant
  <2>1. wiz' = wiz /\ UNCHANGED <<drafts, late, lost>>
    BY <1>12 DEF ChangeCriteria, startServerImport, handleFileUpload, handleAddVotant, Keep
  <2>2. calls \subseteq calls' /\ \A x \in calls' \ calls : x.status = "sent"
    BY <1>12 DEF ChangeCriteria, startServerImport, handleFileUpload, handleAddVotant, Call
  <2> QED
    BY <1>4, <2>1, <2>2
<1>13. CASE \/ \E rows \in File : handleImportFile(rows) \/ \E c \in rows : handleAddCandidat(c)
            \/ continueClientImport \/ \E c \in step.cands : handleRemoveCandidat(c)
  <2>1. UNCHANGED <<wiz, calls, drafts, late, lost>>
    BY <1>13 DEF handleImportFile, handleAddCandidat, continueClientImport, handleRemoveCandidat,
         WithStep, Keep
  <2> QED
    BY <1>4, <2>1
<1>14. CASE handleNext
  <2>1. UNCHANGED <<drafts, late, lost>> /\ wiz.open
    BY <1>14, Clicked DEF handleNext, Keep
  <2>2. CASE {c \in step.cands : ~c.on} = {}
    <3>1. PICK w : w = [wiz EXCEPT !.cands = step.cands, !.at = @ + 1]
      OBVIOUS
    <3>2. w \in Wizard /\ w.open /\ w.draft = wiz.draft /\ w.n = wiz.n
      <4>1. PICK cs \in SUBSET Candidates : cs = step.cands
        BY DEF IInv, TypeOK, Step
      <4>2. PICK at \in Int : at = wiz.at + 1
        BY <1>1 DEF Wizard
      <4>3. w = [wiz EXCEPT !.cands = cs, !.at = at]
        BY <3>1, <4>1, <4>2
      <4> QED
        BY <1>1, <2>1, <4>3 DEF Wizard
    <3> QED
      BY <1>3, <1>14, <2>1, <2>2, <3>1, <3>2 DEF handleNext
  <2>3. CASE {c \in step.cands : ~c.on} # {}
    <3>1. PICK todo, y, x : /\ todo = {c \in step.cands : ~c.on} /\ y = Call("create", wiz.n, step.k, wiz.draft)
                            /\ x = [y EXCEPT !.rows = todo, !.all = step.cands]
      OBVIOUS
    <3>2. wiz' = wiz /\ calls' = calls \cup {x}
      BY <1>14, <2>3, <3>1 DEF handleNext
    <3>3. x.status = "sent"
      BY <3>1 DEF Call
    <3> QED
      BY <1>4, <2>1, <3>2, <3>3
  <2> QED
    BY <2>2, <2>3
<1>15. ASSUME NEW grouped \in BOOLEAN, handleVotersNext(grouped) PROVE LateOK'
  <2>1. PICK given : given = IF grouped THEN step.preview ELSE step.manual
    OBVIOUS
  <2>2. given \in BOOLEAN /\ (~grouped /\ step.manual) \in BOOLEAN
    BY <2>1 DEF IInv, TypeOK, Step
  <2>3. PICK w : w = [wiz EXCEPT !.at = @ + 1, !.preview = given, !.manual = ~grouped /\ step.manual]
    OBVIOUS
  <2>4. wiz.open /\ Becomes(w, calls) /\ UNCHANGED <<drafts, late, lost>>
    BY <1>15, <2>1, <2>3, Clicked DEF handleVotersNext, Keep
  <2>5. w \in Wizard /\ w.open /\ w.draft = wiz.draft /\ w.n = wiz.n
    <3>1. PICK b \in BOOLEAN : b = (~grouped /\ step.manual)
      BY <2>2
    <3>2. PICK at \in Int : at = wiz.at + 1
      BY <1>1 DEF Wizard
    <3>3. w = [wiz EXCEPT !.at = at, !.preview = given, !.manual = b]
      BY <2>3, <3>1, <3>2
    <3> QED
      BY <1>1, <2>2, <2>4, <3>3 DEF Wizard
  <2> QED
    BY <1>3, <2>4, <2>5
<1> QED
  BY <1>6, <1>7, <1>8, <1>9, <1>10, <1>11, <1>12, <1>13, <1>14, <1>15 DEF Clicks

(* The server answers c by d.                                              *)
LEMMA LateReply ==
  ASSUME IInv, LateOK, NEW c \in calls, NEW d, Set(c, d), UNCHANGED <<wiz, late>>,
         lost' = lost \/ (lost' # 0 /\ lost' \in Nat), StayGone, d.op = c.op,
         d.op = "publish" /\ d.status = "ok" => Gone(d.draft)',
         c.op = "check" => d.n = c.n /\ d.draft = c.draft /\ d.status = "ok"
                           /\ (Gone(c.draft) => ~d.yes)
  PROVE  LateOK'
<1>1. \A x \in calls' : x \in calls \/ x = d
  BY DEF Set
<1>2. Done
  BY <1>1 DEF Done
<1>3. ASSUME NEW x \in (calls \ {c}) \cup {d}, wiz.open, x.op = "check", x.n = wiz.n PROVE x \in calls'
  BY <1>3, HeardMatters DEF Set
<1>4. wiz.draft \in late => wiz.open
  <2>1. wiz.draft \in late => wiz.draft # 0
    BY DEF LateOK
  <2> QED
    BY <2>1, StoredKnown DEF IInv
<1>5. AsksOn
  <2> SUFFICES ASSUME wiz.draft \in late, NEW x \in calls, Asking(x, wiz.draft, wiz.n)
      PROVE  \E y \in calls' : Asking(y, wiz.draft, wiz.n)
    BY DEF AsksOn
  <2>1. CASE x # c
    BY <1>3, <1>4, <2>1 DEF Asking
  <2>2. CASE x = c
    <3>1. Gone(c.draft) /\ d.n = wiz.n /\ d.draft = wiz.draft /\ d.status = "ok" /\ d.op = "check"
      BY <2>2 DEF Asking, LateOK
    <3>2. Asking(d, wiz.draft, wiz.n)
      BY <2>2, <3>1 DEF Asking
    <3> QED
      BY <1>3, <1>4, <3>1, <3>2
  <2> QED
    BY <2>1, <2>2
<1>6. CASE lost' = lost
  BY <1>2, <1>5, <1>6, LateKept
<1>7. CASE lost' # 0 /\ lost' \in Nat
  <2>1. ASSUME NEW x \in calls', x.op = "publish", x.status = "ok" PROVE Gone(x.draft)'
    <3>1. x \in calls => x.draft \in 1..MaxDrafts /\ Gone(x.draft)
      BY <2>1, CallFacts DEF LateOK
    <3> QED
      BY <1>2, <2>1, <3>1 DEF Done, StayGone
  <2>2. \A e \in late' : e \in 1..MaxDrafts /\ Gone(e)'
    BY DEF LateOK, StayGone
  <2> QED
    BY <1>7, <2>1, <2>2 DEF LateOK
<1> QED
  BY <1>6, <1>7

(* Whoever changes the drafts revives none.                                *)
LEMMA StayGoneFacts ==
  ASSUME IInv
  PROVE  /\ UNCHANGED drafts => StayGone
         /\ \A e \in 1..MaxDrafts : \A v : /\ Gone(e) => v.status = drafts[e].status
                                           /\ drafts' = [drafts EXCEPT ![e] = v]
                                           => StayGone
<1>1. drafts \in [1..MaxDrafts -> Draft]
  BY DEF IInv, TypeOK
<1>2. ASSUME NEW e \in 1..MaxDrafts, NEW v, Gone(e) => v.status = drafts[e].status,
             drafts' = [drafts EXCEPT ![e] = v]
      PROVE  StayGone
  BY <1>1, <1>2 DEF StayGone, Gone
<1> QED
  BY <1>2 DEF StayGone, Gone

(* The server, or the answer that is lost.                                 *)
LEMMA LateServe ==
  ASSUME IInv, LateOK, NEW c \in calls, Serve(c) \/ Lose(c)
  PROVE  LateOK'
<1>1. /\ drafts \in [1..MaxDrafts -> Draft] /\ c \in Asks(c.job)
      /\ c.op \notin {"draft", "quota"} => c.draft \in 1..MaxDrafts
      /\ c.draft # 0 => c.draft \in 1..MaxDrafts
  BY CallFacts DEF IInv, TypeOK
<1>2. ASSUME Serve(c) PROVE UNCHANGED <<wiz, late, lost>>
  BY <1>2 DEF Serve, ServeCheck, ServeDraft, ServeCriterion, ServeRefresh, ServeCreate, ServeImport,
     ServePoll, ServeElector, ServePublish, Client
<1>3. Ok(c).op = c.op /\ Refused(c).op = c.op
  BY <1>1, OkType DEF Heir
<1>4. ASSUME NEW d, Set(c, d), Serve(c), d.op = c.op, c.op \notin {"check", "publish"}, StayGone PROVE LateOK'
  BY <1>2, <1>4, LateReply
<1>5. CASE ServeCheck(c)
  <2>1. PICK d : d = [Ok(c) EXCEPT !.yes = drafts[c.draft].status = "draft"]
    OBVIOUS
  <2>2. /\ d.op = c.op /\ d.n = c.n /\ d.draft = c.draft /\ d.status = "ok"
        /\ d.yes = (drafts[c.draft].status = "draft")
    BY <1>1, <2>1 DEF Ok, Asks
  <2>3. Gone(c.draft) => ~d.yes
    BY <2>2 DEF Gone
  <2>4. Set(c, d) /\ StayGone /\ c.op = "check" /\ UNCHANGED <<wiz, late, lost>>
    BY <1>5, <2>1, StayGoneFacts DEF ServeCheck, Client
  <2> QED
    BY <2>2, <2>3, <2>4, LateReply
<1>6. CASE ServeDraft(c)
  <2>0. c.op = "draft" /\ Serve(c)
    BY <1>6 DEF ServeDraft, Serve
  <2>1. CASE c.draft = 0
    <3>1. PICK d \in Unused : /\ drafts' = [drafts EXCEPT ![d] = [Nothing EXCEPT !.status = "draft", !.form = c.form]]
                              /\ Set(c, [Ok(c) EXCEPT !.id = d])
      BY <1>6, <2>1 DEF ServeDraft
    <3>2. d \in 1..MaxDrafts /\ ~Gone(d)
      BY <3>1 DEF Unused, Gone
    <3>3. StayGone
      BY <3>1, <3>2, StayGoneFacts
    <3>4. [Ok(c) EXCEPT !.id = d].op = c.op
      BY <1>1 DEF Ok, Asks
    <3> QED
      BY <1>4, <2>0, <3>1, <3>3, <3>4
  <2>2. CASE c.draft # 0 /\ drafts[c.draft].status = "draft"
    <3>1. drafts' = [drafts EXCEPT ![c.draft].form = c.form] /\ Set(c, [Ok(c) EXCEPT !.id = c.draft])
      BY <1>6, <2>2 DEF ServeDraft
    <3>2. PICK v : v = [drafts[c.draft] EXCEPT !.form = c.form]
      OBVIOUS
    <3>3. drafts' = [drafts EXCEPT ![c.draft] = v] /\ ~Gone(c.draft)
      BY <2>2, <3>1, <3>2 DEF Gone
    <3>4. StayGone
      BY <1>1, <2>2, <3>3, StayGoneFacts
    <3>5. [Ok(c) EXCEPT !.id = c.draft].op = c.op
      BY <1>1 DEF Ok, Asks
    <3> QED
      BY <1>4, <2>0, <3>1, <3>4, <3>5
  <2>3. CASE c.draft # 0 /\ drafts[c.draft].status # "draft"
    <3>1. UNCHANGED drafts /\ Set(c, Refused(c))
      BY <1>6, <2>3 DEF ServeDraft
    <3> QED
      BY <1>3, <1>4, <2>0, <3>1, StayGoneFacts
  <2> QED
    BY <2>1, <2>2, <2>3
<1>7. CASE ServeCriterion(c) \/ ServeElector(c)
  <2>0. c.op \in {"criterion", "elector"} /\ Serve(c)
    BY <1>7 DEF ServeCriterion, ServeElector, Serve
  <2>1. \/ UNCHANGED drafts /\ Set(c, Refused(c))
        \/ (\E some : drafts' = [drafts EXCEPT ![c.draft].criteria = some]) /\ Set(c, Ok(c))
        \/ drafts' = [drafts EXCEPT ![c.draft].voters = TRUE] /\ Set(c, Ok(c))
    BY <1>7 DEF ServeCriterion, ServeElector
  <2>2. c.draft \in 1..MaxDrafts /\ drafts[c.draft] \in Draft
    BY <1>1, <2>0
  <2>3. ASSUME NEW some, drafts' = [drafts EXCEPT ![c.draft].criteria = some] PROVE StayGone
    <3>1. PICK v : v = [drafts[c.draft] EXCEPT !.criteria = some]
      OBVIOUS
    <3>2. v.status = drafts[c.draft].status /\ drafts' = [drafts EXCEPT ![c.draft] = v]
      BY <2>2, <2>3, <3>1 DEF Draft
    <3> QED
      BY <2>2, <3>2, StayGoneFacts
  <2>4. ASSUME drafts' = [drafts EXCEPT ![c.draft].voters = TRUE] PROVE StayGone
    <3>1. PICK v : v = [drafts[c.draft] EXCEPT !.voters = TRUE]
      OBVIOUS
    <3>2. v.status = drafts[c.draft].status /\ drafts' = [drafts EXCEPT ![c.draft] = v]
      BY <2>2, <2>4, <3>1 DEF Draft
    <3> QED
      BY <2>2, <3>2, StayGoneFacts
  <2>5. StayGone
    BY <2>1, <2>3, <2>4, StayGoneFacts
  <2> QED
    BY <1>3, <1>4, <2>0, <2>1, <2>5
<1>8. CASE ServeRefresh(c) \/ ServeImport(c) \/ ServePoll(c)
  <2>0. c.op \in {"refresh", "import", "enroll", "poll"} /\ Serve(c) /\ UNCHANGED drafts
    BY <1>8 DEF ServeRefresh, ServeImport, ServePoll, Serve
  <2>1. \E d : Set(c, d) /\ d.op = c.op
    <3>1. ASSUME NEW rows PROVE [Ok(c) EXCEPT !.list = rows].op = c.op
      BY <1>1 DEF Ok, Asks
    <3>2. ASSUME NEW i PROVE [Ok(c) EXCEPT !.job = i].op = c.op
      BY <1>1 DEF Ok, Asks
    <3>3. ASSUME NEW b PROVE [Ok(c) EXCEPT !.yes = b].op = c.op
      BY <1>1 DEF Ok, Asks
    <3>4. \/ Set(c, Refused(c))
          \/ \E rows : Set(c, [Ok(c) EXCEPT !.list = rows])
          \/ \E i : Set(c, [Ok(c) EXCEPT !.job = i])
          \/ \E b : Set(c, [Ok(c) EXCEPT !.yes = b])
      <4>1. CASE ServeRefresh(c)
        BY <4>1 DEF ServeRefresh
      <4>2. CASE ServeImport(c)
        BY <4>2 DEF ServeImport
      <4>3. CASE ServePoll(c)
        BY <4>3 DEF ServePoll
      <4> QED
        BY <1>8, <4>1, <4>2, <4>3
    <3>5. CASE \E rows : Set(c, [Ok(c) EXCEPT !.list = rows])
      <4>1. PICK rows : Set(c, [Ok(c) EXCEPT !.list = rows])
        BY <3>5
      <4>2. [Ok(c) EXCEPT !.list = rows].op = c.op
        BY <3>1
      <4> QED
        BY <4>1, <4>2, ZenonT(30)
    <3>6. CASE \E i : Set(c, [Ok(c) EXCEPT !.job = i])
      <4>1. PICK i : Set(c, [Ok(c) EXCEPT !.job = i])
        BY <3>6
      <4>2. [Ok(c) EXCEPT !.job = i].op = c.op
        BY <3>2
      <4> QED
        BY <4>1, <4>2, ZenonT(30)
    <3>7. CASE \E b : Set(c, [Ok(c) EXCEPT !.yes = b])
      <4>1. PICK b : Set(c, [Ok(c) EXCEPT !.yes = b])
        BY <3>7
      <4>2. [Ok(c) EXCEPT !.yes = b].op = c.op
        BY <3>3
      <4> QED
        BY <4>1, <4>2, ZenonT(30)
    <3> QED
      BY <1>3, <3>4, <3>5, <3>6, <3>7
  <2> QED
    BY <1>4, <2>0, <2>1, StayGoneFacts
<1>9. ASSUME NEW x \in c.rows, ServeCreate(c, x) PROVE LateOK'
  <2>0. c.op = "create" /\ Serve(c)
    BY <1>9 DEF ServeCreate, Serve
  <2>1. \E d : Set(c, d) /\ d.op = c.op
    <3>1. ASSUME NEW a, NEW b PROVE [c EXCEPT !.rows = a, !.made = b].op = c.op
      BY <1>1 DEF Asks
    <3>2. ASSUME NEW a PROVE [c EXCEPT !.rows = a].op = c.op
      BY <1>1 DEF Asks
    <3>3. \/ \E a, b : Set(c, [c EXCEPT !.rows = a, !.made = b])
          \/ \E a : Set(c, [c EXCEPT !.rows = a])
      BY <1>9 DEF ServeCreate
    <3>4. CASE \E a, b : Set(c, [c EXCEPT !.rows = a, !.made = b])
      <4>1. PICK a, b : Set(c, [c EXCEPT !.rows = a, !.made = b])
        BY <3>4
      <4>2. [c EXCEPT !.rows = a, !.made = b].op = c.op
        BY <3>1
      <4> QED
        BY <4>1, <4>2, ZenonT(30)
    <3>5. CASE \E a : Set(c, [c EXCEPT !.rows = a])
      <4>1. PICK a : Set(c, [c EXCEPT !.rows = a])
        BY <3>5
      <4>2. [c EXCEPT !.rows = a].op = c.op
        BY <3>2
      <4> QED
        BY <4>1, <4>2, ZenonT(30)
    <3> QED
      BY <3>3, <3>4, <3>5
  <2>2. StayGone
    <3>1. CASE UNCHANGED drafts
      BY <3>1, StayGoneFacts
    <3>2. CASE drafts' = [drafts EXCEPT ![c.draft].cands = @ \cup OnServer({x})]
      <4>1. PICK v : v = [drafts[c.draft] EXCEPT !.cands = @ \cup OnServer({x})]
        OBVIOUS
      <4>2. c.draft \in 1..MaxDrafts /\ drafts[c.draft] \in Draft
        BY <1>1, <2>0
      <4>3. v.status = drafts[c.draft].status /\ drafts' = [drafts EXCEPT ![c.draft] = v]
        BY <3>2, <4>1, <4>2 DEF Draft
      <4> QED
        BY <4>2, <4>3, StayGoneFacts
    <3> QED
      BY <1>9, <3>1, <3>2 DEF ServeCreate
  <2> QED
    BY <1>4, <2>0, <2>1, <2>2
<1>10. CASE ServePublish(c)
  <2>0. c.op = "publish" /\ Serve(c) /\ c.draft \in 1..MaxDrafts /\ UNCHANGED <<wiz, late, lost>>
    BY <1>1, <1>2, <1>10 DEF ServePublish, Serve
  <2>1. CASE Publishable(c.draft)
    <3>1. drafts' = [drafts EXCEPT ![c.draft].status = "published"] /\ Set(c, Ok(c))
      BY <1>10, <2>1 DEF ServePublish
    <3>2. drafts[c.draft] \in Draft /\ Ok(c).draft = c.draft
      BY <1>1, <2>0, OkType DEF Heir
    <3>3. drafts'[c.draft].status = "published"
      BY <1>1, <2>0, <3>1, <3>2 DEF Draft
    <3>4. StayGone
      <4>1. PICK s \in {"published", "deleted"} :
               drafts[c.draft].status = "draft" /\ drafts' = [drafts EXCEPT ![c.draft].status = s]
        BY <2>1, <3>1 DEF Publishable
      <4>2. Grow
        BY <2>0, <4>1, TakenStep
      <4>3. \A d \in 1..MaxDrafts : Gone(d) => Known(d)
        BY DEF Gone, Known
      <4> QED
        BY <4>2, <4>3 DEF Grow, StayGone
    <3> QED
      BY <1>3, <2>0, <3>1, <3>2, <3>3, <3>4, LateReply DEF Gone
  <2>2. CASE ~Publishable(c.draft)
    <3>1. PICK d, plan : d = [Refused(c) EXCEPT !.yes = plan] /\ Set(c, d) /\ UNCHANGED drafts
      BY <1>10, <2>2 DEF ServePublish
    <3>2. d.op = c.op /\ d.status = "refused"
      BY <1>1, <3>1 DEF Refused, Asks
    <3> QED
      BY <2>0, <3>1, <3>2, StayGoneFacts, LateReply
  <2> QED
    BY <2>1, <2>2
<1>11. CASE Lose(c)
  <2>1. UNCHANGED <<drafts, wiz, late>> /\ lost' # 0 /\ lost' \in Nat
    <3>1. UNCHANGED <<drafts, wiz, late>> /\ lost' = lost + 1
      BY <1>11 DEF Lose
    <3>2. lost \in Nat
      BY DEF LateOK
    <3> QED
      BY <3>1, <3>2
  <2>2. \A x \in calls' : x \in calls \/ x.status = "lost" \/ x.op = "create"
    <3>1. [c EXCEPT !.status = "lost"].status = "lost"
      BY <1>1 DEF Asks
    <3>2. ASSUME NEW a, NEW b PROVE [c EXCEPT !.made = a, !.rows = b].op = c.op
      BY <1>1 DEF Asks
    <3>3. \/ Set(c, [c EXCEPT !.status = "lost"])
          \/ calls' = calls \ {c}
          \/ c.op = "create" /\ \E a, b : Set(c, [c EXCEPT !.made = a, !.rows = b])
      BY <1>11 DEF Lose
    <3>4. CASE Set(c, [c EXCEPT !.status = "lost"])
      BY <3>1, <3>4 DEF Set
    <3>5. CASE c.op = "create" /\ \E a, b : Set(c, [c EXCEPT !.made = a, !.rows = b])
      BY <3>2, <3>5 DEF Set
    <3> QED
      BY <3>3, <3>4, <3>5
  <2>3. ASSUME NEW x \in calls', x.op = "publish", x.status = "ok" PROVE Gone(x.draft)'
    BY <2>1, <2>2, <2>3 DEF LateOK, Gone
  <2>4. \A e \in late' : e \in 1..MaxDrafts /\ Gone(e)'
    BY <2>1 DEF LateOK, Gone
  <2> QED
    BY <2>1, <2>3, <2>4 DEF LateOK
<1> QED
  BY <1>5, <1>6, <1>7, <1>8, <1>9, <1>10, <1>11 DEF Serve

(* The queue, and the others.                                              *)
LEMMA LateOthers ==
  ASSUME IInv, LateOK, (\E j \in jobs : Work(j)) \/ \E e \in 1..MaxDrafts : Other(e)
  PROVE  LateOK'
<1>1. UNCHANGED <<wiz, calls, late, lost>>
  BY DEF Work, Other, Client
<1>2. AsksOn /\ Done
  BY <1>1 DEF AsksOn, Done
<1>3. ASSUME NEW j \in jobs, Work(j) PROVE StayGone
  <2>1. j.draft \in 1..MaxDrafts /\ drafts[j.draft] \in Draft
    BY DEF IInv, TypeOK, Import
  <2>2. \/ UNCHANGED drafts
        \/ \E cs : drafts' = [drafts EXCEPT ![j.draft].cands = cs]
        \/ drafts' = [drafts EXCEPT ![j.draft].voters = TRUE]
    BY <1>3 DEF Work
  <2>3. ASSUME NEW v, v.status = drafts[j.draft].status, drafts' = [drafts EXCEPT ![j.draft] = v] PROVE StayGone
    BY <2>1, <2>3, StayGoneFacts
  <2>4. ASSUME NEW cs, drafts' = [drafts EXCEPT ![j.draft].cands = cs] PROVE StayGone
    <3>1. PICK v : v = [drafts[j.draft] EXCEPT !.cands = cs]
      OBVIOUS
    <3>2. v.status = drafts[j.draft].status /\ drafts' = [drafts EXCEPT ![j.draft] = v]
      BY <2>1, <2>4, <3>1 DEF Draft
    <3> QED
      BY <2>3, <3>2
  <2>5. ASSUME drafts' = [drafts EXCEPT ![j.draft].voters = TRUE] PROVE StayGone
    <3>1. PICK v : v = [drafts[j.draft] EXCEPT !.voters = TRUE]
      OBVIOUS
    <3>2. v.status = drafts[j.draft].status /\ drafts' = [drafts EXCEPT ![j.draft] = v]
      BY <2>1, <2>5, <3>1 DEF Draft
    <3> QED
      BY <2>3, <3>2
  <2> QED
    BY <2>2, <2>4, <2>5, StayGoneFacts
<1>4. ASSUME NEW e \in 1..MaxDrafts, Other(e) PROVE StayGone
  <2>1. PICK s \in {"published", "deleted"} :
           drafts[e].status = "draft" /\ drafts' = [drafts EXCEPT ![e].status = s]
    BY <1>4 DEF Other, Publishable
  <2>2. Grow
    BY <2>1, TakenStep
  <2>3. \A d \in 1..MaxDrafts : Gone(d) => Known(d)
    BY DEF Gone, Known
  <2> QED
    BY <2>2, <2>3 DEF Grow, StayGone
<1>5. StayGone
  BY <1>3, <1>4
<1> QED
  BY <1>1, <1>2, <1>5, LateKept

(* An answer: a draft that the wizard hears of is asked about at once, and *)
(* only a publication that nobody waits for is late.                       *)
LEMMA LateHear ==
  ASSUME IInv, LateOK, NEW c \in calls, Answer(c)
  PROVE  LateOK'
<1>1. /\ wiz \in Wizard /\ wiz.n \in Nat /\ c \in Asks(c.job)
      /\ wiz.draft # 0 => wiz.open
      /\ \A x \in calls : x \in Asks(x.job)
  BY StoredKnown DEF IInv, TypeOK, Wizard
<1>2. UNCHANGED <<drafts, lost>>
  BY DEF Answer, HearCheck, HearQuota, HearDraft, HearCriteria, HearCriterion, HearRefresh, HearCreate,
     HearImport, HearPoll, HearElectors, HearElector, HearPublish, Hear, HearStep, Server
<1>3. ASSUME NEW w \in Wizard, Becomes(w, (calls \ {c}) \cup {}), late' = late,
             c.op # "check", w.draft = wiz.draft, w.n = wiz.n, w.open = wiz.open
      PROVE  LateOK'
  <2>1. PICK cs : cs = (calls \ {c}) \cup {}
    OBVIOUS
  <2>2. Becomes(w, cs) /\ cs \subseteq calls /\ \A x \in calls : Asking(x, w.draft, w.n) => x \in cs
    BY <1>3, <2>1 DEF Asking
  <2> QED
    BY <1>1, <1>2, <1>3, <2>2, LateTurn
<1>4. ASSUME NEW s, NEW cs, HearStep(c, s, cs), c.op # "check", \A x \in cs : x \in calls \/ x.status = "sent"
      PROVE  LateOK'
  <2>1. wiz' = wiz /\ late' = late
    BY <1>4 DEF HearStep
  <2>2. \A x \in calls' : x \in calls \/ x.status = "sent"
    BY <1>4 DEF HearStep
  <2>3. \A x \in calls : x.op = "check" => x \in calls'
    BY <1>4 DEF HearStep
  <2> QED
    BY <1>2, <2>1, <2>2, <2>3, LateLocal
<1>5. CASE HearCheck(c)
  <2>1. CASE c.yes
    <3>1. Becomes(wiz, (calls \ {c}) \cup {}) /\ late' = late /\ c.status = "ok" /\ wiz.open
      BY <1>5, <2>1 DEF HearCheck, Hear, Here
    <3>2. PICK cs : cs = (calls \ {c}) \cup {}
      OBVIOUS
    <3>3. Becomes(wiz, cs) /\ cs \subseteq calls /\ \A x \in calls : Asking(x, wiz.draft, wiz.n) => x \in cs
      BY <2>1, <3>1, <3>2 DEF Asking
    <3> QED
      BY <1>1, <1>2, <3>1, <3>3, LateTurn
  <2>2. CASE ~c.yes
    <3>1. PICK w, cs : w = [wiz EXCEPT !.draft = 0] /\ Becomes(w, cs) /\ cs \subseteq calls /\ late' = late
      BY <1>5, <2>2 DEF HearCheck
    <3>2. w \in Wizard /\ w.draft = 0
      <4>1. 0 \in 0..MaxDrafts
        BY Constants
      <4> QED
        BY <1>1, <3>1, <4>1 DEF Wizard
    <3> QED
      BY <1>1, <1>2, <3>1, <3>2, LateTurn
  <2> QED
    BY <2>1, <2>2
<1>6. CASE HearQuota(c)
  <2>1. PICK b \in BOOLEAN : b = (wiz.blocked \/ Cardinality(Elections) >= MaxElections)
    BY <1>1 DEF Wizard
  <2>2. PICK w : w = [wiz EXCEPT !.blocked = b]
    OBVIOUS
  <2>3. w \in Wizard /\ w.draft = wiz.draft /\ w.n = wiz.n /\ w.open = wiz.open
    BY <1>1, <2>1, <2>2 DEF Wizard
  <2>4. Becomes(w, (calls \ {c}) \cup {}) /\ late' = late /\ c.op # "check"
    BY <1>6, <2>1, <2>2 DEF HearQuota, Hear
  <2> QED
    BY <1>3, <2>3, <2>4
<1>7. CASE HearDraft(c)
  <2>1. c.op = "draft" /\ late' = late /\ wiz.open /\ c.form \in Forms /\ c.id \in 0..MaxDrafts
    BY <1>1, <1>7 DEF HearDraft, Here, Asks
  <2>0. ASSUME NEW f \in Forms, NEW d \in 0..MaxDrafts
        PROVE  LET w == [wiz EXCEPT !.general = f, !.at = 2, !.submitting = FALSE, !.draft = d]
               IN  w \in Wizard /\ w.draft = d /\ w.n = wiz.n /\ w.open = wiz.open
    <3>1. PICK a : a = [wiz EXCEPT !.general = f, !.at = 2]
      OBVIOUS
    <3>2. a \in Wizard /\ a.n = wiz.n /\ a.open = wiz.open
      <4>1. PICK at \in Int : at = 2
        OBVIOUS
      <4>2. PICK v : v = [wiz EXCEPT !.at = at]
        OBVIOUS
      <4>3. v \in Wizard /\ v.n = wiz.n /\ v.open = wiz.open
        BY <1>1, <4>2 DEF Wizard
      <4>4. a = [v EXCEPT !.general = f]
        BY <3>1, <4>1, <4>2
      <4> QED
        BY <4>3, <4>4 DEF Wizard
    <3>3. PICK b : b = [a EXCEPT !.submitting = FALSE, !.draft = d]
      OBVIOUS
    <3>4. b \in Wizard /\ b.draft = d /\ b.n = wiz.n /\ b.open = wiz.open
      BY <3>2, <3>3 DEF Wizard
    <3>5. b = [wiz EXCEPT !.general = f, !.at = 2, !.submitting = FALSE, !.draft = d]
      BY <3>1, <3>3
    <3> QED
      BY <3>4, <3>5
  <2>2. CASE c.status # "ok"
    <3>1. PICK w : w = [wiz EXCEPT !.submitting = FALSE]
      OBVIOUS
    <3>2. w \in Wizard /\ w.draft = wiz.draft /\ w.n = wiz.n /\ w.open = wiz.open
      BY <1>1, <3>1 DEF Wizard
    <3>3. Becomes(w, (calls \ {c}) \cup {})
      BY <1>7, <2>2, <3>1 DEF HearDraft, Hear
    <3> QED
      BY <1>3, <2>1, <3>2, <3>3
  <2>3. CASE c.status = "ok" /\ c.draft # 0
    <3>1. PICK w : w = [wiz EXCEPT !.general = c.form, !.at = 2, !.submitting = FALSE, !.draft = wiz.draft]
      OBVIOUS
    <3>2. w \in Wizard /\ w.draft = wiz.draft /\ w.n = wiz.n /\ w.open = wiz.open
      BY <1>1, <2>0, <2>1, <3>1 DEF Wizard
    <3>3. Becomes(w, (calls \ {c}) \cup {})
      BY <1>7, <2>3, <3>1 DEF HearDraft, Hear
    <3> QED
      BY <1>3, <2>1, <3>2, <3>3
  <2>4. CASE c.status = "ok" /\ c.draft = 0
    <3>1. PICK w, x, cs : /\ w = [wiz EXCEPT !.general = c.form, !.at = 2, !.submitting = FALSE, !.draft = c.id]
                          /\ x = Call("check", wiz.n, 0, c.id) /\ cs = (calls \ {c}) \cup {x}
      OBVIOUS
    <3>2. w \in Wizard /\ w.draft = c.id /\ w.n = wiz.n /\ w.open
      BY <1>1, <2>0, <2>1, <3>1 DEF Wizard
    <3>3. Becomes(w, cs)
      BY <1>7, <2>4, <3>1 DEF HearDraft, Hear
    <3>4. x \in Asks(x.job) /\ x.op = "check" /\ x.n = wiz.n /\ x.draft = c.id /\ x.status = "sent"
      <4>1. "check" \in Ops
        BY DEF Ops
      <4> QED
        BY <2>1, <3>1, <4>1, SentType
    <3>5. x \in cs /\ Asking(x, w.draft, w.n)
      BY <3>1, <3>2, <3>4 DEF Asking
    <3>6. \A y \in cs : (y \in calls \/ y.status = "sent") /\ y \in Asks(y.job)
      BY <1>1, <3>1, <3>4
    <3> QED
      BY <1>2, <2>1, <3>2, <3>3, <3>5, <3>6, LateTurn
  <2> QED
    BY <2>2, <2>3, <2>4
<1>8. CASE HearCriteria(c) \/ HearCriterion(c) \/ HearRefresh(c) \/ HearElectors(c) \/ HearElector(c)
  <2>1. PICK s, cs : /\ HearStep(c, s, cs)
                     /\ cs \in {{}, {c}, {Call("criteria", c.n, c.k, c.draft)}}
    BY <1>8 DEF HearCriteria, HearCriterion, HearRefresh, HearElectors, HearElector
  <2>2. c.op # "check"
    BY <1>8 DEF HearCriteria, HearCriterion, HearRefresh, HearElectors, HearElector
  <2>3. \A x \in cs : x \in calls \/ x.status = "sent"
    BY <2>1 DEF Call
  <2> QED
    BY <1>4, <2>1, <2>2, <2>3
<1>9. CASE HearImport(c)
  <2>1. PICK s, cs : /\ HearStep(c, s, cs)
                     /\ cs \in {{}, {[Call("poll", c.n, c.k, c.draft) EXCEPT !.job = c.job]}}
    BY <1>9 DEF HearImport
  <2>2. c.op # "check" /\ \A x \in cs : x \in calls \/ x.status = "sent"
    BY <1>9, <2>1 DEF HearImport, Call
  <2> QED
    BY <1>4, <2>1, <2>2
<1>10. CASE HearPoll(c)
  <2>1. PICK s, cs : /\ HearStep(c, s, cs)
                     /\ cs \in {{}, {Call("refresh", c.n, c.k, c.draft)},
                                {[Call("poll", c.n, c.k, c.draft) EXCEPT !.job = c.job]}}
    BY <1>10 DEF HearPoll
  <2>2. c.op # "check" /\ \A x \in cs : x \in calls \/ x.status = "sent"
    BY <1>10, <2>1 DEF HearPoll, Call
  <2> QED
    BY <1>4, <2>1, <2>2
<1>11. CASE HearCreate(c)
  <2>1. CASE {x \in c.all : ~x.on} \subseteq c.made
    <3>1. PICK w : w = IF Here(c) THEN [wiz EXCEPT !.cands = OnServer(c.all), !.at = @ + 1] ELSE wiz
      OBVIOUS
    <3>2. OnServer(c.all) \in SUBSET Candidates
      BY <1>1, OnServerType DEF Asks
    <3>3. w \in Wizard /\ w.draft = wiz.draft /\ w.n = wiz.n /\ w.open = wiz.open
      <4>1. PICK cs \in SUBSET Candidates : cs = OnServer(c.all)
        BY <3>2
      <4>2. PICK at \in Int : at = wiz.at + 1
        BY <1>1 DEF Wizard
      <4>3. w = IF Here(c) THEN [wiz EXCEPT !.cands = cs, !.at = at] ELSE wiz
        BY <3>1, <4>1, <4>2
      <4> QED
        BY <1>1, <4>3 DEF Wizard
    <3>4. Becomes(w, (calls \ {c}) \cup {}) /\ late' = late /\ c.op # "check"
      BY <1>11, <2>1, <3>1 DEF HearCreate, Hear
    <3> QED
      BY <1>3, <3>3, <3>4
  <2>2. CASE ~({x \in c.all : ~x.on} \subseteq c.made)
    <3>1. PICK s, cs : HearStep(c, s, cs) /\ cs = {} /\ c.op # "check"
      BY <1>11, <2>2 DEF HearCreate
    <3> QED
      BY <1>4, <3>1
  <2> QED
    BY <2>1, <2>2
<1>12. CASE HearPublish(c)
  <2>1. c.op = "publish" /\ c.draft \in 1..MaxDrafts
    BY <1>12, CallFacts DEF HearPublish
  <2>2. CASE c.status = "ok" \/ (c.status = "refused" /\ c.yes)
    <3>1. PICK w, cs : w = [Nobody EXCEPT !.n = wiz.n] /\ cs = (calls \ {c}) \cup {}
      OBVIOUS
    <3>2. w \in Wizard /\ w.draft = 0
      BY <1>1, <3>1, NobodyType
    <3>3. Becomes(w, cs) /\ cs \subseteq calls
      BY <1>12, <2>2, <3>1 DEF HearPublish, Hear
    <3>4. CASE late' = late
      BY <1>1, <1>2, <3>2, <3>3, <3>4, LateTurn
    <3>5. CASE late' = late \cup {c.draft} /\ c.status = "ok"
      <4>1. wiz' = w /\ \A x \in calls' : x \in cs \/ x.op \in {"criteria", "refresh", "electors"}
        BY <1>1, <3>2, <3>3, BecomesFacts DEF Mounted
      <4>2. ASSUME NEW x \in calls', x.op = "publish", x.status = "ok" PROVE Gone(x.draft)'
        BY <1>2, <3>3, <4>1, <4>2 DEF LateOK, Gone
      <4>3. ASSUME NEW d \in late' PROVE d \in 1..MaxDrafts /\ Gone(d)'
        BY <1>2, <2>1, <3>5, <4>3 DEF LateOK, Gone
      <4>4. wiz'.draft \notin late'
        BY <3>2, <4>1, <4>3
      <4>5. lost' \in Nat
        BY <1>2 DEF LateOK
      <4> QED
        BY <4>2, <4>3, <4>4, <4>5 DEF LateOK
    <3> QED
      BY <1>12, <2>2, <3>4, <3>5 DEF HearPublish
  <2>3. CASE ~(c.status = "ok" \/ (c.status = "refused" /\ c.yes))
    <3>1. PICK w : w = IF Here(c) THEN [wiz EXCEPT !.submitting = FALSE] ELSE wiz
      OBVIOUS
    <3>2. w \in Wizard /\ w.draft = wiz.draft /\ w.n = wiz.n /\ w.open = wiz.open
      BY <1>1, <3>1 DEF Wizard
    <3>3. Becomes(w, (calls \ {c}) \cup {}) /\ late' = late
      BY <1>12, <2>3, <3>1 DEF HearPublish, Hear
    <3> QED
      BY <1>3, <2>1, <3>2, <3>3
  <2> QED
    BY <2>2, <2>3
<1> QED
  BY <1>5, <1>6, <1>7, <1>8, <1>9, <1>10, <1>11, <1>12 DEF Answer

(* What is late is known to be gone, in every state.                       *)
THEOREM LateIsGone == Spec => []LateOK
<1>1. Init => LateOK
  BY DEF Init, LateOK
<1>2. IInv /\ LateOK /\ Next => LateOK'
  BY LateClick, LateServe, LateOthers, LateHear DEF Next
<1>3. LateOK /\ UNCHANGED vars => LateOK'
  BY DEF vars, LateOK, Gone, Asking
<1> QED
  BY <1>1, <1>2, <1>3, InductiveInvariant, PTL DEF Spec

(* A draft that was saved or published is never taken up again, and one    *)
(* published late is asked about by the wizard that takes it up.           *)
THEOREM ClosedIsLeft == Spec => []NeverReedited
<1>1. IInv /\ LateOK => NeverReedited
  <2> SUFFICES ASSUME IInv, LateOK PROVE NeverReedited
    OBVIOUS
  <2>1. wiz.draft \in {0, stored} /\ stored \notin closed
    BY DEF IInv, WizardOK
  <2>2. 0 \notin closed
    BY Constants DEF IInv, TypeOK
  <2> QED
    BY <2>1, <2>2 DEF NeverReedited, LateOK, Asking
<1> QED
  BY <1>1, InductiveInvariant, LateIsGone, PTL

(* As long as every creation is heard, there is one draft at most.         *)
THEOREM DraftIsOne == Spec => []OneDraft
<1>1. IInv => OneDraft
  <2> SUFFICES ASSUME IInv, clean
      PROVE  Cardinality({d \in 1..MaxDrafts \ closed : drafts[d].status = "draft"}) <= 1
    BY DEF OneDraft
  <2>1. PICK S : S = {d \in 1..MaxDrafts \ closed : drafts[d].status = "draft"}
    OBVIOUS
  <2>2. ASSUME NEW x \in calls, Creation(x) PROVE x \in Submits /\ stored = 0
    <3>1. x \in Submits
      BY <2>2 DEF IInv, DraftsOK, Creating, Creation, Submits
    <3> QED
      BY <2>2, <3>1 DEF IInv, TurnsOK, WizardOK, Creation, Submits, Heard
  <2>3. \A x, y \in Submits : x = y
    BY DEF IInv, TurnsOK
  <2>4. ASSUME NEW d \in S, NEW e \in S PROVE d = e
    <3>1. d = stored \/ \E x \in calls : Creation(x) /\ x.id = d
      BY <2>1 DEF IInv, DraftsOK
    <3>2. e = stored \/ \E x \in calls : Creation(x) /\ x.id = e
      BY <2>1 DEF IInv, DraftsOK
    <3>3. d # 0 /\ e # 0
      BY <2>1
    <3>4. CASE \E x \in calls : Creation(x)
      <4>1. PICK x \in calls : Creation(x)
        BY <3>4
      <4>2. \A y \in calls : Creation(y) => y = x
        BY <2>2, <2>3, <4>1
      <4>3. stored = 0
        BY <2>2, <4>1
      <4>4. d = x.id /\ e = x.id
        BY <3>1, <3>2, <3>3, <4>2, <4>3
      <4> QED
        BY <4>4
    <3>5. CASE ~\E x \in calls : Creation(x)
      BY <3>1, <3>2, <3>5
    <3> QED
      BY <3>4, <3>5
  <2>5. ASSUME S = {} PROVE Cardinality(S) <= 1
    <3>1. Cardinality({}) = 0
      BY FS_EmptySet
    <3>2. Cardinality(S) = 0
      BY <2>5, <3>1
    <3> QED
      BY <3>2
  <2>6. ASSUME S # {} PROVE Cardinality(S) <= 1
    <3>1. PICK d \in S : TRUE
      BY <2>6
    <3>2. S = {d}
      BY <2>4, <3>1
    <3>3. Cardinality({d}) = 1
      BY FS_Singleton
    <3>4. Cardinality(S) = 1
      BY <3>2, <3>3
    <3> QED
      BY <3>4
  <2>7. Cardinality(S) <= 1
    BY <2>5, <2>6
  <2> QED
    BY <2>1, <2>7
<1> QED
  BY <1>1, InductiveInvariant, PTL

(* The overlay, a disabled button and an import that goes on always have a *)
(* call to wait for.                                                       *)
THEOREM BusyIsFreed == Spec => []BusyHasCalls
<1>1. IInv => BusyHasCalls
  <2> SUFFICES ASSUME IInv PROVE BusyHasCalls
    OBVIOUS
  <2>1. \A c \in Heard : c \in calls /\ c.n = wiz.n
    BY DEF Heard
  <2>2. wiz.submitting => \E c \in Heard : c.op \in {"draft", "publish"}
    BY DEF IInv, BusyOK, Submits
  <2>3. step.submitting => \E c \in Heard : c.op \in {"create"} /\ c.k = step.k
    BY DEF IInv, BusyOK, StepBusyOK, Awaited
  <2>4. step.import = "uploading" => \E c \in Heard : c.op \in {"import", "enroll"} /\ c.k = step.k
    BY DEF IInv, BusyOK, StepBusyOK, Awaited
  <2>5. step.import = "processing" /\ wiz.draft # 0 => \E c \in Heard : c.op = "poll" /\ c.k = step.k
    BY DEF IInv, BusyOK, StepBusyOK
  <2> QED
    BY <2>1, <2>2, <2>3, <2>4, <2>5 DEF BusyHasCalls
<1> QED
  BY <1>1, InductiveInvariant, PTL
=============================================================================
