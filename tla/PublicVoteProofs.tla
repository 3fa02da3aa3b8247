--------------------------- MODULE PublicVoteProofs ---------------------------
(***************************************************************************)
(* For any candidates, elections, prices, amounts and number of moves: the *)
(* page of a successful payment is about a vote that was paid, a visit of  *)
(* a page that guards its vote records one vote, and a visit of a payment  *)
(* page makes one charge that may still be paid.                           *)
(*                                                                         *)
(* What a ballot holds is never looked into: the records below have the    *)
(* items they have.                                                        *)
(***************************************************************************)
EXTENDS PublicVote, SequenceTheorems, TLAPS

Names == {"elections", "portal", "results", "categories", "category", "details", "success",
          "payment", "paid", "home", "unauthorized"}
Op     == Read \cup {"submit", "initiate", "verify"}
Result == {"none", "ongoing", "closed", "processing", "completed", "failed"}
Steps  == {"form", "creating", "polling", "failed", "timeout"}

Page(p)    == [name : Names, items : {p.items}, via : Names \cup {"share"}, tx : Nat,
               total : {p.total}]
Form(r, a) == [loading : BOOLEAN, election : Result, scores : {"none", "final", "live"},
               candidate : BOOLEAN, voting : BOOLEAN, ranked : {r}, amounts : {a}, step : Steps,
               voteData : Nat]
Call(c)    == [op : Op, n : Nat, from : Names, visit : Nat, mounted : BOOLEAN, heard : BOOLEAN,
               items : {c.items}, total : {c.total}, ref : Nat, tries : Nat, status : Status, result : Result]
Vote(b)    == [items : {b}, from : Names, visit : Nat, status : {"pending", "counted"}]
Tx         == [vote : Nat, status : {"processing", "completed", "failed"}]

CallsTyped(cs) == \A c \in cs : c \in Call(c)

TypeOK ==
    /\ kind \in Kind /\ open \in BOOLEAN /\ faulty \in BOOLEAN /\ gaveUp \in BOOLEAN
    /\ votes \in Seq(Range(votes)) /\ \A i \in DOMAIN votes : votes[i] \in Vote(votes[i].items)
    /\ txs \in Seq(Tx)
    /\ page \in Page(page) /\ form \in Form(form.ranked, form.amounts)
    /\ CallsTyped(calls) /\ visit \in Nat /\ moves \in Nat

-----------------------------------------------------------------------------
(* The calls of a vote: it is submitted, charged, and asked about.         *)
AboutVote(c) == (c.op = "submit" /\ c.status = "ok") \/ (c.op = "initiate" /\ c.status = "pending")
AboutTx(c)   == (c.op = "initiate" /\ c.status = "ok") \/ c.op = "verify"

(* The vote i was recorded by the visit of call c.                         *)
Records(i, c) ==
    /\ i \in DOMAIN votes
    /\ votes[i].items = c.items /\ votes[i].from = c.from /\ votes[i].visit = c.visit

(* A call is about the vote, or the payment, that its visit asked for; a   *)
(* settled payment is never reported otherwise.                            *)
CallOK(c) ==
    /\ c.op \in {"initiate", "verify"} => c.from = "payment"
    /\ AboutVote(c) => Records(c.ref, c)
    /\ AboutTx(c) => c.ref \in DOMAIN txs /\ Records(txs[c.ref].vote, c)
    /\ c.status = "timer" => c.op = "verify"
    /\ c.result \in {"ongoing", "closed"} => c.op \in Read
    /\ c.result \in {"completed", "failed"} => c.op = "verify" /\ txs[c.ref].status = c.result

TxOK(t) ==
    /\ txs[t].vote \in DOMAIN votes /\ votes[txs[t].vote].from = "payment"
    /\ txs[t].status = "completed" => votes[txs[t].vote].status = "counted"

(* The page of a payment is about one that is completed.                   *)
Paid(p) ==
    /\ p.tx \in DOMAIN txs /\ txs[p.tx].status = "completed"
    /\ votes[txs[p.tx].vote].items = p.items

BooksOK ==
    /\ \A t \in DOMAIN txs : TxOK(t)
    /\ \A c \in calls : CallOK(c)
    /\ page.name = "paid" => Paid(page)

(* A visit is of one page.                                                 *)
VisitOK(c) == /\ c.visit <= visit
              /\ c.mounted => c.visit = visit
              /\ c.visit = visit => c.from = page.name

VisitsOK ==
    /\ \A c \in calls : VisitOK(c)
    /\ \A i \in DOMAIN votes : /\ votes[i].visit <= visit
                               /\ votes[i].visit = visit => votes[i].from = page.name

-----------------------------------------------------------------------------
(* The pages whose button a vote in flight disables.                       *)
Guards(name) == name # "payment" /\ ~(name = "portal" /\ kind.type = "single")

(* A visit of such a page submits one vote at a time, and none any more    *)
(* when one is recorded.                                                   *)
Submits == {c \in calls : c.op = "submit"}

VoteAlone(i) ==
    Guards(votes[i].from) =>
        /\ votes[i].visit = visit => form.voting
        /\ \A j \in DOMAIN votes : votes[j].visit = votes[i].visit => j = i
        /\ \A c \in Submits : c.visit = votes[i].visit => c.status = "ok"

SubmitAlone(c) ==
    Guards(c.from) =>
        /\ c.visit = visit => form.voting
        /\ \A d \in Submits : d.visit = c.visit => d = c
        /\ \A i \in DOMAIN votes : votes[i].visit = c.visit => c.status = "ok"

OneVote == ~faulty => /\ \A i \in DOMAIN votes : VoteAlone(i)
                      /\ \A c \in Submits : SubmitAlone(c)

(* A visit of a payment page waits for one call, and when there is a       *)
(* charge that may still be paid, the call is about that one.              *)
Charges == {c \in calls : c.op \in {"submit", "initiate", "verify"} /\ c.from = "payment"}
Live    == {t \in DOMAIN txs : txs[t].status # "failed"}
Busy    == form.step \in {"creating", "polling"}

VisitOf(t) == votes[txs[t].vote].visit

ChargeAlone(c) ==
    /\ c.visit = visit => Busy
    /\ \A d \in Charges : d.visit = c.visit => d = c

LiveAlone(t) ==
    /\ VisitOf(t) = visit => Busy
    /\ \A u \in Live : VisitOf(u) = VisitOf(t) => u = t
    /\ \A c \in Charges : c.visit = VisitOf(t) => AboutTx(c) /\ c.ref = t

OneCharge == ~faulty /\ ~gaveUp => /\ \A c \in Charges : ChargeAlone(c)
                                   /\ \A t \in Live : LiveAlone(t)

IInv == TypeOK /\ BooksOK /\ VisitsOK /\ OneVote /\ OneCharge

-----------------------------------------------------------------------------
(* What an element more does to a sequence.                                *)
LEMMA Appended ==
  ASSUME NEW S, NEW s \in Seq(S), NEW T, NEW x \in T, S \subseteq T
  PROVE  /\ Append(s, x) \in Seq(T)
         /\ DOMAIN s = 1 .. Len(s) /\ Len(s) \in Nat
         /\ DOMAIN Append(s, x) = DOMAIN s \cup {Len(s) + 1} /\ Len(s) + 1 \notin DOMAIN s
         /\ \A i \in DOMAIN s : Append(s, x)[i] = s[i]
         /\ Append(s, x)[Len(s) + 1] = x
  <1>1. s \in Seq(T)
    OBVIOUS
  <1> QED BY <1>1, AppendProperties

(* e is a call of the same visit as d.                                     *)
Heir(d, e) == e.from = d.from /\ e.visit = d.visit /\ (e.mounted => d.mounted)

(* A page is shown: the calls in flight are not its own.                   *)
Unmounted(d) == [d EXCEPT !.mounted = FALSE]

(* Calls that are left stay as they are, but for their page.               *)
LEMMA LeftCalls ==
  ASSUME TypeOK, NEW cs \in SUBSET calls
  PROVE  \A e \in Left(cs) : \E d \in calls : e = Unmounted(d)
  BY DEF Left, Unmounted

(* A page that is shown begins a visit, with reads of its own.             *)
LEMMA ShowTypes ==
  ASSUME TypeOK, NEW p, p \in Page(p), NEW cs \in SUBSET calls, Show(p, cs)
  PROVE  /\ page' = p /\ visit' = visit + 1 /\ form' \in Form(form'.ranked, form'.amounts)
         /\ \A e \in calls' :
              \/ \E d \in calls : e = Unmounted(d)
              \/ /\ e \in Call(e) /\ e.op \in Read /\ e.result = "none" /\ e.status = "pending"
                 /\ e.visit = visit + 1 /\ e.from = p.name
  <1>1. form' \in Form(<<>>, <<>>)
    BY DEF Show, FreshForm, Form, Steps, Result
  <1>2. form' \in Form(form'.ranked, form'.amounts)
    BY <1>1 DEF Form
  <1>3. Loads(p) \subseteq Read
    BY DEF Loads, Read
  <1>4. ASSUME NEW op \in Read
        PROVE  LET e == NewCall(op, p.items, p.name, visit + 1)
               IN  /\ e \in Call(e) /\ e.op \in Read /\ e.result = "none" /\ e.status = "pending"
                   /\ e.visit = visit + 1 /\ e.from = p.name
    BY DEF NewCall, Call, Op, TypeOK, Page, Status, Result
  <1> QED BY <1>2, <1>3, <1>4, LeftCalls DEF Show

(* Showing a page keeps the invariant.                                     *)
LEMMA ShowKeeps ==
  ASSUME IInv, NEW p, p \in Page(p), NEW cs \in SUBSET calls, Show(p, cs),
         UNCHANGED <<server, ghosts>>, moves' \in Nat, p.name = "paid" => Paid(p)
  PROVE  IInv'
  <1>1. TypeOK /\ BooksOK /\ VisitsOK /\ OneVote /\ OneCharge
    BY DEF IInv
  <1>2. /\ page' = p /\ visit' = visit + 1 /\ form' \in Form(form'.ranked, form'.amounts)
        /\ \A e \in calls' :
              \/ \E d \in calls : e = Unmounted(d)
              \/ /\ e \in Call(e) /\ e.op \in Read /\ e.result = "none" /\ e.status = "pending"
                 /\ e.visit = visit + 1 /\ e.from = p.name
    BY <1>1, ShowTypes
  <1>3. /\ kind' = kind /\ open' = open /\ votes' = votes /\ txs' = txs
        /\ faulty' = faulty /\ gaveUp' = gaveUp
    BY DEF server, ghosts
  <1>4. \A d \in calls : d \in Call(d)
    BY <1>1 DEF TypeOK, CallsTyped
  <1>5. \A d \in calls : LET e == Unmounted(d)
                         IN  /\ e \in Call(e) /\ ~e.mounted
                             /\ e.op = d.op /\ e.from = d.from /\ e.visit = d.visit
                             /\ e.items = d.items /\ e.ref = d.ref
                             /\ e.status = d.status /\ e.result = d.result
    BY <1>4 DEF Call, Unmounted
  <1>6. visit \in Nat
    BY <1>1 DEF TypeOK
  <1>7. TypeOK'
    <2>1. CallsTyped(calls')
      BY <1>2, <1>5 DEF CallsTyped
    <2> QED BY <1>1, <1>2, <1>3, <2>1 DEF TypeOK
  <1>8. BooksOK'
    <2>1. ASSUME NEW e \in calls' PROVE CallOK(e)'
      <3>1. CASE e.op \in Read /\ e.result = "none" /\ e.status = "pending"
        BY <1>2, <3>1 DEF CallOK, AboutVote, AboutTx, Read
      <3>2. CASE \E d \in calls : e = Unmounted(d)
        BY <1>1, <1>3, <1>5, <3>2 DEF BooksOK, CallOK, AboutVote, AboutTx, Records
      <3> QED BY <1>2, <3>1, <3>2
    <2>2. \A t \in DOMAIN txs' : TxOK(t)'
      BY <1>1, <1>3 DEF BooksOK, TxOK
    <2>3. page'.name = "paid" => Paid(page)'
      BY <1>2, <1>3 DEF Paid
    <2> QED BY <2>1, <2>2, <2>3 DEF BooksOK
  <1>9. VisitsOK'
    <2>1. ASSUME NEW e \in calls' PROVE VisitOK(e)'
      <3>1. CASE e.op \in Read /\ e.visit = visit + 1 /\ e.from = p.name
        BY <1>2, <1>6, <3>1 DEF VisitOK
      <3>2. ASSUME NEW d \in calls, e = Unmounted(d) PROVE VisitOK(e)'
        <4>1. e.visit = d.visit /\ ~e.mounted /\ d.visit <= visit /\ d.visit \in Nat
          BY <1>1, <1>4, <1>5, <3>2 DEF VisitsOK, VisitOK, Call
        <4> QED BY <1>2, <1>6, <4>1 DEF VisitOK
      <3> QED BY <1>2, <3>1, <3>2
    <2>2. \A i \in DOMAIN votes : votes[i].visit <= visit' /\ votes[i].visit # visit'
      BY <1>1, <1>2, <1>6 DEF VisitsOK, TypeOK, Vote
    <2> QED BY <1>3, <2>1, <2>2 DEF VisitsOK
  <1>10. \A c \in calls : c.visit # visit'
    BY <1>1, <1>2, <1>4, <1>6 DEF VisitsOK, VisitOK, Call
  <1>11. \A i \in DOMAIN votes : votes[i].visit # visit'
    BY <1>1, <1>2, <1>6 DEF VisitsOK, TypeOK, Vote
  <1>12. OneVote'
    <2>1. ASSUME NEW e \in Submits'
          PROVE  \E d \in Submits : /\ e = Unmounted(d) /\ e.from = d.from
                                    /\ e.visit = d.visit /\ e.status = d.status
      <3>1. e \in calls' /\ e.op = "submit"
        BY DEF Submits
      <3>2. PICK d \in calls : e = Unmounted(d)
        BY <1>2, <3>1 DEF Read
      <3> QED BY <1>5, <3>1, <3>2 DEF Submits
    <2>2. ASSUME ~faulty, NEW i \in DOMAIN votes PROVE VoteAlone(i)'
      BY <1>1, <1>3, <1>11, <2>1, <2>2 DEF OneVote, VoteAlone, Guards
    <2>3. ASSUME ~faulty, NEW e \in Submits' PROVE SubmitAlone(e)'
      <3>1. PICK d \in Submits : /\ e = Unmounted(d) /\ e.from = d.from
                                 /\ e.visit = d.visit /\ e.status = d.status
        BY <2>1
      <3>2. SubmitAlone(d)
        BY <1>1, <2>3 DEF OneVote
      <3>3. d \in calls
        BY DEF Submits
      <3> QED BY <1>3, <1>10, <2>1, <3>1, <3>2, <3>3 DEF SubmitAlone, Guards
    <2> QED BY <1>3, <2>2, <2>3 DEF OneVote
  <1>13. OneCharge'
    <2>1. ASSUME NEW e \in Charges'
          PROVE  \E d \in Charges : /\ e = Unmounted(d) /\ e.op = d.op /\ e.visit = d.visit
                                    /\ e.status = d.status /\ e.ref = d.ref
      <3>1. e \in calls' /\ e.op \in {"submit", "initiate", "verify"} /\ e.from = "payment"
        BY DEF Charges
      <3>2. PICK d \in calls : e = Unmounted(d)
        BY <1>2, <3>1 DEF Read
      <3> QED BY <1>5, <3>1, <3>2 DEF Charges
    <2>2. Live' = Live /\ \A t \in Live : VisitOf(t)' = VisitOf(t) /\ VisitOf(t) # visit'
      BY <1>1, <1>3, <1>11 DEF Live, VisitOf, BooksOK, TxOK
    <2>3. ASSUME ~faulty, ~gaveUp, NEW e \in Charges' PROVE ChargeAlone(e)'
      <3>1. PICK d \in Charges : e = Unmounted(d) /\ e.visit = d.visit
        BY <2>1
      <3>2. ChargeAlone(d)
        BY <1>1, <2>3 DEF OneCharge
      <3>3. d \in calls
        BY DEF Charges
      <3> QED BY <1>10, <2>1, <3>1, <3>2, <3>3 DEF ChargeAlone
    <2>4. ASSUME ~faulty, ~gaveUp, NEW t \in Live' PROVE LiveAlone(t)'
      <3>1. t \in Live /\ LiveAlone(t)
        BY <1>1, <2>2, <2>4 DEF OneCharge
      <3> QED BY <2>1, <2>2, <3>1 DEF LiveAlone, AboutTx
    <2> QED BY <1>3, <2>3, <2>4 DEF OneCharge
  <1> QED BY <1>7, <1>8, <1>9, <1>12, <1>13 DEF IInv

-----------------------------------------------------------------------------
(* The page stays, and at most one of its calls changes: c becomes a.      *)
InChain(c) == c.op \in {"submit", "initiate", "verify"}

Becomes(c, a) ==
    /\ c \in calls /\ a \in Call(a) /\ Heir(c, a)
    /\ calls' \subseteq (calls \ {c}) \cup {a}
    /\ a.op = "submit" => c.op = "submit" /\ (c.status = "ok" => a.status = "ok")
    /\ InChain(a) => InChain(c) /\ (AboutTx(c) => AboutTx(a) /\ a.ref = c.ref)

(* A step that stays on the page keeps what a visit is of, ...             *)
LEMMA VisitsKept ==
  ASSUME VisitsOK, visit' = visit, page'.name = page.name,
         DOMAIN votes' = DOMAIN votes,
         \A i \in DOMAIN votes : votes'[i].from = votes[i].from /\ votes'[i].visit = votes[i].visit,
         NEW c, NEW a, calls' \subseteq calls \/ Becomes(c, a)
  PROVE  VisitsOK'
  <1>1. ASSUME NEW e \in calls' PROVE VisitOK(e)'
    <2>1. PICK d \in calls : e = d \/ Heir(d, e)
      BY DEF Becomes
    <2> QED BY <2>1 DEF VisitsOK, VisitOK, Heir
  <1> QED BY <1>1 DEF VisitsOK

(* ... that a guarded visit submits one vote, ...                          *)
LEMMA OneVoteKept ==
  ASSUME OneVote, visit' = visit, kind' = kind, faulty' = faulty, form.voting => form'.voting,
         DOMAIN votes' = DOMAIN votes,
         \A i \in DOMAIN votes : votes'[i].from = votes[i].from /\ votes'[i].visit = votes[i].visit,
         NEW c, NEW a, calls' \subseteq calls \/ Becomes(c, a)
  PROVE  OneVote'
  <1>1. \A e \in Submits' :
          \/ e \in Submits \ {c}
          \/ /\ e = a /\ c \in Submits /\ a.from = c.from /\ a.visit = c.visit
             /\ c.status = "ok" => a.status = "ok"
          \/ e \in Submits /\ calls' \subseteq calls
    BY DEF Submits, Becomes, Heir
  <1>2. ASSUME ~faulty, NEW i \in DOMAIN votes PROVE VoteAlone(i)'
    <2>1. VoteAlone(i)
      BY <1>2 DEF OneVote
    <2> QED BY <1>1, <2>1 DEF VoteAlone, Guards
  <1>3. ASSUME ~faulty, NEW e \in Submits' PROVE SubmitAlone(e)'
    <2>1. CASE calls' \subseteq calls
      <3>1. e \in Submits /\ SubmitAlone(e) /\ Submits' \subseteq Submits
        BY <1>3, <2>1 DEF OneVote, Submits
      <3> QED BY <3>1 DEF SubmitAlone, Guards
    <2>2. CASE ~(calls' \subseteq calls) /\ e \in Submits \ {c}
      <3>1. SubmitAlone(e)
        BY <1>3, <2>2 DEF OneVote
      <3> QED BY <1>1, <2>2, <3>1 DEF SubmitAlone, Guards
    <2>3. CASE ~(calls' \subseteq calls) /\ e = a /\ c \in Submits
      <3>1. SubmitAlone(c)
        BY <1>3, <2>3 DEF OneVote
      <3> QED BY <1>1, <2>3, <3>1 DEF SubmitAlone, Guards, Becomes, Heir
    <2> QED BY <1>1, <2>1, <2>2, <2>3
  <1> QED BY <1>2, <1>3 DEF OneVote

(* ... and that a visit makes one charge.                                  *)
LEMMA OneChargeKept ==
  ASSUME OneCharge, visit' = visit, faulty' = faulty, gaveUp' = gaveUp, Busy => Busy',
         Live' \subseteq Live, \A t \in Live' : VisitOf(t)' = VisitOf(t),
         NEW c, NEW a, calls' \subseteq calls \/ Becomes(c, a)
  PROVE  OneCharge'
  <1>1. \A e \in Charges' :
          \/ e \in Charges \ {c}
          \/ /\ e = a /\ c \in Charges /\ a.visit = c.visit
             /\ AboutTx(c) => AboutTx(a) /\ a.ref = c.ref
          \/ e \in Charges /\ calls' \subseteq calls
    BY DEF Charges, Becomes, InChain, Heir
  <1>2. ASSUME ~faulty, ~gaveUp, NEW t \in Live' PROVE LiveAlone(t)'
    <2>1. LiveAlone(t)
      BY <1>2 DEF OneCharge
    <2> QED BY <1>1, <2>1 DEF LiveAlone, AboutTx
  <1>3. ASSUME ~faulty, ~gaveUp, NEW e \in Charges' PROVE ChargeAlone(e)'
    <2>1. CASE calls' \subseteq calls
      <3>1. e \in Charges /\ ChargeAlone(e) /\ Charges' \subseteq Charges
        BY <1>3, <2>1 DEF OneCharge, Charges
      <3> QED BY <3>1 DEF ChargeAlone
    <2>2. CASE ~(calls' \subseteq calls) /\ e \in Charges \ {c}
      <3>1. ChargeAlone(e)
        BY <1>3, <2>2 DEF OneCharge
      <3> QED BY <1>1, <2>2, <3>1 DEF ChargeAlone
    <2>3. CASE ~(calls' \subseteq calls) /\ e = a /\ c \in Charges
      <3>1. ChargeAlone(c)
        BY <1>3, <2>3 DEF OneCharge
      <3> QED BY <1>1, <2>3, <3>1 DEF ChargeAlone, Becomes, Heir
    <2> QED BY <1>1, <2>1, <2>2, <2>3
  <1> QED BY <1>2, <1>3 DEF OneCharge

(* A step of the tab on its page that enables no button, unless an answer  *)
(* is lost or a payment is given up.                                       *)
LEMMA StepKeeps ==
  ASSUME IInv, UNCHANGED server, visit' = visit, moves' \in Nat,
         page' \in Page(page'), page'.name = page.name, page.name = "paid" => page' = page,
         form' \in Form(form'.ranked, form'.amounts), faulty' \in BOOLEAN, gaveUp' \in BOOLEAN,
         faulty' \/ (faulty' = faulty /\ (form.voting => form'.voting)),
         faulty' \/ gaveUp' \/ (UNCHANGED ghosts /\ (Busy => Busy')),
         NEW c, NEW a, calls' \subseteq calls \/ (Becomes(c, a) /\ CallOK(a))
  PROVE  IInv'
  <1>1. TypeOK /\ BooksOK /\ VisitsOK /\ OneVote /\ OneCharge
    BY DEF IInv
  <1>2. kind' = kind /\ open' = open /\ votes' = votes /\ txs' = txs
    BY DEF server
  <1>3. \A e \in calls' : e \in calls \/ (e = a /\ a \in Call(a) /\ CallOK(a))
    BY DEF Becomes
  <1>4. TypeOK'
    <2>1. CallsTyped(calls')
      BY <1>1, <1>3 DEF CallsTyped, TypeOK
    <2> QED BY <1>1, <1>2, <2>1 DEF TypeOK
  <1>5. BooksOK'
    <2>1. ASSUME NEW e \in calls' PROVE CallOK(e)'
      <3>1. CallOK(e)
        BY <1>1, <1>3 DEF BooksOK
      <3> QED BY <1>2, <3>1 DEF CallOK, AboutVote, AboutTx, Records
    <2>2. \A t \in DOMAIN txs' : TxOK(t)'
      BY <1>1, <1>2 DEF BooksOK, TxOK
    <2>3. page'.name = "paid" => Paid(page)'
      BY <1>1, <1>2 DEF Paid, BooksOK
    <2> QED BY <2>1, <2>2, <2>3 DEF BooksOK
  <1>6. VisitsOK'
    BY <1>1, <1>2, VisitsKept
  <1>7. OneVote'
    <2>1. CASE faulty'
      BY <2>1 DEF OneVote
    <2>2. CASE ~faulty'
      BY <1>1, <1>2, <2>2, OneVoteKept
    <2> QED BY <2>1, <2>2
  <1>8. OneCharge'
    <2>1. CASE faulty' \/ gaveUp'
      BY <2>1 DEF OneCharge
    <2>2. CASE ~(faulty' \/ gaveUp')
      BY <1>1, <1>2, <2>2, OneChargeKept DEF Live, VisitOf, ghosts
    <2> QED BY <2>1, <2>2
  <1> QED BY <1>4, <1>5, <1>6, <1>7, <1>8 DEF IInv

(* A step of the tab on its page that leaves its buttons as they are.      *)
LEMMA StayKeeps ==
  ASSUME IInv, UNCHANGED <<server, ghosts>>, visit' = visit, moves' \in Nat,
         page' \in Page(page'), page'.name = page.name, page.name = "paid" => page' = page,
         form' \in Form(form'.ranked, form'.amounts), form.voting => form'.voting, Busy => Busy',
         NEW c, NEW a, calls' \subseteq calls \/ (Becomes(c, a) /\ CallOK(a))
  PROVE  IInv'
  BY StepKeeps DEF ghosts, IInv, TypeOK

(* The page hears that its vote or charge came to nothing, and forgets it: *)
(* no other call of the visit is waited for, and no charge of it is live.  *)
LEMMA DropKeeps ==
  ASSUME IInv, UNCHANGED <<server, ghosts>>, visit' = visit, moves' \in Nat, page' = page,
         form' \in Form(form'.ranked, form'.amounts),
         NEW c \in calls, c.mounted, InChain(c), calls' \subseteq calls \ {c},
         c.op = "submit" => c.status = "refused",
         c.op # "submit" => (form.voting => form'.voting),
         AboutTx(c) => txs[c.ref].status = "failed"
  PROVE  IInv'
  <1>1. TypeOK /\ BooksOK /\ VisitsOK /\ OneVote /\ OneCharge
    BY DEF IInv
  <1>2. /\ kind' = kind /\ open' = open /\ votes' = votes /\ txs' = txs
        /\ faulty' = faulty /\ gaveUp' = gaveUp
    BY DEF server, ghosts
  <1>3. c.visit = visit /\ c.from = page.name
    BY <1>1 DEF VisitsOK, VisitOK
  <1>4. TypeOK'
    BY <1>1, <1>2 DEF TypeOK, CallsTyped
  <1>5. BooksOK'
    <2>1. ASSUME NEW e \in calls' PROVE CallOK(e)'
      <3>1. CallOK(e)
        BY <1>1 DEF BooksOK
      <3> QED BY <1>2, <3>1 DEF CallOK, AboutVote, AboutTx, Records
    <2> QED BY <1>1, <1>2, <2>1 DEF BooksOK, TxOK, Paid
  <1>6. VisitsOK'
    BY <1>1, <1>2, VisitsKept
  <1>7. OneVote'
    <2>1. CASE c.op # "submit"
      BY <1>1, <1>2, <2>1, OneVoteKept
    <2>2. CASE c.op = "submit"
      <3>1. c \in Submits /\ Submits' \subseteq Submits \ {c}
        BY <2>2 DEF Submits
      <3>2. ASSUME ~faulty, NEW d \in Submits' PROVE SubmitAlone(d)'
        <4>1. SubmitAlone(d) /\ SubmitAlone(c)
          BY <1>1, <3>1, <3>2 DEF OneVote
        <4>2. Guards(d.from) => d.visit # visit
          BY <1>3, <3>1, <4>1 DEF SubmitAlone
        <4> QED BY <1>2, <3>1, <4>1, <4>2 DEF SubmitAlone, Guards
      <3>3. ASSUME ~faulty, NEW i \in DOMAIN votes PROVE VoteAlone(i)'
        <4>1. VoteAlone(i)
          BY <1>1, <3>3 DEF OneVote
        <4>2. Guards(votes[i].from) => votes[i].visit # visit
          BY <1>3, <2>2, <3>1, <4>1 DEF VoteAlone
        <4> QED BY <1>2, <3>1, <4>1, <4>2 DEF VoteAlone, Guards
      <3> QED BY <1>2, <3>2, <3>3 DEF OneVote
    <2> QED BY <2>1, <2>2
  <1>8. OneCharge'
    <2>1. Live' = Live /\ Charges' \subseteq Charges \ {c} /\ \A t \in Live : VisitOf(t)' = VisitOf(t)
      BY <1>2 DEF Live, Charges, VisitOf
    <2>2. CASE c.from = "payment"
      <3>1. c \in Charges
        BY <2>2 DEF Charges, InChain
      <3>2. ASSUME ~faulty, ~gaveUp, NEW d \in Charges' PROVE ChargeAlone(d)'
        <4>1. ChargeAlone(c) /\ ChargeAlone(d) /\ d # c
          BY <1>1, <2>1, <3>1, <3>2 DEF OneCharge
        <4>2. d.visit # visit
          BY <1>3, <2>1, <4>1 DEF ChargeAlone
        <4> QED BY <1>2, <2>1, <4>1, <4>2 DEF ChargeAlone
      <3>3. ASSUME ~faulty, ~gaveUp, NEW t \in Live PROVE LiveAlone(t)'
        <4>1. LiveAlone(t)
          BY <1>1, <3>3 DEF OneCharge
        <4>2. VisitOf(t) # visit
          BY <1>3, <3>1, <4>1 DEF LiveAlone, Live
        <4> QED BY <1>2, <2>1, <4>1, <4>2 DEF LiveAlone, AboutTx
      <3> QED BY <1>2, <2>1, <3>2, <3>3 DEF OneCharge
    <2>3. CASE c.from # "payment"
      <3>1. \A d \in Charges' : d.visit # visit
        BY <1>1, <1>3, <2>1, <2>3 DEF VisitsOK, VisitOK, Charges
      <3>2. \A t \in Live : VisitOf(t) # visit
        BY <1>1, <1>3, <2>3 DEF VisitsOK, VisitOf, Live, BooksOK, TxOK
      <3>3. ASSUME ~faulty, ~gaveUp, NEW d \in Charges' PROVE ChargeAlone(d)'
        <4>1. ChargeAlone(d)
          BY <1>1, <2>1, <3>3 DEF OneCharge
        <4> QED BY <2>1, <3>1, <4>1 DEF ChargeAlone
      <3>4. ASSUME ~faulty, ~gaveUp, NEW t \in Live PROVE LiveAlone(t)'
        <4>1. LiveAlone(t)
          BY <1>1, <3>4 DEF OneCharge
        <4> QED BY <2>1, <3>2, <4>1 DEF LiveAlone, AboutTx
      <3> QED BY <1>2, <2>1, <3>3, <3>4 DEF OneCharge
    <2> QED BY <2>2, <2>3
  <1> QED BY <1>4, <1>5, <1>6, <1>7, <1>8 DEF IInv

(* A vote that the page submits.                                           *)
Submission(n) == /\ n \in Call(n) /\ n.op = "submit" /\ n.from = page.name /\ n.visit = visit
                 /\ n.status = "pending" /\ n.result = "none"

LEMMA Submissions ==
  ASSUME TypeOK, NEW items, NEW total
  PROVE  LET n == NewCall("submit", items, page.name, visit)
             m == [n EXCEPT !.total = total]
         IN  Submission(n) /\ Submission(m) /\ m.items = items /\ m.total = total
  <1> DEFINE n == NewCall("submit", items, page.name, visit)
             m == [n EXCEPT !.total = total]
  <1>1. Submission(n)
    BY DEF NewCall, Call, Op, Status, Result, TypeOK, Page, Submission
  <1>2. n.items = items
    BY DEF NewCall
  <1> HIDE DEF n
  <1>3. Submission(m) /\ m.items = items /\ m.total = total
    BY <1>1, <1>2 DEF Submission, Call
  <1> QED BY <1>1, <1>3 DEF n

(* A page submits a vote: the button of a page that guards its vote, and   *)
(* the form of a payment page, say that none of this visit is in flight.   *)
LEMMA SubmitKeeps ==
  ASSUME IInv, NEW n, Submission(n), NEW f, f \in Form(f.ranked, f.amounts),
         Ballot(f, calls \cup {n}),
         Guards(page.name) => ~form.voting /\ f.voting,
         form.voting => f.voting,
         IF page.name = "payment" THEN ~Busy /\ f.step = "creating" ELSE f.step = form.step
  PROVE  IInv'
  <1>1. TypeOK /\ BooksOK /\ VisitsOK /\ OneVote /\ OneCharge
    BY DEF IInv
  <1>2. /\ kind' = kind /\ open' = open /\ votes' = votes /\ txs' = txs /\ page' = page
        /\ faulty' = faulty /\ gaveUp' = gaveUp /\ visit' = visit /\ form' = f
        /\ moves' = moves + 1 /\ calls' = calls \cup {n}
    BY DEF Ballot, Move, Stay, server, ghosts
  <1>3. /\ n \in Call(n) /\ n.op = "submit" /\ n.from = page.name /\ n.visit = visit
        /\ n.status = "pending" /\ n.result = "none"
    BY DEF Submission
  <1>4. TypeOK'
    BY <1>1, <1>2, <1>3 DEF TypeOK, CallsTyped
  <1>5. BooksOK'
    <2>1. ASSUME NEW e \in calls' PROVE CallOK(e)'
      <3>1. CallOK(e)
        BY <1>1, <1>2, <1>3 DEF BooksOK, CallOK, AboutVote, AboutTx
      <3> QED BY <1>2, <3>1 DEF CallOK, AboutVote, AboutTx, Records
    <2> QED BY <1>1, <1>2, <2>1 DEF BooksOK, TxOK, Paid
  <1>6. VisitsOK'
    <2>1. visit <= visit
      BY <1>1 DEF TypeOK
    <2> QED BY <1>1, <1>2, <1>3, <2>1 DEF VisitsOK, VisitOK
  <1>7. OneVote'
    <2>1. Submits' = Submits \cup {n}
      BY <1>2, <1>3 DEF Submits
    <2>2. \A d \in Submits : d.visit = visit => d.from = page.name
      BY <1>1 DEF VisitsOK, VisitOK, Submits
    <2>3. ASSUME ~faulty, NEW i \in DOMAIN votes PROVE VoteAlone(i)'
      <3>1. VoteAlone(i) /\ (votes[i].visit = visit => votes[i].from = page.name)
        BY <1>1, <2>3 DEF OneVote, VisitsOK
      <3> QED BY <1>2, <1>3, <2>1, <3>1 DEF VoteAlone, Guards
    <2>4. ASSUME ~faulty, NEW d \in Submits PROVE SubmitAlone(d)'
      <3>1. SubmitAlone(d)
        BY <1>1, <2>4 DEF OneVote
      <3> QED BY <1>2, <1>3, <2>1, <2>2, <3>1 DEF SubmitAlone, Guards
    <2>5. ASSUME ~faulty, Guards(page.name) PROVE SubmitAlone(n)'
      <3>1. \A d \in Submits : d.visit # visit
        BY <1>1, <2>2, <2>5 DEF OneVote, SubmitAlone
      <3>2. \A i \in DOMAIN votes : votes[i].visit # visit
        BY <1>1, <2>5 DEF OneVote, VoteAlone, VisitsOK
      <3> QED BY <1>2, <1>3, <2>1, <2>5, <3>1, <3>2 DEF SubmitAlone, Guards
    <2>6. ASSUME ~Guards(page.name) PROVE SubmitAlone(n)'
      BY <1>2, <1>3, <2>6 DEF SubmitAlone, Guards
    <2> QED BY <1>2, <2>1, <2>3, <2>4, <2>5, <2>6 DEF OneVote
  <1>8. OneCharge'
    <2>1. Live' = Live /\ \A t \in Live : VisitOf(t)' = VisitOf(t)
      BY <1>2 DEF Live, VisitOf
    <2>2. CASE page.name # "payment"
      <3>1. Charges' = Charges /\ Busy' = Busy
        BY <1>2, <1>3, <2>2 DEF Charges, Busy
      <3> QED BY <1>1, <1>2, <2>1, <3>1 DEF OneCharge, ChargeAlone, LiveAlone, AboutTx
    <2>3. CASE page.name = "payment"
      <3>1. Charges' = Charges \cup {n} /\ Busy'
        BY <1>2, <1>3, <2>3 DEF Charges, Busy
      <3>2. ASSUME ~faulty, ~gaveUp
            PROVE  /\ \A d \in Charges : ChargeAlone(d) /\ d.visit # visit
                   /\ \A t \in Live : LiveAlone(t) /\ VisitOf(t) # visit
        BY <1>1, <2>3, <3>2 DEF OneCharge, ChargeAlone, LiveAlone
      <3>3. ASSUME ~faulty, ~gaveUp, NEW t \in Live PROVE LiveAlone(t)'
        BY <1>2, <1>3, <2>1, <3>1, <3>2, <3>3 DEF LiveAlone, AboutTx
      <3>4. ASSUME ~faulty, ~gaveUp, NEW d \in Charges' PROVE ChargeAlone(d)'
        BY <1>2, <1>3, <2>1, <3>1, <3>2, <3>4 DEF ChargeAlone
      <3> QED BY <1>2, <2>1, <3>3, <3>4 DEF OneCharge
    <2> QED BY <2>2, <2>3
  <1> QED BY <1>4, <1>5, <1>6, <1>7, <1>8 DEF IInv

-----------------------------------------------------------------------------
(* The voter's moves.                                                      *)
LEMMA ToPageKeeps ==
  ASSUME IInv, NEW p, p \in Page(p), p.name # "paid", ToPage(p)
  PROVE  IInv'
  BY ShowKeeps DEF ToPage, Move, IInv, TypeOK

(* The pages that the voter goes to.                                       *)
LEMMA Pages ==
  ASSUME NEW name \in Names, NEW items, NEW via \in Names \cup {"share"}
  PROVE  LET p == At(name, items, via)
         IN  p \in Page(p) /\ p.name = name
  BY DEF At, Page

(* Filling the form keeps the invariant.                                   *)
LEMMA BallotKeeps ==
  ASSUME IInv, NEW f, f \in Form(f.ranked, f.amounts), Ballot(f, calls),
         form.voting => f.voting, Busy => f.step \in {"creating", "polling"}
  PROVE  IInv'
  BY StayKeeps DEF Ballot, Move, Stay, IInv, TypeOK, Busy

(* What is true of the forms.                                              *)
LEMMA FormTypes ==
  ASSUME TypeOK
  PROVE  /\ LET f == [form EXCEPT !.voting = TRUE]
            IN  f \in Form(f.ranked, f.amounts) /\ f.voting /\ f.step = form.step
         /\ \A s \in Steps : LET f == [form EXCEPT !.step = s]
                             IN  f \in Form(f.ranked, f.amounts) /\ f.voting = form.voting /\ f.step = s
         /\ \A r : LET f == [form EXCEPT !.ranked = r]
                   IN  f \in Form(f.ranked, f.amounts) /\ f.voting = form.voting /\ f.step = form.step
         /\ \A a : LET f == [form EXCEPT !.amounts = a]
                   IN  f \in Form(f.ranked, f.amounts) /\ f.voting = form.voting /\ f.step = form.step
  BY DEF TypeOK, Form

(* So does a free vote, on a page whose button was not disabled, ...       *)
LEMMA FreeVoteKeeps ==
  ASSUME IInv, NEW x, submitFreeVote(x), page.name # "payment", Guards(page.name) => ~form.voting
  PROVE  IInv'
  <1>1. Submit([form EXCEPT !.voting = TRUE], One(x, 0))
    BY DEF submitFreeVote
  <1>2. TypeOK
    BY DEF IInv
  <1> QED BY <1>1, <1>2, FormTypes, Submissions, SubmitKeeps DEF Submit

(* ... going from page to page, ...                                        *)
LEMMA BrowseKeeps == ASSUME IInv, Browse PROVE IInv'
  <1>1. CASE page.name = "elections" /\ \E p \in {"portal", "results", "categories"} :
               ToPage(At(p, <<>>, "elections"))
    <2>1. PICK p \in {"portal", "results", "categories"} : ToPage(At(p, <<>>, "elections"))
      BY <1>1
    <2> QED BY <2>1, Pages, ToPageKeeps DEF Names
  <1>2. CASE page.name = "elections"
             /\ \E x \in Candidate : ToPage(At("details", One(x, 0), "share"))
    <2>1. PICK x \in Candidate : ToPage(At("details", One(x, 0), "share"))
      BY <1>2
    <2> QED BY <2>1, Pages, ToPageKeeps DEF Names
  <1>3. CASE On("portal") /\ \E p \in {"categories", "results"} : ToPage(At(p, <<>>, "portal"))
    <2>1. PICK p \in {"categories", "results"} : ToPage(At(p, <<>>, "portal"))
      BY <1>3
    <2> QED BY <2>1, Pages, ToPageKeeps DEF Names
  <1>4. CASE On("categories") /\ form.election # "none"
             /\ ToPage(At("category", <<>>, "categories"))
    BY <1>4, Pages, ToPageKeeps DEF Names
  <1>5. CASE page.name \notin {"elections", "portal"}
             /\ ToPage(At(IF page.via = "share" THEN "elections" ELSE "portal", <<>>, "elections"))
    <2>1. PICK name \in {"elections", "portal"} : ToPage(At(name, <<>>, "elections"))
      BY <1>5
    <2> QED BY <2>1, Pages, ToPageKeeps DEF Names
  <1> QED BY <1>1, <1>2, <1>3, <1>4, <1>5 DEF Browse

(* ... the buttons of a candidate's card, ...                              *)
LEMMA CardsKeep ==
  ASSUME IInv, NEW x \in Candidate,
         viewCandidateDetails(x) \/ handleVote(x) \/ handleCategoryVote(x) \/ handleDetailsVote(x)
  PROVE  IInv'
  <1>1. page.name \in Names
    BY DEF IInv, TypeOK, Page
  <1>2. CASE viewCandidateDetails(x)
    BY <1>1, <1>2, Pages, ToPageKeeps DEF viewCandidateDetails, Names
  <1>3. CASE handleVote(x)
    <2>1. page.name = "portal" /\ kind.type = "single"
      BY <1>3 DEF handleVote, cards, On
    <2>2. CASE ToPage(At("home", <<>>, "elections"))
      BY <2>2, Pages, ToPageKeeps DEF Names
    <2>3. CASE ToPage(At("payment", One(x, Price), "portal"))
      BY <2>3, Pages, ToPageKeeps DEF Names
    <2>4. CASE submitFreeVote(x)
      BY <2>1, <2>4, FreeVoteKeeps DEF Guards
    <2> QED BY <1>3, <2>2, <2>3, <2>4 DEF handleVote
  <1>4. CASE handleCategoryVote(x)
    BY <1>4, FreeVoteKeeps DEF handleCategoryVote
  <1>5. CASE handleDetailsVote(x)
    <2>1. page.name = "details" /\ ~form.voting
      BY <1>5 DEF handleDetailsVote, canVote, On
    <2>2. CASE ToPage(At("home", <<>>, "elections"))
      BY <2>2, Pages, ToPageKeeps DEF Names
    <2>3. CASE ToPage(At("payment", One(x, Price), "details"))
      BY <2>3, Pages, ToPageKeeps DEF Names
    <2>4. CASE submitFreeVote(x)
      BY <2>1, <2>4, FreeVoteKeeps
    <2> QED BY <1>5, <2>2, <2>3, <2>4 DEF handleDetailsVote
  <1> QED BY <1>2, <1>3, <1>4, <1>5

(* ... a ranked ballot, ...                                                *)
LEMMA RankedKeeps ==
  ASSUME IInv, submitRankedVote \/ \E x \in Candidate : rankCandidate(x)
  PROVE  IInv'
  <1>1. TypeOK
    BY DEF IInv
  <1>2. CASE submitRankedVote
    <2>1. Submit([form EXCEPT !.voting = TRUE], RankedItems(form.ranked))
      BY <1>2 DEF submitRankedVote
    <2>2. page.name = "portal" /\ ~form.voting
      BY <1>2 DEF submitRankedVote, On
    <2> QED BY <1>1, <2>1, <2>2, FormTypes, Submissions, SubmitKeeps DEF Submit
  <1>3. ASSUME NEW x \in Candidate, rankCandidate(x) PROVE IInv'
    <2>1. PICK r : Ballot([form EXCEPT !.ranked = r], calls)
      BY <1>3 DEF rankCandidate
    <2> QED BY <1>1, <2>1, FormTypes, BallotKeeps DEF Busy
  <1> QED BY <1>2, <1>3

(* ... a choice of several candidates, ...                                 *)
LEMMA MultipleKeeps ==
  ASSUME IInv, continueMultipleToPayment \/ \E x \in Candidate : chooseCandidate(x)
  PROVE  IInv'
  <1>1. TypeOK
    BY DEF IInv
  <1>2. CASE continueMultipleToPayment
    BY <1>2, Pages, ToPageKeeps DEF continueMultipleToPayment, Names
  <1>3. ASSUME NEW x \in Candidate, chooseCandidate(x) PROVE IInv'
    <2>1. PICK a : Ballot([form EXCEPT !.amounts = a], calls)
      BY <1>3 DEF chooseCandidate
    <2> QED BY <1>1, <2>1, FormTypes, BallotKeeps DEF Busy
  <1> QED BY <1>2, <1>3

(* ... and the form of the payment.                                        *)
LEMMA PaymentKeeps ==
  ASSUME IInv, typeAmount \/ handleConfirmPayment \/ handleRetry
  PROVE  IInv'
  <1>1. TypeOK
    BY DEF IInv
  <1>2. CASE typeAmount
    <2>1. PICK a \in Amount : page' = [page EXCEPT !.items[1].amount = a]
      BY <1>2 DEF typeAmount
    <2>2. page' \in Page(page') /\ page'.name = page.name
      BY <1>1, <2>1 DEF TypeOK, Page
    <2>3. form' \in Form(form'.ranked, form'.amounts) /\ moves' \in Nat
      BY <1>1, <1>2 DEF typeAmount, TypeOK, Move
    <2> QED BY <1>2, <2>2, <2>3, StayKeeps DEF typeAmount, Busy
  <1>3. CASE handleConfirmPayment
    <2>1. PICK n : /\ n = [NewCall("submit", page.items, page.name, visit) EXCEPT !.total = total_amount]
                   /\ Ballot([form EXCEPT !.step = "creating"], calls \cup {n})
      BY <1>3 DEF handleConfirmPayment
    <2>2. ~Busy /\ page.name = "payment"
      BY <1>3 DEF handleConfirmPayment, Busy
    <2>3. Submission(n)
      BY <1>1, <2>1, Submissions
    <2> QED BY <1>1, <2>1, <2>2, <2>3, FormTypes, SubmitKeeps DEF Steps, Guards
  <1>4. CASE handleRetry
    <2>1. Ballot([form EXCEPT !.step = "form", !.voteData = 0], calls) /\ ~Busy
      BY <1>4 DEF handleRetry, Busy
    <2>2. LET f == [form EXCEPT !.step = "form", !.voteData = 0]
          IN  f \in Form(f.ranked, f.amounts) /\ f.voting = form.voting /\ f.step = "form"
      BY <1>1 DEF TypeOK, Form, Steps
    <2> QED BY <2>1, <2>2, BallotKeeps
  <1> QED BY <1>2, <1>3, <1>4

(* Whatever the voter does keeps the invariant.                            *)
LEMMA VoterKeeps == ASSUME IInv, Voter PROVE IInv'
  BY BrowseKeeps, CardsKeep, RankedKeeps, MultipleKeeps, PaymentKeeps DEF Voter

-----------------------------------------------------------------------------
(* What the tab hears.                                                     *)
LEMMA CallFacts ==
  ASSUME IInv, NEW c \in calls
  PROVE  /\ c \in Call(c) /\ CallOK(c) /\ VisitOK(c)
         /\ TypeOK /\ Rest(c) \subseteq calls
  BY DEF IInv, TypeOK, CallsTyped, BooksOK, VisitsOK, Rest

(* The answers to the reads of a page, ...                                 *)
LEMMA HearReads ==
  ASSUME IInv, NEW c \in calls,
         HearElection(c) \/ HearFinal(c) \/ HearCategories(c) \/ HearCandidate(c)
  PROVE  IInv'
  <1>1. /\ c \in Call(c) /\ CallOK(c) /\ VisitOK(c)
        /\ TypeOK /\ Rest(c) \subseteq calls
    BY CallFacts
  <1>2. page \in Page(page) /\ form \in Form(form.ranked, form.amounts) /\ moves \in Nat
    BY <1>1 DEF TypeOK
  <1>3. \A f, cs : Stay(f, cs) => page' = page /\ visit' = visit /\ form' = f /\ calls' = cs
    BY DEF Stay
  <1>4. CASE HearElection(c)
    <2> DEFINE a == [c EXCEPT !.op = "final", !.status = "pending", !.result = "none"]
    <2>1. UNCHANGED <<server, ghosts, moves>> /\ page' = page /\ visit' = visit
      BY <1>4 DEF HearElection, Stay, still
    <2>2. calls' \subseteq Rest(c) \cup {a}
      BY <1>4 DEF HearElection, Stay
    <2>3. Becomes(c, a) /\ CallOK(a)
      <3>1. /\ a \in Call(a) /\ a.op = "final" /\ a.mounted = c.mounted
            /\ a.from = c.from /\ a.visit = c.visit /\ a.result = "none" /\ a.status = "pending"
        BY <1>1 DEF Call, Op, Read, Status, Result
      <3> HIDE DEF a
      <3> QED BY <2>2, <3>1 DEF Becomes, CallOK, AboutVote, AboutTx, InChain, Heir, Rest, Read
    <2>4. \E e \in Result, l \in BOOLEAN :
            form' = [form EXCEPT !.election = e, !.loading = l] \/ form' = form
      BY <1>1, <1>2, <1>4 DEF HearElection, Stay, Call, Form
    <2>5. /\ form' \in Form(form'.ranked, form'.amounts) /\ form'.voting = form.voting
          /\ form'.step = form.step
      BY <1>2, <2>4 DEF Form
    <2> HIDE DEF a
    <2> QED BY <1>2, <2>1, <2>3, <2>5, StayKeeps DEF Busy
  <1>5. CASE HearFinal(c) \/ HearCategories(c)
    <2>1. UNCHANGED <<server, ghosts, moves>> /\ page' = page /\ visit' = visit
      BY <1>5 DEF HearFinal, HearCategories, Stay, still
    <2>2. calls' \subseteq calls
      BY <1>1, <1>5 DEF HearFinal, HearCategories, Stay
    <2>3. \E e \in Result, x \in {"final", "none"} :
            \/ form' = form
            \/ form' = [form EXCEPT !.loading = FALSE, !.scores = x]
            \/ form' = [form EXCEPT !.loading = FALSE, !.election = e]
      <3>1. c.result \in Result
        BY <1>1 DEF Call
      <3> QED BY <1>5, <3>1 DEF HearFinal, HearCategories, Stay
    <2>4. /\ form' \in Form(form'.ranked, form'.amounts) /\ form'.voting = form.voting
          /\ form'.step = form.step
      BY <1>2, <2>3 DEF Form
    <2> QED BY <1>2, <2>1, <2>2, <2>4, StayKeeps DEF Busy
  <1>6. CASE HearCandidate(c) /\ c.status = "401"
    <2>1. Show(At("unauthorized", <<>>, "elections"), Rest(c)) /\ UNCHANGED <<server, ghosts, moves>>
      BY <1>6 DEF HearCandidate, still
    <2> QED BY <1>1, <1>2, <2>1, Pages, ShowKeeps DEF Names
  <1>7. CASE HearCandidate(c) /\ c.status # "401"
    <2>1. UNCHANGED <<server, ghosts, moves>> /\ page' = page /\ visit' = visit
      BY <1>7 DEF HearCandidate, Stay, still
    <2>2. calls' \subseteq calls
      BY <1>1, <1>7 DEF HearCandidate, Stay
    <2>3. /\ form' \in Form(form'.ranked, form'.amounts) /\ form'.voting = form.voting
          /\ form'.step = form.step
      BY <1>2, <1>7 DEF HearCandidate, Stay, Form
    <2> QED BY <1>2, <2>1, <2>2, <2>3, StayKeeps DEF Busy
  <1> QED BY <1>4, <1>5, <1>6, <1>7

(* ... to a vote, after which a payment page charges, ...                  *)
LEMMA HearSubmitKeeps == ASSUME IInv, NEW c \in calls, HearSubmit(c) PROVE IInv'
  <1>1. /\ c \in Call(c) /\ CallOK(c) /\ VisitOK(c)
        /\ TypeOK /\ Rest(c) \subseteq calls
    BY CallFacts
  <1>2. page \in Page(page) /\ form \in Form(form.ranked, form.amounts) /\ moves \in Nat
    BY <1>1 DEF TypeOK
  <1>3. c.op = "submit" /\ c.status \in {"ok", "refused"} /\ UNCHANGED <<server, ghosts, moves>>
    BY DEF HearSubmit, still
  <1>4. CASE c.status = "ok" /\ c.from = "payment"
    <2> DEFINE a == [c EXCEPT !.op = "initiate", !.status = "pending"]
    <2>1. Stay(IF c.mounted THEN [form EXCEPT !.voteData = c.ref] ELSE form, Rest(c) \cup {a})
      BY <1>4 DEF HearSubmit
    <2>2. /\ form' \in Form(form'.ranked, form'.amounts) /\ form'.voting = form.voting
          /\ form'.step = form.step
      BY <1>1, <1>2, <2>1 DEF Stay, Form, Call
    <2>3. Becomes(c, a) /\ CallOK(a)
      <3>1. /\ a \in Call(a) /\ a.op = "initiate" /\ a.status = "pending" /\ a.ref = c.ref
            /\ a.mounted = c.mounted /\ a.from = c.from /\ a.visit = c.visit /\ a.items = c.items
            /\ a.result = c.result
        BY <1>1 DEF Call, Op, Status
      <3> HIDE DEF a
      <3>2. CallOK(a)
        BY <1>1, <1>3, <1>4, <3>1 DEF CallOK, AboutVote, AboutTx, Records, Read
      <3> QED BY <1>3, <2>1, <3>1, <3>2 DEF Stay, Becomes, InChain, AboutTx, Heir, Rest
    <2> HIDE DEF a
    <2> QED BY <1>2, <1>3, <2>1, <2>2, <2>3, StayKeeps DEF Stay, Busy
  <1>5. CASE c.status = "ok" /\ c.from # "payment"
    <2>1. Show(VoteSuccess(c), Rest(c))
      BY <1>5 DEF HearSubmit
    <2>2. LET p == VoteSuccess(c) IN p \in Page(p) /\ p.name # "paid"
      BY <1>1 DEF VoteSuccess, At, Page, Names, Call
    <2> QED BY <1>1, <1>2, <1>3, <2>1, <2>2, ShowKeeps
  <1>6. CASE c.status = "refused"
    <2>1. Stay(IF c.mounted THEN [form EXCEPT !.voting = FALSE, !.step = "form"] ELSE form, Rest(c))
      BY <1>6 DEF HearSubmit
    <2>2. form' \in Form(form'.ranked, form'.amounts)
      BY <1>2, <2>1 DEF Stay, Form, Steps
    <2>3. CASE c.mounted
      BY <1>2, <1>3, <1>6, <2>1, <2>2, <2>3, DropKeeps DEF Stay, Rest, InChain, AboutTx
    <2>4. CASE ~c.mounted
      BY <1>1, <1>2, <1>3, <2>1, <2>4, StayKeeps DEF Stay, Busy
    <2> QED BY <2>3, <2>4
  <1> QED BY <1>3, <1>4, <1>5, <1>6

(* ... and to a charge, which is then asked about.                         *)
LEMMA HearInitiateKeeps == ASSUME IInv, NEW c \in calls, HearInitiate(c) PROVE IInv'
  <1>1. /\ c \in Call(c) /\ CallOK(c) /\ VisitOK(c)
        /\ TypeOK /\ Rest(c) \subseteq calls
    BY CallFacts
  <1>2. page \in Page(page) /\ form \in Form(form.ranked, form.amounts) /\ moves \in Nat
    BY <1>1 DEF TypeOK
  <1>3. c.op = "initiate" /\ c.status \in {"ok", "refused"} /\ UNCHANGED <<server, ghosts, moves>>
    BY DEF HearInitiate, still
  <1>4. CASE c.status = "ok"
    <2> DEFINE a == [c EXCEPT !.op = "verify", !.status = "pending", !.tries = 1]
    <2>1. Stay(IF c.mounted THEN [form EXCEPT !.step = "polling"] ELSE form, Rest(c) \cup {a})
      BY <1>4 DEF HearInitiate
    <2>2. form' \in Form(form'.ranked, form'.amounts) /\ form'.voting = form.voting /\ (Busy => Busy')
      BY <1>2, <2>1 DEF Stay, Form, Steps, Busy
    <2>3. Becomes(c, a) /\ CallOK(a)
      <3>1. /\ a \in Call(a) /\ a.op = "verify" /\ a.status = "pending" /\ a.ref = c.ref
            /\ a.mounted = c.mounted /\ a.from = c.from /\ a.visit = c.visit /\ a.items = c.items
            /\ a.result = c.result
        BY <1>1 DEF Call, Op, Status
      <3> HIDE DEF a
      <3>2. CallOK(a)
        BY <1>1, <1>3, <1>4, <3>1 DEF CallOK, AboutVote, AboutTx, Records, Read
      <3> QED BY <1>3, <2>1, <3>1, <3>2 DEF Stay, Becomes, InChain, AboutTx, Heir, Rest
    <2> HIDE DEF a
    <2> QED BY <1>2, <1>3, <2>1, <2>2, <2>3, StayKeeps DEF Stay
  <1>5. CASE c.status = "refused"
    <2>1. Stay(IF c.mounted THEN [form EXCEPT !.step = "form"] ELSE form, Rest(c))
      BY <1>3, <1>5 DEF HearInitiate
    <2>2. form' \in Form(form'.ranked, form'.amounts) /\ form'.voting = form.voting
      BY <1>2, <2>1 DEF Stay, Form, Steps
    <2>3. CASE c.mounted
      BY <1>2, <1>3, <1>5, <2>1, <2>2, <2>3, DropKeeps DEF Stay, Rest, InChain, AboutTx
    <2>4. CASE ~c.mounted
      BY <1>1, <1>2, <1>3, <2>1, <2>4, StayKeeps DEF Stay, Busy
    <2> QED BY <2>3, <2>4
  <1> QED BY <1>3, <1>4, <1>5

(* An answer about a payment: a failure is heard of a charge that failed.  *)
LEMMA PollKeeps == ASSUME IInv, NEW c \in calls, pollPaymentStatus(c) PROVE IInv'
  <1>1. /\ c \in Call(c) /\ CallOK(c) /\ VisitOK(c)
        /\ TypeOK /\ Rest(c) \subseteq calls
    BY CallFacts
  <1>2. page \in Page(page) /\ form \in Form(form.ranked, form.amounts) /\ moves \in Nat
    BY <1>1 DEF TypeOK
  <1>3. c.op = "verify" /\ UNCHANGED <<server, moves, faulty>>
    BY DEF pollPaymentStatus
  <1>4. ASSUME NEW step \in Steps, Ends(c, step)
        PROVE  LET f == [form EXCEPT !.step = step]
               IN  /\ form' = (IF c.mounted THEN f ELSE form)
                   /\ form' \in Form(form'.ranked, form'.amounts) /\ form'.voting = form.voting
                   /\ page' = page /\ visit' = visit /\ calls' = Rest(c)
    BY <1>2, <1>4 DEF Ends, Stay, Form
  <1>5. MaxPoll \in Nat
    BY PublicConstants
  <1>6. CASE c.result = "completed"
    <2>1. Show(PaymentSuccess(c), Rest(c)) /\ UNCHANGED gaveUp
      BY <1>6 DEF pollPaymentStatus
    <2>2. LET p == PaymentSuccess(c) IN p \in Page(p) /\ p.items = c.items /\ p.tx = c.ref
      BY <1>1 DEF PaymentSuccess, At, Page, Names, Call
    <2>3. Paid(PaymentSuccess(c))
      BY <1>1, <1>3, <1>6, <2>2 DEF CallOK, AboutTx, Records, Paid
    <2> QED BY <1>1, <1>2, <1>3, <2>1, <2>2, <2>3, ShowKeeps DEF ghosts
  <1>7. CASE c.result = "failed"
    <2>1. Ends(c, "failed")
      BY <1>7 DEF pollPaymentStatus
    <2>2. UNCHANGED <<server, ghosts, moves>>
      BY <1>1, <1>3, <2>1 DEF Ends, ghosts, TypeOK
    <2>3. CASE c.mounted
      <3>1. txs[c.ref].status = "failed"
        BY <1>1, <1>7 DEF CallOK
      <3> QED BY <1>2, <1>3, <1>4, <2>1, <2>2, <2>3, <3>1, DropKeeps DEF Rest, InChain, Steps
    <2>4. CASE ~c.mounted
      BY <1>1, <1>2, <1>3, <1>4, <2>1, <2>2, <2>4, StayKeeps DEF Busy, Steps
    <2> QED BY <2>3, <2>4
  <1>8. CASE c.result \in {"processing", "none"} /\ c.tries >= MaxPoll
    <2>1. ~(c.tries < MaxPoll)
      BY <1>1, <1>8, <1>5 DEF Call
    <2>2. Ends(c, "timeout")
      BY <1>8, <2>1 DEF pollPaymentStatus
    <2>3. gaveUp' = TRUE
      BY <2>2 DEF Ends
    <2>4. /\ form' \in Form(form'.ranked, form'.amounts) /\ form'.voting = form.voting
          /\ page' = page /\ visit' = visit /\ calls' = Rest(c)
      BY <1>4, <2>2 DEF Steps
    <2>5. faulty \in BOOLEAN
      BY <1>1 DEF TypeOK
    <2> QED BY <1>1, <1>2, <1>3, <2>3, <2>4, <2>5, StepKeeps
  <1>9. CASE c.result \in {"processing", "none"} /\ c.tries < MaxPoll
    <2> DEFINE a == [c EXCEPT !.status = "timer"]
    <2>1. ~(c.tries >= MaxPoll)
      BY <1>1, <1>9, <1>5 DEF Call
    <2>2. Stay(form, Rest(c) \cup {a}) /\ UNCHANGED gaveUp
      BY <1>9, <2>1 DEF pollPaymentStatus
    <2>3. Becomes(c, a) /\ CallOK(a)
      <3>1. /\ a \in Call(a) /\ a.op = "verify" /\ a.ref = c.ref
            /\ a.mounted = c.mounted /\ a.from = c.from /\ a.visit = c.visit /\ a.items = c.items
            /\ a.result = c.result
        BY <1>1, <1>3 DEF Call, Status
      <3> HIDE DEF a
      <3>2. CallOK(a)
        BY <1>1, <1>3, <3>1 DEF CallOK, AboutVote, AboutTx, Records
      <3> QED BY <1>3, <2>2, <3>1, <3>2 DEF Stay, Becomes, InChain, AboutTx, Heir, Rest
    <2> HIDE DEF a
    <2> QED BY <1>2, <1>3, <2>2, <2>3, StayKeeps DEF Stay, Busy, ghosts
  <1>10. c.result \in {"completed", "failed", "processing", "none"} /\ c.tries \in Nat
    BY <1>1, <1>3 DEF Call, CallOK, Result, Read
  <1> QED BY <1>6, <1>7, <1>8, <1>9, <1>10, <1>5

(* The timer asks about the same charge again.                             *)
LEMMA TimerKeeps == ASSUME IInv, NEW c \in calls, PollTimer(c) PROVE IInv'
  <1>1. /\ c \in Call(c) /\ CallOK(c) /\ VisitOK(c)
        /\ TypeOK /\ Rest(c) \subseteq calls
    BY CallFacts
  <1>2. page \in Page(page) /\ form \in Form(form.ranked, form.amounts) /\ moves \in Nat
    BY <1>1 DEF TypeOK
  <1> DEFINE a == [c EXCEPT !.status = "pending", !.tries = @ + 1, !.result = "none"]
  <1>3. /\ a \in Call(a) /\ a.op = c.op /\ a.ref = c.ref /\ a.result = "none"
        /\ a.mounted = c.mounted /\ a.from = c.from /\ a.visit = c.visit /\ a.items = c.items
        /\ a.status = "pending"
    <2>1. c.tries + 1 \in Nat
      BY <1>1 DEF Call
    <2> QED BY <1>1, <2>1 DEF Call, Status, Result
  <1>4. calls' = Rest(c) \cup {a} /\ UNCHANGED <<still, page, form, visit>> /\ c.status = "timer"
    BY DEF PollTimer
  <1> HIDE DEF a
  <1>5. c.op = "verify"
    BY <1>1, <1>4 DEF CallOK
  <1>6. CallOK(a)
    BY <1>1, <1>3, <1>5 DEF CallOK, AboutVote, AboutTx, Records
  <1>7. Becomes(c, a)
    BY <1>3, <1>4, <1>5 DEF Becomes, InChain, AboutTx, Heir, Rest
  <1> QED BY <1>2, <1>4, <1>6, <1>7, StayKeeps DEF Busy, still

(* An answer lost: the page believes that its vote came to nothing.        *)
LEMMA LossKeeps == ASSUME IInv, NEW c \in calls, LoseAnswer(c) PROVE IInv'
  <1>1. /\ c \in Call(c) /\ CallOK(c) /\ VisitOK(c)
        /\ TypeOK /\ Rest(c) \subseteq calls
    BY CallFacts
  <1>2. page \in Page(page) /\ form \in Form(form.ranked, form.amounts) /\ moves \in Nat
    BY <1>1 DEF TypeOK
  <1> DEFINE a == [c EXCEPT !.heard = FALSE]
             f == [form EXCEPT !.voting = FALSE, !.step = "form"]
  <1>3. /\ a \in Call(a) /\ a.op = c.op /\ a.ref = c.ref /\ a.result = c.result
        /\ a.mounted = c.mounted /\ a.from = c.from /\ a.visit = c.visit /\ a.items = c.items
        /\ a.status = c.status
    BY <1>1 DEF Call
  <1>4. /\ Stay(IF c.mounted THEN f ELSE form,
                Rest(c) \cup IF c.status = "pending" THEN {a} ELSE {})
        /\ Move /\ faulty' = TRUE /\ UNCHANGED <<server, gaveUp>>
    BY DEF LoseAnswer
  <1>5. f \in Form(f.ranked, f.amounts)
    BY <1>2 DEF Form, Steps
  <1> HIDE DEF a, f
  <1>6. CallOK(a)
    BY <1>1, <1>3 DEF CallOK, AboutVote, AboutTx, Records
  <1>7. Becomes(c, a)
    BY <1>3, <1>4 DEF Stay, Becomes, InChain, AboutTx, Heir, Rest
  <1>8. gaveUp \in BOOLEAN
    BY <1>1 DEF TypeOK
  <1> QED BY <1>2, <1>4, <1>5, <1>6, <1>7, <1>8, StepKeeps DEF Stay, Move

(* Live results change the form only.                                      *)
LEMMA LiveKeeps == ASSUME IInv, HearLive PROVE IInv'
  <1>1. page \in Page(page) /\ form \in Form(form.ranked, form.amounts) /\ moves \in Nat
    BY DEF IInv, TypeOK
  <1>2. /\ form' \in Form(form'.ranked, form'.amounts) /\ form'.voting = form.voting
        /\ form'.step = form.step
    BY <1>1 DEF HearLive, Form
  <1> QED BY <1>1, <1>2, StayKeeps DEF HearLive, still, Busy

-----------------------------------------------------------------------------
(* The server's steps: a call that waited is answered.                     *)
LEMMA ReplyBecomes ==
  ASSUME IInv, NEW c \in calls, c.status = "pending",
         NEW status \in Status, NEW ref \in Nat, NEW result \in Result,
         Reply(c, status, ref, result), c.op = "verify" => ref = c.ref
  PROVE  \E a : /\ Becomes(c, a) /\ a.op = c.op /\ a.items = c.items /\ a.from = c.from
                /\ a.visit = c.visit /\ a.status = status /\ a.ref = ref /\ a.result = result
  <1>1. c \in Call(c)
    BY CallFacts
  <1>2. PICK a : a = [c EXCEPT !.status = status, !.ref = ref, !.result = result]
    OBVIOUS
  <1>3. /\ a \in Call(a) /\ a.op = c.op /\ a.items = c.items /\ a.from = c.from
        /\ a.visit = c.visit /\ a.mounted = c.mounted
        /\ a.status = status /\ a.ref = ref /\ a.result = result
    BY <1>1, <1>2 DEF Call
  <1>4. calls' \subseteq (calls \ {c}) \cup {a}
    BY <1>2 DEF Reply
  <1>5. Becomes(c, a)
    BY <1>3, <1>4 DEF Becomes, Heir, InChain, AboutTx
  <1> QED BY <1>3, <1>5

(* The steps that record nothing.                                          *)
LEMMA AnswerKeeps ==
  ASSUME IInv, NEW c \in calls, c.status = "pending", UNCHANGED <<server, tab>>,
         NEW status \in {"ok", "refused", "401"}, NEW ref \in Nat, NEW result \in Result,
         Reply(c, status, ref, result), c.op = "verify" => ref = c.ref,
         status = "ok" => c.op \in Read \cup {"verify"},
         result \in {"ongoing", "closed"} => c.op \in Read,
         result \in {"completed", "failed"} => c.op = "verify" /\ txs[ref].status = result
  PROVE  IInv'
  <1>1. CallOK(c) /\ TypeOK
    BY CallFacts
  <1>2. PICK a : /\ Becomes(c, a) /\ a.op = c.op /\ a.items = c.items /\ a.from = c.from
                 /\ a.visit = c.visit /\ a.status = status /\ a.ref = ref /\ a.result = result
    BY ReplyBecomes DEF Status
  <1>3. CallOK(a)
    BY <1>1, <1>2 DEF CallOK, AboutVote, AboutTx, Records, Read
  <1> QED BY <1>1, <1>2, <1>3, StayKeeps DEF tab, TypeOK, Busy

(* The server answers a read, ...                                          *)
LEMMA ShowDataKeeps == ASSUME IInv, NEW c \in calls, getPublicShow(c) PROVE IInv'
  <1>1. c.op \in Read /\ c.status = "pending" /\ UNCHANGED <<server, tab>>
    BY DEF getPublicShow
  <1>2. PICK status \in {"ok", "refused", "401"}, result \in {"ongoing", "closed", "none"} :
           Reply(c, status, 0, result)
    BY DEF getPublicShow
  <1>3. c.op # "verify"
    BY <1>1 DEF Read
  <1> QED BY <1>1, <1>2, <1>3, AnswerKeeps DEF Result

(* ... a question about a charge, which may settle it, ...                 *)
LEMMA VerifyKeeps == ASSUME IInv, NEW c \in calls, verifyVotePayment(c) PROVE IInv'
  <1>1. c.op = "verify" /\ c.status = "pending" /\ UNCHANGED <<server, tab>>
    BY DEF verifyVotePayment, Asked
  <1>2. c \in Call(c) /\ CallOK(c) /\ TypeOK
    BY CallFacts
  <1>3. c.ref \in Nat /\ c.ref \in DOMAIN txs /\ txs[c.ref].status \in {"processing", "completed", "failed"}
    <2>1. c.ref \in Nat /\ c.ref \in DOMAIN txs
      BY <1>1, <1>2 DEF Call, CallOK, AboutTx
    <2>2. txs[c.ref] \in Tx
      BY <1>2, <2>1 DEF TypeOK
    <2> QED BY <2>1, <2>2 DEF Tx
  <1>4. CASE Reply(c, "ok", c.ref, txs[c.ref].status)
    BY <1>1, <1>3, <1>4, AnswerKeeps DEF Result
  <1>5. CASE Reply(c, "refused", c.ref, "none")
    BY <1>1, <1>3, <1>5, AnswerKeeps DEF Result
  <1> QED BY <1>4, <1>5 DEF verifyVotePayment

(* A vote is recorded.                                                     *)
LEMMA SubmitPublicKeeps == ASSUME IInv, NEW c \in calls, submitPublic(c) PROVE IInv'
  <1>1. TypeOK /\ BooksOK /\ VisitsOK /\ OneVote /\ OneCharge
    BY DEF IInv
  <1>2. c \in Call(c) /\ CallOK(c) /\ VisitOK(c)
    BY CallFacts
  <1>3. c.op = "submit" /\ c.status = "pending" /\ UNCHANGED <<kind, open, txs, tab>>
    BY DEF submitPublic, Asked
  <1>4. CASE Reply(c, "refused", 0, "none") /\ UNCHANGED votes
    BY <1>3, <1>4, AnswerKeeps DEF Result, server
  <1>5. ASSUME NEW v, v = [items |-> c.items, from |-> c.from, visit |-> c.visit,
                           status |-> IF kind.payment = "paid" THEN "pending" ELSE "counted"],
               votes' = Append(votes, v), Reply(c, "ok", Len(votes) + 1, "none")
        PROVE  IInv'
    <2>0. PICK k : k = Len(votes) + 1
      OBVIOUS
    <2>1. /\ v \in Vote(v.items) /\ v.items = c.items /\ v.from = c.from /\ v.visit = c.visit
      BY <1>2, <1>5 DEF Vote, Call
    <2>2. /\ votes' \in Seq(Range(votes) \cup {v}) /\ Len(votes) \in Nat
          /\ DOMAIN votes' = DOMAIN votes \cup {k} /\ k \notin DOMAIN votes
          /\ \A i \in DOMAIN votes : votes'[i] = votes[i]
          /\ votes'[k] = v /\ k \in Nat
      BY <1>1, <2>0, <1>5, Appended DEF TypeOK
    <2>3. PICK a : /\ Becomes(c, a) /\ a.op = c.op /\ a.items = c.items /\ a.from = c.from
                   /\ a.visit = c.visit /\ a.status = "ok" /\ a.ref = k
                   /\ a.result = "none"
      <3>1. Reply(c, "ok", k, "none")
        BY <1>5, <2>0
      <3>2. "ok" \in Status /\ "none" \in Result /\ k \in Nat /\ c.op # "verify"
        BY <1>3, <2>2 DEF Status, Result
      <3> QED BY <1>3, <3>1, <3>2, ReplyBecomes
    <2>4. \A e \in calls' : e \in calls \ {c} \/ e = a
      BY <2>3 DEF Becomes
    <2>5. /\ page' = page /\ form' = form /\ visit' = visit /\ moves' = moves
          /\ faulty' = faulty /\ gaveUp' = gaveUp /\ kind' = kind /\ open' = open /\ txs' = txs
      BY <1>3 DEF tab, ghosts
    <2>6. TypeOK'
      <3>1. votes' \in Seq(Range(votes'))
        BY <2>2 DEF Range
      <3>2. \A i \in DOMAIN votes' : votes'[i] \in Vote(votes'[i].items)
        BY <1>1, <2>1, <2>2 DEF TypeOK
      <3>3. CallsTyped(calls')
        BY <1>1, <2>3, <2>4 DEF CallsTyped, TypeOK, Becomes
      <3> QED BY <1>1, <2>5, <3>1, <3>2, <3>3 DEF TypeOK
    <2>7. BooksOK'
      <3>1. ASSUME NEW e \in calls PROVE CallOK(e)'
        <4>1. CallOK(e)
          BY <1>1 DEF BooksOK
        <4> QED BY <2>2, <2>5, <4>1 DEF CallOK, AboutVote, AboutTx, Records
      <3>2. CallOK(a)'
        BY <1>3, <2>1, <2>2, <2>3, <2>5 DEF CallOK, AboutVote, AboutTx, Records
      <3>3. ASSUME NEW t \in DOMAIN txs PROVE TxOK(t)'
        BY <1>1, <2>2, <2>5, <3>3 DEF BooksOK, TxOK
      <3>4. page.name = "paid" => Paid(page)'
        BY <1>1, <2>2, <2>5 DEF BooksOK, TxOK, Paid
      <3> QED BY <2>4, <2>5, <3>1, <3>2, <3>3, <3>4 DEF BooksOK
    <2>8. VisitsOK'
      <3>1. \A e \in calls' : VisitOK(e)'
        BY <1>1, <2>3, <2>4, <2>5 DEF VisitsOK, VisitOK, Becomes, Heir
      <3>2. \A i \in DOMAIN votes' : /\ votes'[i].visit <= visit
                                     /\ votes'[i].visit = visit => votes'[i].from = page.name
        BY <1>1, <1>2, <2>1, <2>2 DEF VisitsOK, VisitOK
      <3> QED BY <2>5, <3>1, <3>2 DEF VisitsOK
    <2>9. OneVote'
      <3>1. c \in Submits /\ Submits' \subseteq (Submits \ {c}) \cup {a}
        BY <1>3, <2>3, <2>4 DEF Submits
      <3>2. ASSUME ~faulty, NEW i \in DOMAIN votes PROVE VoteAlone(i)'
        <4>1. VoteAlone(i) /\ c.visit = votes[i].visit => ~Guards(votes[i].from)
          BY <1>3, <3>1, <3>2 DEF VoteAlone
        <4>2. VoteAlone(i)
          BY <1>1, <3>2 DEF OneVote
        <4> QED BY <2>1, <2>2, <2>3, <2>5, <3>1, <4>1, <4>2 DEF VoteAlone, Guards
      <3>3. ASSUME ~faulty PROVE SubmitAlone(c)
        BY <1>1, <3>1, <3>3 DEF OneVote
      <3>4. ASSUME ~faulty PROVE VoteAlone(k)'
        BY <1>3, <2>1, <2>2, <2>3, <2>5, <3>1, <3>3, <3>4 DEF VoteAlone, SubmitAlone, Guards
      <3>5. ASSUME ~faulty PROVE SubmitAlone(a)'
        BY <1>3, <2>1, <2>2, <2>3, <2>5, <3>1, <3>3, <3>5 DEF SubmitAlone, Guards
      <3>6. ASSUME ~faulty, NEW d \in Submits \ {c} PROVE SubmitAlone(d)'
        <4>1. SubmitAlone(d)
          BY <1>1, <3>6 DEF OneVote
        <4>2. Guards(d.from) => c.visit # d.visit
          BY <3>1, <3>6, <4>1 DEF SubmitAlone
        <4> QED BY <2>1, <2>2, <2>3, <2>5, <3>1, <4>1, <4>2 DEF SubmitAlone, Guards
      <3> QED BY <2>2, <2>5, <3>1, <3>2, <3>4, <3>5, <3>6 DEF OneVote
    <2>10. OneCharge'
      <3>1. Live' = Live /\ \A t \in Live : VisitOf(t)' = VisitOf(t)
        BY <1>1, <2>2, <2>5 DEF Live, VisitOf, BooksOK, TxOK
      <3> QED BY <1>1, <2>3, <2>5, <3>1, OneChargeKept DEF Busy
    <2> QED BY <2>6, <2>7, <2>8, <2>9, <2>10 DEF IInv
  <1> QED BY <1>4, <1>5 DEF submitPublic

(* A charge is made, or fails at once.                                     *)
LEMMA ChargeKeeps ==
  ASSUME IInv, NEW c \in calls, c.op = "initiate", c.status = "pending",
         UNCHANGED <<kind, open, votes, tab>>,
         NEW t, t \in Tx, t.vote = c.ref, txs' = Append(txs, t),
         \/ t.status = "processing" /\ Reply(c, "ok", Len(txs) + 1, "none")
         \/ t.status = "failed" /\ Reply(c, "refused", 0, "none")
  PROVE  IInv'
  <1>1. TypeOK /\ BooksOK /\ VisitsOK /\ OneVote /\ OneCharge
    BY DEF IInv
  <1>2. c \in Call(c) /\ CallOK(c) /\ VisitOK(c)
    BY CallFacts
  <1>3. PICK k : k = Len(txs) + 1
    OBVIOUS
  <1>4. /\ txs' \in Seq(Tx) /\ k \in Nat
        /\ DOMAIN txs' = DOMAIN txs \cup {k} /\ k \notin DOMAIN txs
        /\ \A u \in DOMAIN txs : txs'[u] = txs[u]
        /\ txs'[k] = t
    BY <1>1, <1>3, Appended DEF TypeOK
  <1>5. PICK a : /\ Becomes(c, a) /\ a.op = c.op /\ a.items = c.items /\ a.from = c.from
                 /\ a.visit = c.visit /\ a.result = "none"
                 /\ \/ t.status = "processing" /\ a.status = "ok" /\ a.ref = k
                    \/ t.status = "failed" /\ a.status = "refused"
    <2>1. CASE t.status = "processing" /\ Reply(c, "ok", Len(txs) + 1, "none")
      BY <1>3, <1>4, <2>1, ReplyBecomes DEF Status, Result
    <2>2. CASE t.status = "failed" /\ Reply(c, "refused", 0, "none")
      BY <2>2, ReplyBecomes DEF Status, Result
    <2> QED BY <2>1, <2>2
  <1>6. \A e \in calls' : e \in calls \ {c} \/ e = a
    BY <1>5 DEF Becomes
  <1>7. /\ page' = page /\ form' = form /\ visit' = visit /\ moves' = moves
        /\ faulty' = faulty /\ gaveUp' = gaveUp /\ kind' = kind /\ open' = open /\ votes' = votes
    BY DEF tab, ghosts
  <1>8. Records(c.ref, c) /\ c.from = "payment" /\ ~AboutTx(c)
    BY <1>2 DEF CallOK, AboutVote, AboutTx
  <1>9. TypeOK'
    <2>1. CallsTyped(calls')
      BY <1>1, <1>5, <1>6 DEF CallsTyped, TypeOK, Becomes
    <2> QED BY <1>1, <1>4, <1>7, <2>1 DEF TypeOK
  <1>10. BooksOK'
    <2>1. ASSUME NEW e \in calls PROVE CallOK(e)'
      <3>1. CallOK(e)
        BY <1>1 DEF BooksOK
      <3>2. e.op = "verify" => e.ref \in DOMAIN txs
        BY <3>1 DEF CallOK, AboutTx
      <3> QED BY <1>4, <1>7, <3>1, <3>2 DEF CallOK, AboutVote, AboutTx, Records
    <2>2. CallOK(a)'
      BY <1>4, <1>5, <1>7, <1>8 DEF CallOK, AboutVote, AboutTx, Records
    <2>3. ASSUME NEW u \in DOMAIN txs' PROVE TxOK(u)'
      <3>1. CASE u = k
        BY <1>4, <1>5, <1>7, <1>8, <3>1 DEF TxOK, Records
      <3>2. CASE u \in DOMAIN txs
        BY <1>1, <1>4, <1>7, <3>2 DEF BooksOK, TxOK
      <3> QED BY <1>4, <3>1, <3>2
    <2>4. page.name = "paid" => Paid(page)'
      BY <1>1, <1>4, <1>7 DEF BooksOK, Paid
    <2> QED BY <1>6, <1>7, <2>1, <2>2, <2>3, <2>4 DEF BooksOK
  <1>11. VisitsOK'
    BY <1>1, <1>5, <1>7, VisitsKept
  <1>12. OneVote'
    BY <1>1, <1>5, <1>7, OneVoteKept
  <1>13. \A u \in Live : VisitOf(u)' = VisitOf(u)
    BY <1>4, <1>7 DEF Live, VisitOf
  <1>14. CASE t.status = "failed"
    <2>1. Live' = Live
      BY <1>4, <1>14 DEF Live
    <2> QED BY <1>1, <1>5, <1>7, <1>9, <1>10, <1>11, <1>12, <1>13, <2>1, OneChargeKept DEF IInv, Busy
  <1>15. CASE t.status = "processing"
    <2>1. Live' = Live \cup {k} /\ VisitOf(k)' = c.visit /\ k \notin Live
      BY <1>4, <1>7, <1>8, <1>15 DEF Live, VisitOf, Records
    <2>2. c \in Charges /\ Charges' \subseteq (Charges \ {c}) \cup {a} /\ AboutTx(a) /\ a.ref = k
      BY <1>5, <1>6, <1>8, <1>15 DEF Charges, AboutTx
    <2>3. ASSUME ~faulty, ~gaveUp
          PROVE  /\ ChargeAlone(c) /\ \A e \in Charges : ChargeAlone(e)
                 /\ \A u \in Live : LiveAlone(u) /\ VisitOf(u) # c.visit
      BY <1>1, <1>8, <2>2, <2>3 DEF OneCharge, LiveAlone
    <2>4. ASSUME ~faulty, ~gaveUp, NEW e \in Charges' PROVE ChargeAlone(e)'
      <3>1. CASE e = a
        BY <1>5, <1>7, <2>2, <2>3, <2>4, <3>1 DEF ChargeAlone, Busy
      <3>2. CASE e \in Charges \ {c}
        <4>1. ChargeAlone(e) /\ ChargeAlone(c)
          BY <2>3, <2>4, <3>2
        <4> QED BY <1>5, <1>7, <2>2, <3>2, <4>1 DEF ChargeAlone, Busy
      <3> QED BY <2>2, <3>1, <3>2
    <2>5. ASSUME ~faulty, ~gaveUp, NEW u \in Live PROVE LiveAlone(u)'
      <3>1. LiveAlone(u) /\ VisitOf(u) # c.visit /\ \A w \in Live : VisitOf(w)' = VisitOf(w)
        BY <1>13, <2>3, <2>5
      <3> QED BY <1>5, <1>7, <2>1, <2>2, <3>1 DEF LiveAlone, Busy, AboutTx
    <2>6. ASSUME ~faulty, ~gaveUp PROVE LiveAlone(k)'
      <3>1. \A w \in Live : VisitOf(w)' = VisitOf(w) /\ VisitOf(w) # c.visit
        BY <1>13, <2>3, <2>6
      <3>2. \A e \in Charges \ {c} : e.visit # c.visit
        BY <2>2, <2>3, <2>6 DEF ChargeAlone
      <3>3. c.visit = visit => Busy
        BY <2>3, <2>6 DEF ChargeAlone
      <3> QED BY <1>5, <1>7, <2>1, <2>2, <3>1, <3>2, <3>3 DEF LiveAlone, Busy, AboutTx
    <2>7. OneCharge'
      BY <1>7, <2>1, <2>4, <2>5, <2>6 DEF OneCharge
    <2> QED BY <1>9, <1>10, <1>11, <1>12, <2>7 DEF IInv
  <1> QED BY <1>14, <1>15

(* ... and a request for a charge, which makes one for the vote of the call.*)
LEMMA InitiateKeeps == ASSUME IInv, NEW c \in calls, initiateForVote(c) PROVE IInv'
  <1>1. c.op = "initiate" /\ c.status = "pending" /\ UNCHANGED <<kind, open, votes, tab>>
    BY DEF initiateForVote, Asked
  <1>2. c.ref \in Nat
    BY CallFacts DEF Call
  <1>3. \A s \in {"processing", "failed"} : LET t == [vote |-> c.ref, status |-> s]
                                             IN  t \in Tx /\ t.vote = c.ref /\ t.status = s
    BY <1>2 DEF Tx
  <1>4. CASE /\ txs' = Append(txs, [vote |-> c.ref, status |-> "processing"])
             /\ Reply(c, "ok", Len(txs) + 1, "none")
    BY <1>1, <1>3, <1>4, ChargeKeeps
  <1>5. CASE /\ txs' = Append(txs, [vote |-> c.ref, status |-> "failed"])
             /\ Reply(c, "refused", 0, "none")
    BY <1>1, <1>3, <1>5, ChargeKeeps
  <1>6. CASE Reply(c, "refused", 0, "none") /\ UNCHANGED txs
    BY <1>1, <1>6, AnswerKeeps DEF Result, server
  <1> QED BY <1>4, <1>5, <1>6 DEF initiateForVote

(* The payer answers.                                                      *)
LEMMA SettleKeeps == ASSUME IInv, NEW t \in DOMAIN txs, Settle(t) PROVE IInv'
  <1>1. TypeOK /\ BooksOK /\ VisitsOK /\ OneVote /\ OneCharge
    BY DEF IInv
  <1>2. PICK s \in {"completed", "failed"} :
           /\ txs' = [txs EXCEPT ![t].status = s]
           /\ s = "completed" => votes' = [votes EXCEPT ![txs[t].vote].status = "counted"]
           /\ s = "failed" => votes' = votes
    BY DEF Settle
  <1>3. /\ page' = page /\ form' = form /\ visit' = visit /\ moves' = moves /\ calls' = calls
        /\ faulty' = faulty /\ gaveUp' = gaveUp /\ kind' = kind /\ open' = open
        /\ txs[t].status = "processing"
    BY DEF Settle, tab, ghosts
  <1>4. txs[t] \in Tx /\ txs[t].vote \in DOMAIN votes /\ txs \in Seq(Tx)
    BY <1>1 DEF TypeOK, BooksOK, TxOK
  <1>5. /\ DOMAIN votes' = DOMAIN votes
        /\ \A i \in DOMAIN votes :
             /\ votes'[i].items = votes[i].items /\ votes'[i].from = votes[i].from
             /\ votes'[i].visit = votes[i].visit /\ votes'[i] \in Vote(votes'[i].items)
             /\ votes[i].status = "counted" => votes'[i].status = "counted"
        /\ s = "completed" => votes'[txs[t].vote].status = "counted"
    <2>1. \A i \in DOMAIN votes : votes[i] \in Vote(votes[i].items)
      BY <1>1 DEF TypeOK
    <2>2. CASE s = "failed"
      BY <1>2, <2>1, <2>2
    <2>3. CASE s = "completed"
      <3> DEFINE v == txs[t].vote
      <3>1. /\ DOMAIN votes' = DOMAIN votes /\ v \in DOMAIN votes
            /\ votes'[v] = [votes[v] EXCEPT !.status = "counted"]
            /\ \A i \in DOMAIN votes : i # v => votes'[i] = votes[i]
        BY <1>1, <1>2, <1>4, <2>3 DEF TypeOK
      <3>2. LET w == [votes[v] EXCEPT !.status = "counted"]
            IN  /\ w \in Vote(w.items) /\ w.items = votes[v].items /\ w.from = votes[v].from
                /\ w.visit = votes[v].visit /\ w.status = "counted"
        BY <1>4, <2>1 DEF Vote
      <3> QED BY <2>1, <2>3, <3>1, <3>2
    <2> QED BY <2>2, <2>3
  <1>6. /\ txs' \in Seq(Tx) /\ DOMAIN txs' = DOMAIN txs
        /\ \A u \in DOMAIN txs : txs'[u].vote = txs[u].vote /\ (u # t => txs'[u] = txs[u])
        /\ txs'[t].status = s
    <2>1. [txs[t] EXCEPT !.status = s] \in Tx
      BY <1>4 DEF Tx
    <2>2. txs' = [txs EXCEPT ![t] = [txs[t] EXCEPT !.status = s]]
      BY <1>2, <1>4
    <2> QED BY <1>2, <1>4, <2>1, <2>2 DEF Tx
  <1>7. TypeOK'
    <2>1. votes' \in Seq(Range(votes'))
      <3>1. votes \in Seq(Range(votes)) /\ \A i \in DOMAIN votes' : votes'[i] \in Range(votes')
        BY <1>1 DEF TypeOK, Range
      <3>2. CASE s = "failed"
        BY <1>2, <3>1, <3>2
      <3>3. CASE s = "completed"
        BY <1>2, <1>5, <3>1, <3>3
      <3> QED BY <3>2, <3>3
    <2> QED BY <1>1, <1>3, <1>5, <1>6, <2>1 DEF TypeOK
  <1>8. BooksOK'
    <2>1. ASSUME NEW e \in calls PROVE CallOK(e)'
      <3>1. CallOK(e) /\ (e.op = "verify" => e.ref \in DOMAIN txs)
        BY <1>1 DEF BooksOK, CallOK, AboutTx
      <3> QED BY <1>3, <1>5, <1>6, <3>1 DEF CallOK, AboutVote, AboutTx, Records
    <2>2. ASSUME NEW u \in DOMAIN txs PROVE TxOK(u)'
      <3>1. TxOK(u)
        BY <1>1 DEF BooksOK
      <3> QED BY <1>5, <1>6, <3>1 DEF TxOK
    <2>3. page.name = "paid" => Paid(page)'
      BY <1>1, <1>3, <1>5, <1>6 DEF BooksOK, Paid, TxOK
    <2> QED BY <1>3, <1>6, <2>1, <2>2, <2>3 DEF BooksOK
  <1>9. VisitsOK'
    BY <1>1, <1>3, <1>5, VisitsKept
  <1>10. OneVote'
    BY <1>1, <1>3, <1>5, OneVoteKept
  <1>11. OneCharge'
    <2>1. Live' \subseteq Live
      BY <1>3, <1>6 DEF Live
    <2>2. \A u \in Live' : VisitOf(u)' = VisitOf(u)
      BY <1>1, <1>5, <1>6 DEF Live, VisitOf, BooksOK, TxOK
    <2> QED BY <1>1, <1>3, <2>1, <2>2, OneChargeKept DEF Busy
  <1> QED BY <1>7, <1>8, <1>9, <1>10, <1>11 DEF IInv

-----------------------------------------------------------------------------
(* A first page, and its reads.                                            *)
LEMMA InitKeeps == Init => IInv
  <1> SUFFICES ASSUME Init PROVE IInv
    OBVIOUS
  <1>1. PICK name \in {"elections", "portal"} : page = At(name, <<>>, "elections")
    BY DEF Init
  <1>2. page \in Page(page) /\ page.name \in {"elections", "portal"}
    BY <1>1 DEF Page, At, Names
  <1>3. /\ kind \in Kind /\ open = TRUE /\ votes = <<>> /\ txs = <<>> /\ visit = 0 /\ moves = 0
        /\ faulty = FALSE /\ gaveUp = FALSE
    BY DEF Init
  <1>4. form \in Form(form.ranked, form.amounts)
    <2>1. form \in Form(<<>>, <<>>)
      BY DEF Init, FreshForm, Form, Steps, Result
    <2> QED BY <2>1 DEF Form
  <1>5. Loads(page) \subseteq Read
    BY DEF Loads, Read
  <1>6. ASSUME NEW e \in calls
        PROVE  /\ e \in Call(e) /\ e.op \in Read /\ e.visit = 0 /\ e.from = page.name
               /\ e.result = "none" /\ e.status = "pending"
    <2>1. PICK op \in Read : e = NewCall(op, <<>>, page.name, 0)
      BY <1>5 DEF Init
    <2>2. page.name \in Names /\ moves \in Nat /\ op \in Op
      BY <1>2, <1>3 DEF Page, Op
    <2> QED BY <2>1, <2>2 DEF NewCall, Call, Status, Result
  <1>7. TypeOK
    <2>1. votes \in Seq(Range(votes)) /\ txs \in Seq(Tx) /\ DOMAIN votes = {}
      BY <1>3, EmptySeq
    <2> QED BY <1>2, <1>3, <1>4, <1>6, <2>1 DEF TypeOK, CallsTyped
  <1>8. BooksOK
    BY <1>2, <1>3, <1>6 DEF BooksOK, CallOK, AboutVote, AboutTx, Read
  <1>9. VisitsOK
    BY <1>3, <1>6 DEF VisitsOK, VisitOK
  <1>10. Submits = {} /\ Charges = {} /\ Live = {}
    BY <1>3, <1>6 DEF Submits, Charges, Live, Read
  <1>11. OneVote /\ OneCharge
    BY <1>3, <1>10 DEF OneVote, OneCharge
  <1> QED BY <1>7, <1>8, <1>9, <1>11 DEF IInv

(* What the invariant is about stays as it is.                             *)
LEMMA Untouched ==
  ASSUME IInv, page' = page, form' = form, visit' = visit, moves' = moves, calls' = calls,
         faulty' = faulty, gaveUp' = gaveUp, kind' = kind, open' \in BOOLEAN,
         votes' = votes, txs' = txs
  PROVE  IInv'
  <1>1. TypeOK /\ BooksOK /\ VisitsOK /\ OneVote /\ OneCharge
    BY DEF IInv
  <1>2. TypeOK'
    BY <1>1 DEF TypeOK, CallsTyped
  <1>3. BooksOK'
    <2>1. ASSUME NEW e \in calls PROVE CallOK(e)'
      <3>1. CallOK(e)
        BY <1>1 DEF BooksOK
      <3> QED BY <3>1 DEF CallOK, AboutVote, AboutTx, Records
    <2> QED BY <1>1, <2>1 DEF BooksOK, TxOK, Paid
  <1>4. VisitsOK' /\ OneVote' /\ OneCharge'
    BY <1>1, VisitsKept, OneVoteKept, OneChargeKept DEF Live, VisitOf, Busy
  <1> QED BY <1>2, <1>3, <1>4 DEF IInv

(* The election closes.                                                    *)
LEMMA CloseKeeps == ASSUME IInv, CloseElection PROVE IInv'
  BY Untouched DEF CloseElection, tab, ghosts

(* Every step keeps the invariant.                                         *)
LEMMA StepsKeep == IInv /\ [Next]_vars => IInv'
  <1> SUFFICES ASSUME IInv, [Next]_vars PROVE IInv'
    OBVIOUS
  <1>1. CASE Voter \/ HearLive \/ CloseElection
    BY <1>1, VoterKeeps, LiveKeeps, CloseKeeps
  <1>2. ASSUME NEW c \in calls, Serve(c) PROVE IInv'
    BY <1>2, ShowDataKeeps, SubmitPublicKeeps, InitiateKeeps, VerifyKeeps DEF Serve
  <1>3. ASSUME NEW c \in calls, Hear(c) \/ PollTimer(c) \/ LoseAnswer(c) PROVE IInv'
    BY <1>3, HearReads, HearSubmitKeeps, HearInitiateKeeps, PollKeeps, TimerKeeps, LossKeeps DEF Hear
  <1>4. ASSUME NEW t \in DOMAIN txs, Settle(t) PROVE IInv'
    BY <1>4, SettleKeeps
  <1>5. CASE UNCHANGED vars
    BY <1>5, Untouched DEF vars, server, ghosts, IInv, TypeOK
  <1> QED BY <1>1, <1>2, <1>3, <1>4, <1>5 DEF Next

(* For any candidates, prices and moves, pages, calls, votes and charges stay*)
(* in step with each other.                                                *)
THEOREM InvariantHolds == Spec => []IInv
  BY InitKeeps, StepsKeep, PTL DEF Spec

-----------------------------------------------------------------------------
(* The amount that a payment page will name.  A call of a vote carries no  *)
(* total, its own, or that of a vote that its visit created before its own.*)
Before(i, c) ==
    /\ votes[i].visit = c.visit /\ votes[i].items = c.total
    /\ AboutVote(c) => i < c.ref
    /\ AboutTx(c) => i < txs[c.ref].vote

TotalOK(c) == c.total \in {<<>>, c.items} \/ \E i \in DOMAIN votes : Before(i, c)

Created(k) == k = 0 \/ (k \in DOMAIN votes /\ votes[k].visit = visit)

PaidTotal(p) ==
    \/ p.total \in {<<>>, p.items}
    \/ \E i \in DOMAIN votes : /\ i < txs[p.tx].vote /\ votes[i].items = p.total
                               /\ votes[i].visit = votes[txs[p.tx].vote].visit

TotalsOK ==
    /\ Created(form.voteData)
    /\ \A c \in calls : InChain(c) => TotalOK(c)
    /\ page.name = "paid" => PaidTotal(page)

(* Votes and charges are added, and keep what they are of.                 *)
Grows ==
    /\ DOMAIN votes \subseteq DOMAIN votes' /\ DOMAIN txs \subseteq DOMAIN txs'
    /\ \A i \in DOMAIN votes : /\ votes'[i].items = votes[i].items
                               /\ votes'[i].visit = votes[i].visit
    /\ \A t \in DOMAIN txs : txs'[t].vote = txs[t].vote

(* e is d, a step further: about the same vote.                            *)
Follows(d, e) ==
    /\ InChain(d) /\ e.items = d.items /\ e.total = d.total /\ e.visit = d.visit
    /\ AboutVote(e) => AboutVote(d) /\ e.ref = d.ref
    /\ AboutTx(e) => AboutTx(d) /\ e.ref = d.ref

(* What a step must show of the totals.                                    *)
LEMMA TotalsKept ==
  ASSUME IInv, TotalsOK, Grows,
         \/ form'.voteData = 0
         \/ form'.voteData = form.voteData /\ visit' = visit
         \/ Created(form'.voteData) /\ visit' = visit,
         \A e \in calls' : InChain(e) => TotalOK(e)' \/ \E d \in calls : Follows(d, e),
         page'.name = "paid" => page' = page \/ PaidTotal(page)'
  PROVE  TotalsOK'
  <1>1. BooksOK
    BY DEF IInv
  <1>2. Created(form.voteData)'
    BY DEF TotalsOK, Created, Grows
  <1>3. ASSUME NEW e \in calls', InChain(e) PROVE TotalOK(e)'
    <2>1. CASE \E d \in calls : Follows(d, e)
      <3>1. PICK d \in calls : Follows(d, e)
        BY <2>1
      <3>2. CallOK(d) /\ TotalOK(d)
        BY <1>1, <3>1 DEF BooksOK, TotalsOK, Follows
      <3>3. AboutTx(d) => d.ref \in DOMAIN txs
        BY <3>2 DEF CallOK
      <3>4. AboutVote(e)' = AboutVote(e) /\ AboutTx(e)' = AboutTx(e)
        BY DEF AboutVote, AboutTx
      <3>5. ASSUME NEW i \in DOMAIN votes, Before(i, d) PROVE Before(i, e)'
        BY <3>1, <3>3, <3>4, <3>5 DEF Before, Follows, Grows
      <3> QED BY <3>1, <3>2, <3>5 DEF TotalOK, Follows, Grows
    <2> QED BY <1>3, <2>1
  <1>4. page'.name = "paid" => PaidTotal(page)'
    <2>1. CASE page'.name = "paid" /\ page' = page
      <3>1. /\ PaidTotal(page) /\ page.tx \in DOMAIN txs
            /\ txs[page.tx].vote \in DOMAIN votes
        BY <1>1, <2>1 DEF TotalsOK, BooksOK, Paid, TxOK
      <3> QED BY <2>1, <3>1 DEF PaidTotal, Grows
    <2> QED BY <2>1
  <1>5. \A e \in calls' : InChain(e)' = InChain(e)
    BY DEF InChain
  <1> QED BY <1>2, <1>3, <1>4, <1>5 DEF TotalsOK

(* A step that records nothing lets everything grow.                       *)
LEMMA QuietGrows == UNCHANGED server => Grows
  BY DEF server, Grows

(* A page shown drops what the page before it knew.                        *)
LEMMA ShowTotals ==
  ASSUME IInv, TotalsOK, NEW p, p \in Page(p), NEW cs \in SUBSET calls, Show(p, cs),
         UNCHANGED server, p.name = "paid" => PaidTotal(p)
  PROVE  TotalsOK'
  <1>1. TypeOK
    BY DEF IInv
  <1>2. form'.voteData = 0 /\ page' = p
    BY DEF Show, FreshForm
  <1>3. ASSUME NEW e \in calls', InChain(e) PROVE \E d \in calls : Follows(d, e)
    <2>1. PICK d \in calls : e = Unmounted(d)
      BY <1>1, <1>3, ShowTypes DEF InChain, Read
    <2>2. d \in Call(d)
      BY <1>1 DEF TypeOK, CallsTyped
    <2>3. /\ e.op = d.op /\ e.items = d.items /\ e.total = d.total /\ e.visit = d.visit
          /\ e.ref = d.ref /\ e.status = d.status
      BY <2>1, <2>2 DEF Call, Unmounted
    <2> QED BY <1>3, <2>3 DEF Follows, InChain, AboutVote, AboutTx
  <1>4. PaidTotal(p)' = PaidTotal(p)
    BY DEF PaidTotal, server
  <1> QED BY <1>2, <1>3, <1>4, QuietGrows, TotalsKept

(* So does a step of the tab on its page that calls nobody anew.           *)
LEMMA StayTotals ==
  ASSUME IInv, TotalsOK, UNCHANGED server, visit' = visit,
         page' = page \/ page'.name # "paid",
         form'.voteData \in {0, form.voteData} \/ Created(form'.voteData),
         \A e \in calls' : e \in calls \/ ~InChain(e) \/ \E d \in calls : Follows(d, e)
  PROVE  TotalsOK'
  <1>1. \A e \in calls : InChain(e) => Follows(e, e)
    BY DEF Follows
  <1>2. Grows
    BY QuietGrows
  <1>3. \A e \in calls' : InChain(e) => \E d \in calls : Follows(d, e)
    BY <1>1
  <1>4. page'.name = "paid" => page' = page
    OBVIOUS
  <1> QED BY <1>2, <1>3, <1>4, TotalsKept

(* A vote submitted names no total, its own, or one created before.        *)
LEMMA BallotTotals ==
  ASSUME IInv, TotalsOK, NEW n, Submission(n), NEW f, Ballot(f, calls \cup {n}),
         f.voteData = form.voteData,
         n.total \in {<<>>, n.items}
           \/ (form.voteData # 0 /\ n.total = votes[form.voteData].items)
  PROVE  TotalsOK'
  <1>1. /\ UNCHANGED server /\ visit' = visit /\ page' = page /\ form' = f
        /\ calls' = calls \cup {n} /\ votes' = votes
    BY DEF Ballot, Stay, server
  <1>2. TotalOK(n)'
    <2>1. CASE n.total \in {<<>>, n.items}
      BY <2>1 DEF TotalOK
    <2>2. CASE form.voteData # 0 /\ n.total = votes[form.voteData].items
      <3>1. form.voteData \in DOMAIN votes /\ votes[form.voteData].visit = visit
        BY <2>2 DEF TotalsOK, Created
      <3>2. ~AboutVote(n)' /\ ~AboutTx(n)' /\ n.visit = visit
        BY DEF Submission, AboutVote, AboutTx
      <3>3. Before(form.voteData, n)'
        BY <1>1, <2>2, <3>1, <3>2 DEF Before
      <3> QED BY <1>1, <3>1, <3>3 DEF TotalOK
    <2> QED BY <2>1, <2>2
  <1>3. \A e \in calls : InChain(e) => Follows(e, e)
    BY DEF Follows
  <1>4. Grows
    BY <1>1, QuietGrows
  <1>5. \A e \in calls' : InChain(e) => TotalOK(e)' \/ \E d \in calls : Follows(d, e)
    BY <1>1, <1>2, <1>3
  <1> QED BY <1>1, <1>4, <1>5, TotalsKept

(* What the voter does is to go to a page, to fill the form, or to submit. *)
LEMMA VoterTotals == ASSUME IInv, TotalsOK, Voter PROVE TotalsOK'
  <1>1. TypeOK /\ page.name \in Names
    BY DEF IInv, TypeOK, Page
  <1>2. ASSUME NEW name \in Names, name # "paid", NEW items, NEW via \in Names \cup {"share"},
               ToPage(At(name, items, via))
        PROVE  TotalsOK'
    <2>1. PICK p : p = At(name, items, via)
      OBVIOUS
    <2>2. p \in Page(p) /\ p.name # "paid" /\ Show(p, calls) /\ UNCHANGED server
      BY <1>2, <2>1, Pages DEF ToPage
    <2> QED BY <2>2, ShowTotals
  <1>3. \A f : f.voteData \in {0, form.voteData} /\ Ballot(f, calls) => TotalsOK'
    BY StayTotals DEF Ballot, Stay
  <1>4. form.voteData \in Nat /\ form \in Form(form.ranked, form.amounts)
    BY <1>1 DEF TypeOK, Form
  <1>5. ASSUME NEW items, Submit([form EXCEPT !.voting = TRUE], items) PROVE TotalsOK'
    <2>1. PICK n : n = NewCall("submit", items, page.name, visit)
      OBVIOUS
    <2>2. PICK f : f = [form EXCEPT !.voting = TRUE]
      OBVIOUS
    <2>3. Submission(n) /\ n.total = <<>>
      BY <1>1, <2>1, Submissions DEF NewCall
    <2>4. f.voteData = form.voteData /\ Ballot(f, calls \cup {n})
      BY <1>4, <1>5, <2>1, <2>2 DEF Form, Submit
    <2> QED BY <2>3, <2>4, BallotTotals
  <1>6. CASE Browse
    <2>1. CASE page.name = "elections" /\ \E p \in {"portal", "results", "categories"} :
                 ToPage(At(p, <<>>, "elections"))
      BY <1>2, <2>1 DEF Names
    <2>2. CASE page.name = "elections"
               /\ \E x \in Candidate : ToPage(At("details", One(x, 0), "share"))
      BY <1>2, <2>2 DEF Names
    <2>3. CASE On("portal") /\ \E p \in {"categories", "results"} : ToPage(At(p, <<>>, "portal"))
      BY <1>2, <2>3 DEF Names
    <2>4. CASE On("categories") /\ form.election # "none"
               /\ ToPage(At("category", <<>>, "categories"))
      BY <1>2, <2>4 DEF Names
    <2>5. CASE page.name \notin {"elections", "portal"}
               /\ ToPage(At(IF page.via = "share" THEN "elections" ELSE "portal", <<>>, "elections"))
      BY <1>2, <2>5 DEF Names
    <2> QED BY <1>6, <2>1, <2>2, <2>3, <2>4, <2>5 DEF Browse
  <1>7. ASSUME NEW x \in Candidate,
               viewCandidateDetails(x) \/ handleVote(x) \/ handleCategoryVote(x) \/ handleDetailsVote(x)
        PROVE  TotalsOK'
    <2>1. \/ submitFreeVote(x)
          \/ ToPage(At("details", One(x, 0), page.name))
          \/ ToPage(At("home", <<>>, "elections"))
          \/ ToPage(At("payment", One(x, Price), "portal"))
          \/ ToPage(At("payment", One(x, Price), "details"))
      BY <1>7 DEF viewCandidateDetails, handleVote, handleCategoryVote, handleDetailsVote
    <2> QED BY <1>1, <1>2, <1>5, <2>1 DEF submitFreeVote, Names
  <1>8. CASE submitRankedVote
    BY <1>5, <1>8 DEF submitRankedVote
  <1>9. CASE continueMultipleToPayment
    BY <1>2, <1>9 DEF continueMultipleToPayment, Names
  <1>10. ASSUME NEW x \in Candidate, rankCandidate(x) \/ chooseCandidate(x) PROVE TotalsOK'
    <2>1. PICK a, f : Ballot(f, calls) /\ f \in {[form EXCEPT !.ranked = a], [form EXCEPT !.amounts = a]}
      BY <1>10 DEF rankCandidate, chooseCandidate
    <2> QED BY <1>3, <1>4, <2>1 DEF Form
  <1>11. CASE typeAmount
    <2>1. PICK a \in Amount : page' = [page EXCEPT !.items[1].amount = a]
      BY <1>11 DEF typeAmount
    <2>2. page'.name # "paid"
      BY <1>1, <1>11, <2>1 DEF typeAmount, TypeOK, Page
    <2> QED BY <1>11, <2>2, StayTotals DEF typeAmount
  <1>12. CASE handleConfirmPayment
    <2>1. PICK n, f : /\ n = [NewCall("submit", page.items, page.name, visit) EXCEPT !.total = total_amount]
                      /\ f = [form EXCEPT !.step = "creating"] /\ Ballot(f, calls \cup {n})
      BY <1>12 DEF handleConfirmPayment
    <2>2. Submission(n) /\ n.items = page.items /\ n.total = total_amount
      BY <1>1, <2>1, Submissions
    <2>3. f.voteData = form.voteData
      BY <1>4, <2>1 DEF Form
    <2>4. \/ n.total \in {<<>>, n.items}
          \/ form.voteData # 0 /\ n.total = votes[form.voteData].items
      BY <2>2 DEF total_amount
    <2> QED BY <2>1, <2>2, <2>3, <2>4, BallotTotals
  <1>13. CASE handleRetry
    BY <1>3, <1>4, <1>13 DEF handleRetry, Form
  <1> QED BY <1>6, <1>7, <1>8, <1>9, <1>10, <1>11, <1>12, <1>13 DEF Voter

(* What the tab hears of its calls.                                        *)
LEMMA HearTotals ==
  ASSUME IInv, TotalsOK, NEW c \in calls, Hear(c) \/ PollTimer(c) \/ LoseAnswer(c)
  PROVE  TotalsOK'
  <1>1. /\ c \in Call(c) /\ CallOK(c) /\ VisitOK(c)
        /\ TypeOK /\ Rest(c) \subseteq calls
    BY CallFacts
  <1>2. form \in Form(form.ranked, form.amounts)
    BY <1>1 DEF TypeOK
  <1>3. ASSUME NEW f, NEW cs, Stay(f, cs), UNCHANGED server,
               f.voteData = form.voteData \/ Created(f.voteData),
               \A e \in cs : e \in calls \/ ~InChain(e) \/ Follows(c, e)
        PROVE  TotalsOK'
    BY <1>3, StayTotals DEF Stay
  <1>4. CASE HearElection(c)
    <2>1. PICK f, a : /\ a = [c EXCEPT !.op = "final", !.status = "pending", !.result = "none"]
                      /\ \E cs \in {Rest(c) \cup {a}, Rest(c) \cup {}} : Stay(f, cs)
                      /\ \E l : f \in {form, [form EXCEPT !.election = c.result, !.loading = l]}
      BY <1>4 DEF HearElection
    <2>2. ~InChain(a) /\ f.voteData = form.voteData /\ UNCHANGED server
      BY <1>1, <1>2, <1>4, <2>1 DEF Call, InChain, Form, HearElection, still
    <2> QED BY <1>1, <1>3, <2>1, <2>2
  <1>5. CASE HearFinal(c) \/ HearCategories(c) \/ (HearCandidate(c) /\ c.status # "401")
    <2>1. PICK f : /\ Stay(f, Rest(c)) /\ UNCHANGED server
                   /\ \E x, y : f \in {form, [form EXCEPT !.loading = FALSE, !.scores = x],
                                       [form EXCEPT !.loading = FALSE, !.election = x],
                                       [form EXCEPT !.loading = FALSE, !.candidate = x]}
      BY <1>5 DEF HearFinal, HearCategories, HearCandidate, still
    <2>2. f.voteData = form.voteData
      BY <1>2, <2>1 DEF Form
    <2> QED BY <1>1, <1>3, <2>1, <2>2
  <1>6. CASE HearCandidate(c) /\ c.status = "401"
    <2>1. PICK p : p = At("unauthorized", <<>>, "elections")
      OBVIOUS
    <2>2. p \in Page(p) /\ p.name # "paid"
      BY <2>1, Pages DEF Names
    <2>3. Show(p, Rest(c)) /\ UNCHANGED server
      BY <1>6, <2>1 DEF HearCandidate, still
    <2> QED BY <1>1, <2>2, <2>3, ShowTotals
  <1>7. CASE HearSubmit(c)
    <2>1. c.op = "submit" /\ c.status \in {"ok", "refused"} /\ UNCHANGED server
      BY <1>7 DEF HearSubmit, still
    <2>2. CASE c.status = "ok" /\ c.from = "payment"
      <3>1. PICK f, a : /\ f = (IF c.mounted THEN [form EXCEPT !.voteData = c.ref] ELSE form)
                        /\ a = [c EXCEPT !.op = "initiate", !.status = "pending"]
                        /\ Stay(f, Rest(c) \cup {a})
        BY <1>7, <2>2 DEF HearSubmit
      <3>2. f.voteData = form.voteData \/ Created(f.voteData)
        BY <1>1, <1>2, <2>1, <2>2, <3>1 DEF Form, CallOK, AboutVote, Records, VisitOK, Created
      <3>3. Follows(c, a)
        BY <1>1, <2>1, <2>2, <3>1 DEF Call, Follows, InChain, AboutVote, AboutTx
      <3>4. \A e \in Rest(c) \cup {a} : e \in calls \/ Follows(c, e)
        BY <1>1, <3>3
      <3>5. Stay(f, Rest(c) \cup {a})
        BY <3>1
      <3> QED BY <1>3, <2>1, <3>2, <3>4, <3>5
    <2>3. CASE c.status = "ok" /\ c.from # "payment"
      <3>1. PICK p : p = VoteSuccess(c)
        OBVIOUS
      <3>2. p \in Page(p) /\ p.name # "paid"
        BY <1>1, <3>1 DEF VoteSuccess, At, Page, Names, Call
      <3> QED BY <1>1, <1>7, <2>1, <2>3, <3>1, <3>2, ShowTotals DEF HearSubmit
    <2>4. CASE c.status = "refused"
      <3>1. PICK f : /\ f \in {form, [form EXCEPT !.voting = FALSE, !.step = "form"]}
                     /\ Stay(f, Rest(c))
        BY <1>7, <2>4 DEF HearSubmit
      <3>2. f.voteData = form.voteData
        BY <1>2, <3>1 DEF Form
      <3> QED BY <1>1, <1>3, <2>1, <3>1, <3>2
    <2> QED BY <2>1, <2>2, <2>3, <2>4
  <1>8. CASE HearInitiate(c)
    <2>1. c.op = "initiate" /\ c.status \in {"ok", "refused"} /\ UNCHANGED server
      BY <1>8 DEF HearInitiate, still
    <2>2. PICK f, a : /\ \E x : f \in {form, [form EXCEPT !.step = x]}
                      /\ a = [c EXCEPT !.op = "verify", !.status = "pending", !.tries = 1]
                      /\ (Stay(f, Rest(c) \cup {a}) /\ c.status = "ok") \/ Stay(f, Rest(c))
      BY <1>8 DEF HearInitiate
    <2>3. f.voteData = form.voteData
      BY <1>2, <2>2 DEF Form
    <2>4. c.status = "ok" => Follows(c, a)
      BY <1>1, <2>1, <2>2 DEF Call, Follows, InChain, AboutVote, AboutTx
    <2> QED BY <1>1, <1>3, <2>1, <2>2, <2>3, <2>4
  <1>9. CASE pollPaymentStatus(c)
    <2>1. c.op = "verify" /\ UNCHANGED server
      BY <1>9 DEF pollPaymentStatus
    <2>2. CASE c.result = "completed"
      <3>1. PICK p : p = PaymentSuccess(c)
        OBVIOUS
      <3>2. /\ p \in Page(p) /\ p.items = c.items /\ p.tx = c.ref /\ p.total = c.total
        BY <1>1, <3>1 DEF PaymentSuccess, At, Page, Names, Call
      <3>3. TotalOK(c) /\ AboutTx(c) /\ Records(txs[c.ref].vote, c)
        BY <1>1, <2>1 DEF TotalsOK, InChain, AboutTx, CallOK
      <3>4. PaidTotal(p)
        BY <3>2, <3>3 DEF TotalOK, Before, Records, PaidTotal
      <3> QED BY <1>1, <1>9, <2>1, <2>2, <3>1, <3>2, <3>4, ShowTotals DEF pollPaymentStatus
    <2>3. CASE c.result # "completed"
      <3>1. c.tries \in Nat /\ MaxPoll \in Nat /\ c.result \in {"failed", "processing", "none"}
        BY <1>1, <2>1, <2>3, PublicConstants DEF Call, CallOK, Result, Read
      <3>2. PICK f, a : /\ \E x : f \in {form, [form EXCEPT !.step = x]}
                        /\ a = [c EXCEPT !.status = "timer"]
                        /\ Stay(f, Rest(c) \cup {a}) \/ Stay(f, Rest(c))
        <4>1. \/ \E step : Ends(c, step)
              \/ Stay(form, Rest(c) \cup {[c EXCEPT !.status = "timer"]})
          <5>1. CASE c.result = "failed"
            BY <1>9, <5>1 DEF pollPaymentStatus
          <5>2. CASE c.result \in {"processing", "none"} /\ c.tries >= MaxPoll
            <6>1. ~(c.tries < MaxPoll)
              BY <3>1, <5>2
            <6> QED BY <1>9, <5>2, <6>1 DEF pollPaymentStatus
          <5>3. CASE c.result \in {"processing", "none"} /\ c.tries < MaxPoll
            <6>1. ~(c.tries >= MaxPoll)
              BY <3>1, <5>3
            <6> QED BY <1>9, <5>3, <6>1 DEF pollPaymentStatus
          <5> QED BY <3>1, <5>1, <5>2, <5>3
        <4> QED BY <4>1 DEF Ends
      <3>3. f.voteData = form.voteData
        BY <1>2, <3>2 DEF Form
      <3>4. Follows(c, a)
        BY <1>1, <2>1, <3>2 DEF Call, Follows, InChain, AboutVote, AboutTx
      <3> QED BY <1>1, <1>3, <2>1, <3>2, <3>3, <3>4
    <2> QED BY <2>2, <2>3
  <1>10. CASE PollTimer(c)
    <2>1. PICK a : /\ a = [c EXCEPT !.status = "pending", !.tries = @ + 1, !.result = "none"]
                   /\ Stay(form, Rest(c) \cup {a})
      BY <1>10 DEF PollTimer, Stay
    <2>2. c.op = "verify" /\ UNCHANGED server
      BY <1>1, <1>10 DEF PollTimer, CallOK, still
    <2>3. Follows(c, a)
      BY <1>1, <2>1, <2>2 DEF Call, Follows, InChain, AboutVote, AboutTx
    <2> QED BY <1>1, <1>3, <2>1, <2>2, <2>3
  <1>11. CASE LoseAnswer(c)
    <2>1. c.op \in {"submit", "initiate"} /\ UNCHANGED server
      BY <1>11 DEF LoseAnswer
    <2>2. PICK f, a, cs : /\ f = (IF c.mounted THEN [form EXCEPT !.voting = FALSE, !.step = "form"]
                                  ELSE form)
                          /\ a = [c EXCEPT !.heard = FALSE]
                          /\ cs = (Rest(c) \cup IF c.status = "pending" THEN {a} ELSE {})
      OBVIOUS
    <2>3. f.voteData = form.voteData
      BY <1>2, <2>2 DEF Form
    <2>4. Follows(c, a)
      BY <1>1, <2>1, <2>2 DEF Call, Follows, InChain, AboutVote, AboutTx
    <2>5. \A e \in cs : e \in calls \/ Follows(c, e)
      BY <1>1, <2>2, <2>4
    <2>6. Stay(f, cs)
      BY <1>11, <2>2 DEF LoseAnswer
    <2> QED BY <1>3, <2>1, <2>3, <2>5, <2>6
  <1> QED BY <1>4, <1>5, <1>6, <1>7, <1>8, <1>9, <1>10, <1>11 DEF Hear

(* What the server does: a vote recorded comes after those before it.      *)
LEMMA ServeTotals == ASSUME IInv, TotalsOK, NEW c \in calls, Serve(c) PROVE TotalsOK'
  <1>1. c \in Call(c) /\ CallOK(c) /\ TypeOK /\ c.status = "pending"
    BY CallFacts DEF Serve, getPublicShow, submitPublic, initiateForVote, verifyVotePayment, Asked
  <1>2. page' = page /\ form' = form /\ visit' = visit
    BY DEF Serve, getPublicShow, submitPublic, initiateForVote, verifyVotePayment, tab
  <1> DEFINE Answers(status, ref) ==
               \/ status = "refused" /\ (c.op = "verify" => ref = c.ref)
               \/ c.op \in Read
               \/ c.op = "verify" /\ ref = c.ref
               \/ c.op = "submit" /\ status = "ok" /\ ref = Len(votes) + 1
               \/ /\ c.op = "initiate" /\ status = "ok" /\ ref = Len(txs) + 1
                  /\ txs' = Append(txs, [vote |-> c.ref, status |-> "processing"])
  <1>3. PICK status, ref, result, a :
             /\ a = [c EXCEPT !.status = status, !.ref = ref, !.result = result]
             /\ calls' \subseteq (calls \ {c}) \cup {a}
             /\ Answers(status, ref)
    <2>1. ASSUME NEW status, NEW ref, NEW result, Reply(c, status, ref, result)
          PROVE  calls' \subseteq (calls \ {c})
                             \cup {[c EXCEPT !.status = status, !.ref = ref, !.result = result]}
      BY <2>1 DEF Reply
    <2>2. \E status, ref, result : Reply(c, status, ref, result) /\ Answers(status, ref)
      <3>1. CASE getPublicShow(c)
        BY <3>1 DEF getPublicShow
      <3>2. CASE submitPublic(c)
        BY <3>2 DEF submitPublic, Asked
      <3>3. CASE initiateForVote(c)
        BY <3>3 DEF initiateForVote, Asked
      <3>4. CASE verifyVotePayment(c)
        BY <3>4 DEF verifyVotePayment, Asked
      <3> QED BY <3>1, <3>2, <3>3, <3>4 DEF Serve
    <2>3. PICK status, ref, result : Reply(c, status, ref, result) /\ Answers(status, ref)
      BY <2>2
    <2> HIDE DEF Answers
    <2>4. PICK a : a = [c EXCEPT !.status = status, !.ref = ref, !.result = result]
      OBVIOUS
    <2>5. calls' \subseteq (calls \ {c}) \cup {a}
      BY <2>1, <2>3, <2>4
    <2> QED BY <2>3, <2>4, <2>5
  <1>4. /\ a.op = c.op /\ a.items = c.items /\ a.total = c.total /\ a.visit = c.visit
        /\ a.status = status /\ a.ref = ref
    BY <1>1, <1>3 DEF Call
  <1>5. Grows
    <2>1. votes' = votes \/ \E v : votes' = Append(votes, v)
      BY DEF Serve, getPublicShow, submitPublic, initiateForVote, verifyVotePayment, server
    <2>2. txs' = txs \/ \E s \in {"processing", "failed"} :
                          txs' = Append(txs, [vote |-> c.ref, status |-> s])
      BY DEF Serve, getPublicShow, submitPublic, initiateForVote, verifyVotePayment, server
    <2>3. DOMAIN votes \subseteq DOMAIN votes' /\ \A i \in DOMAIN votes : votes'[i] = votes[i]
      <3>1. ASSUME NEW v, votes' = Append(votes, v)
            PROVE  DOMAIN votes \subseteq DOMAIN votes' /\ \A i \in DOMAIN votes : votes'[i] = votes[i]
        <4>1. votes \in Seq(Range(votes)) /\ v \in Range(votes) \cup {v}
          BY <1>1 DEF TypeOK
        <4> QED BY <3>1, <4>1, Appended
      <3> QED BY <2>1, <3>1
    <2>4. DOMAIN txs \subseteq DOMAIN txs' /\ \A t \in DOMAIN txs : txs'[t] = txs[t]
      <3>1. \A s \in {"processing", "failed"} : [vote |-> c.ref, status |-> s] \in Tx
        BY <1>1 DEF Call, Tx
      <3>2. txs \in Seq(Tx)
        BY <1>1 DEF TypeOK
      <3>3. ASSUME NEW t \in Tx, txs' = Append(txs, t)
            PROVE  DOMAIN txs \subseteq DOMAIN txs' /\ \A u \in DOMAIN txs : txs'[u] = txs[u]
        BY <3>2, <3>3, Appended
      <3> QED BY <2>2, <3>1, <3>3
    <2> QED BY <2>3, <2>4 DEF Grows
  <1>6. InChain(a) => TotalOK(a)' \/ Follows(c, a)
    <2>1. CASE status = "refused" /\ (c.op = "verify" => ref = c.ref)
      BY <1>1, <1>4, <2>1 DEF Follows, InChain, AboutVote, AboutTx
    <2>2. CASE c.op \in Read
      BY <1>4, <2>2 DEF InChain, Read
    <2>3. CASE c.op = "verify" /\ ref = c.ref
      BY <1>4, <2>3 DEF Follows, InChain, AboutVote, AboutTx
    <2>4. CASE c.op = "submit" /\ status = "ok" /\ ref = Len(votes) + 1
      <3>1. TotalOK(c)
        BY <2>4 DEF TotalsOK, InChain
      <3>2. AboutVote(a)' /\ ~AboutTx(a)'
        BY <1>4, <2>4 DEF AboutVote, AboutTx
      <3>3. DOMAIN votes = 1 .. Len(votes) /\ Len(votes) \in Nat
        BY <1>1 DEF TypeOK
      <3>4. ASSUME NEW i \in DOMAIN votes, Before(i, c) PROVE Before(i, a)' /\ i \in DOMAIN votes'
        BY <1>4, <1>5, <2>4, <3>2, <3>3, <3>4 DEF Before, Grows
      <3> QED BY <1>4, <3>1, <3>4 DEF TotalOK
    <2>5. CASE /\ c.op = "initiate" /\ status = "ok" /\ ref = Len(txs) + 1
               /\ txs' = Append(txs, [vote |-> c.ref, status |-> "processing"])
      <3>1. TotalOK(c) /\ AboutVote(c) /\ c.ref \in Nat
        BY <1>1, <2>5 DEF TotalsOK, InChain, AboutVote, Call
      <3>2. ~AboutVote(a)' /\ AboutTx(a)'
        BY <1>4, <2>5 DEF AboutVote, AboutTx
      <3>3. txs'[ref].vote = c.ref
        <4>1. [vote |-> c.ref, status |-> "processing"] \in Tx
          BY <3>1 DEF Tx
        <4> QED BY <1>1, <2>5, <4>1, Appended DEF TypeOK
      <3>4. ASSUME NEW i \in DOMAIN votes, Before(i, c) PROVE Before(i, a)' /\ i \in DOMAIN votes'
        BY <1>4, <1>5, <3>1, <3>2, <3>3, <3>4 DEF Before, Grows
      <3> QED BY <1>4, <3>1, <3>4 DEF TotalOK
    <2> QED BY <1>3, <2>1, <2>2, <2>3, <2>4, <2>5 DEF Answers
  <1> HIDE DEF Answers
  <1>7. \A e \in calls : InChain(e) => Follows(e, e)
    BY DEF Follows
  <1> QED BY <1>2, <1>3, <1>5, <1>6, <1>7, TotalsKept

(* A payment settled moves no vote.                                        *)
LEMMA SettleTotals == ASSUME IInv, TotalsOK, NEW t \in DOMAIN txs, Settle(t) PROVE TotalsOK'
  <1>1. TypeOK /\ BooksOK
    BY DEF IInv
  <1>2. PICK s \in {"completed", "failed"} :
           /\ txs' = [txs EXCEPT ![t].status = s]
           /\ votes' = votes \/ votes' = [votes EXCEPT ![txs[t].vote].status = "counted"]
    BY DEF Settle
  <1>3. page' = page /\ form' = form /\ visit' = visit /\ calls' = calls
    BY DEF Settle, tab
  <1>4. DOMAIN txs \subseteq DOMAIN txs' /\ \A u \in DOMAIN txs : txs'[u].vote = txs[u].vote
    <2>1. txs[t] \in Tx
      BY <1>1 DEF TypeOK
    <2>2. [txs[t] EXCEPT !.status = s].vote = txs[t].vote
      BY <2>1 DEF Tx
    <2> QED BY <1>1, <1>2, <2>2 DEF TypeOK
  <1>5. /\ DOMAIN votes \subseteq DOMAIN votes'
        /\ \A i \in DOMAIN votes : /\ votes'[i].items = votes[i].items
                                   /\ votes'[i].visit = votes[i].visit
    <2>1. \A i \in DOMAIN votes : votes[i] \in Vote(votes[i].items)
      BY <1>1 DEF TypeOK
    <2>2. \A i \in DOMAIN votes : LET v == [votes[i] EXCEPT !.status = "counted"]
                                  IN  v.items = votes[i].items /\ v.visit = votes[i].visit
      BY <2>1 DEF Vote
    <2> QED BY <1>1, <1>2, <2>2 DEF TypeOK
  <1>6. \A e \in calls : InChain(e) => Follows(e, e)
    BY DEF Follows
  <1> QED BY <1>3, <1>4, <1>5, <1>6, TotalsKept DEF Grows

(* Every step keeps the totals.                                            *)
LEMMA TotalsStep == IInv /\ TotalsOK /\ [Next]_vars => TotalsOK'
  <1> SUFFICES ASSUME IInv, TotalsOK, [Next]_vars PROVE TotalsOK'
    OBVIOUS
  <1>1. CASE Voter
    BY <1>1, VoterTotals
  <1>2. CASE HearLive
    <2>1. form \in Form(form.ranked, form.amounts)
      BY DEF IInv, TypeOK
    <2>2. form'.voteData = form.voteData
      BY <1>2, <2>1 DEF HearLive, Form
    <2> QED BY <1>2, <2>2, StayTotals DEF HearLive, still
  <1>3. CASE CloseElection \/ UNCHANGED vars
    <2>1. /\ page' = page /\ form' = form /\ visit' = visit /\ calls' = calls
          /\ votes' = votes /\ txs' = txs
      BY <1>3 DEF CloseElection, tab, vars, server
    <2>2. \A e \in calls : InChain(e) => Follows(e, e)
      BY DEF Follows
    <2> QED BY <2>1, <2>2, TotalsKept DEF Grows
  <1>4. ASSUME NEW c \in calls, Serve(c) \/ Hear(c) \/ PollTimer(c) \/ LoseAnswer(c)
        PROVE  TotalsOK'
    BY <1>4, ServeTotals, HearTotals
  <1>5. ASSUME NEW t \in DOMAIN txs, Settle(t) PROVE TotalsOK'
    BY <1>5, SettleTotals
  <1> QED BY <1>1, <1>2, <1>3, <1>4, <1>5 DEF Next

(* The amounts that payment pages name are of votes of the same visit.     *)
THEOREM TotalsAreCreated == Spec => []TotalsOK
  <1>1. Init => TotalsOK
    <2> SUFFICES ASSUME Init PROVE TotalsOK
      OBVIOUS
    <2>1. form.voteData = 0 /\ page.name \in {"elections", "portal"}
      BY DEF Init, FreshForm, At
    <2>2. \A c \in calls : ~InChain(c)
      BY DEF Init, Loads, NewCall, InChain
    <2> QED BY <2>1, <2>2 DEF TotalsOK, Created
  <1> QED BY <1>1, InvariantHolds, TotalsStep, PTL DEF Spec

(* The page of a successful payment names a vote that is paid and counted,  *)
(* and, if it names an amount, that of the vote or of an earlier one of the *)
(* same visit.                                                              *)
THEOREM PaidPagesArePaid == Spec => []PaidPageIsPaid
  <1>1. IInv /\ TotalsOK => PaidPageIsPaid
    <2> SUFFICES ASSUME IInv, TotalsOK, page.name = "paid" PROVE PaidPageIsPaid
      BY DEF PaidPageIsPaid
    <2>1. Paid(page) /\ PaidTotal(page) /\ TxOK(page.tx)
      BY DEF IInv, BooksOK, TotalsOK, Paid
    <2> QED BY <2>1 DEF Paid, PaidTotal, TxOK, PaidPageIsPaid
  <1> QED BY <1>1, InvariantHolds, TotalsAreCreated, PTL

(* A visit records one vote, and makes one charge that may still be paid.  *)
THEOREM VisitsVoteOnce == Spec => []OneVotePerVisit
  <1>1. IInv => OneVotePerVisit
    <2> SUFFICES ASSUME IInv, ~faulty PROVE OneVotePerVisit
      BY DEF OneVotePerVisit
    <2>1. OneVote /\ OneCharge
      BY DEF IInv
    <2>2. ASSUME NEW i \in DOMAIN votes, NEW j \in DOMAIN votes,
                 votes[i].visit = votes[j].visit, i # j
          PROVE  votes[i].from = "payment" \/ (votes[i].from = "portal" /\ kind.type = "single")
      <3>1. VoteAlone(i)
        BY <2>1 DEF OneVote
      <3> QED BY <2>2, <3>1 DEF VoteAlone, Guards
    <2>3. ASSUME ~gaveUp, NEW s \in DOMAIN txs, NEW t \in DOMAIN txs,
                 votes[txs[s].vote].visit = votes[txs[t].vote].visit,
                 txs[s].status # "failed", txs[t].status # "failed"
          PROVE  s = t
      <3>1. s \in Live /\ t \in Live /\ VisitOf(s) = VisitOf(t)
        BY <2>3 DEF Live, VisitOf
      <3>2. LiveAlone(s)
        BY <2>1, <2>3, <3>1 DEF OneCharge
      <3> QED BY <3>1, <3>2 DEF LiveAlone
    <2> QED BY <2>2, <2>3 DEF OneVotePerVisit
  <1> QED BY <1>1, InvariantHolds, PTL
=============================================================================
