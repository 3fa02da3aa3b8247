----------------------------- MODULE PublicVote -----------------------------
(***************************************************************************)
(* The ballot of a public election in one browser tab: the pages of an     *)
(* election, of its categories and of a candidate, the ranked and multiple *)
(* ballots, and the two payment pages, which create a vote, charge it and  *)
(* ask every four seconds whether it is paid.  A page left takes its timer *)
(* along; the calls it has in flight go on, and may navigate.              *)
(***************************************************************************)
EXTENDS Naturals, Sequences, FiniteSets, Functions, SequencesExt

CONSTANTS Candidate,
          Kind,       \* the elections: their mode, vote type and payment
          Price,      \* vote_price
          Amount,     \* what may be typed for an amount
          MaxPoll,    \* MAX_POLL_ATTEMPTS (30 in the code)
          MaxMoves    \* bound on the moves of the voter and the answers lost

ASSUME PublicConstants ==
    /\ Kind \subseteq [mode : {"public", "private"}, type : {"single", "ranked", "multiple"},
                       payment : {"free", "paid"}]
    /\ Price \in Nat \ {0} /\ Amount \subseteq Nat
    /\ MaxPoll \in Nat \ {0} /\ MaxMoves \in Nat

VARIABLES
    kind,     \* server: the election
    open,     \* server: its status is ongoing
    votes,    \* server: the votes recorded, in order
    txs,      \* server: their payment transactions, in order
    page,     \* the page shown, with its location.state
    form,     \* the local state of that page
    calls,    \* the calls in flight, and the polling loops
    visit,    \* the number of pages shown so far
    moves,    \* moves and losses so far
    faulty,   \* an answer was lost
    gaveUp    \* a payment page stopped asking before its payment was settled

server == <<kind, open, votes, txs>>
ghosts == <<faulty, gaveUp>>
vars   == <<server, page, form, calls, visit, moves, ghosts>>

Read == {"election", "final", "categories", "category", "candidate"}
Status == {"pending", "ok", "401", "refused", "timer"}
One(x, amount) == <<[candidate |-> x, amount |-> amount]>>

(* items: the candidates of location.state; tx: the payment, or the free   *)
(* vote, it reports; total: the items whose total it names (<<>>: none).   *)
At(name, items, via) == [name |-> name, items |-> items, via |-> via, tx |-> 0, total |-> <<>>]

VoteSuccess(c) == [At("success", c.items, "portal") EXCEPT !.tx = c.ref]
PaymentSuccess(c) == [At("paid", c.items, "elections") EXCEPT !.tx = c.ref, !.total = c.total]

(* voteData: the vote that the payment page created last (0: none).        *)
FreshForm == [loading |-> FALSE, election |-> "none", scores |-> "none", candidate |-> FALSE,
              voting |-> FALSE, ranked |-> <<>>, amounts |-> <<>>, step |-> "form", voteData |-> 0]

(* from: the page of the call; ref: the vote, then the transaction it is   *)
(* about; tries: the verifications asked so far; total: what the page knew *)
(* of the amount when the call was made.                                   *)
NewCall(op, items, name, v) ==
    [op |-> op, n |-> moves, from |-> name, visit |-> v, mounted |-> TRUE,
     heard |-> TRUE, items |-> items, total |-> <<>>, ref |-> 0, tries |-> 0, status |-> "pending", result |-> "none"]

-----------------------------------------------------------------------------
(* computeVoteQuantity: an amount buys voices if it is a multiple of the   *)
(* price (the same rule as the server's).                                  *)
computeVoteQuantity(amount) ==
    [isValid |-> amount > 0 /\ amount % Price = 0, quantity |-> amount \div Price]

(* RankedBallotForm: x takes rank r (0: none), or the last one.            *)
handleRankChange(ranked, x, r) ==
    LET next == SelectSeq(ranked, LAMBDA y : y # x)
    IN  IF r = 0 THEN next
        ELSE InsertAt(next, IF r <= Len(next) THEN r ELSE Len(next) + 1, x)

RankedItems(ranked) == [i \in DOMAIN ranked |-> [candidate |-> ranked[i], amount |-> 0]]

(* MultipleBallotForm: the amounts chosen, by candidate.                   *)
toggleCandidate(amounts, x) ==
    IF x \in DOMAIN amounts THEN Restrict(amounts, DOMAIN amounts \ {x})
    ELSE [y \in DOMAIN amounts \cup {x} |-> IF y = x THEN Price ELSE amounts[y]]

allValid(amounts) ==
    DOMAIN amounts # {} /\ \A x \in DOMAIN amounts : computeVoteQuantity(amounts[x]).isValid

MultipleItems(amounts) ==
    [i \in 1..Cardinality(DOMAIN amounts) |->
        LET x == SetToSeq(DOMAIN amounts)[i] IN [candidate |-> x, amount |-> amounts[x]]]

-----------------------------------------------------------------------------
(* A page is shown: what it loads, what it renders first.                  *)
Loads(p) ==
    CASE p.name \in {"portal", "results"}                          -> {"election"}
      [] p.name \in {"categories", "category"}                     -> {p.name}
      [] p.name = "details" /\ p.via = "share"                     -> {"election", "candidate"}
      [] p.name = "details" /\ p.via # "share"                     -> {"candidate"}
      [] OTHER                                                     -> {}

(* The clean-up of a payment page clears its timer.                        *)
Left(cs) ==
    {[c EXCEPT !.mounted = FALSE] : c \in {d \in cs : ~(d.mounted /\ d.status = "timer")}}

Show(p, cs) ==
    /\ page' = p /\ visit' = visit + 1
    /\ form' = [FreshForm EXCEPT !.loading = Loads(p) # {}]
    /\ calls' = Left(cs) \cup {NewCall(op, p.items, p.name, visit + 1) : op \in Loads(p)}

Stay(f, cs) == UNCHANGED <<page, visit>> /\ form' = f /\ calls' = cs

Init ==
    /\ kind \in Kind /\ open = TRUE /\ votes = <<>> /\ txs = <<>>
    /\ visit = 0 /\ moves = 0 /\ faulty = FALSE /\ gaveUp = FALSE
    /\ \E name \in {"elections", "portal"} : page = At(name, <<>>, "elections")
    /\ form = [FreshForm EXCEPT !.loading = Loads(page) # {}]
    /\ calls = {NewCall(op, <<>>, page.name, 0) : op \in Loads(page)}

-----------------------------------------------------------------------------
(* The server.                                                             *)
Reply(c, status, ref, result) ==
    calls' = (calls \ {c}) \cup
             IF c.heard THEN {[c EXCEPT !.status = status, !.ref = ref, !.result = result]} ELSE {}

Asked(c, op) == c.op = op /\ c.status = "pending"
tab == <<page, form, visit, moves, ghosts>>

getPublicShow(c) ==
    /\ c.op \in Read /\ c.status = "pending"
    /\ \/ Reply(c, "ok", 0, IF open THEN "ongoing" ELSE "closed")
       \/ Reply(c, "refused", 0, "none")
       \/ c.op = "candidate" /\ Reply(c, "401", 0, "none")
    /\ UNCHANGED <<server, tab>>

(* A vote of a paid election waits for its payment; one without an amount  *)
(* buys one voice.                                                         *)
Accepts(c) ==
    /\ open
    /\ kind.type = "ranked" => c.from = "portal"
    /\ \A i \in DOMAIN c.items :
         \/ c.items[i].amount = 0 /\ kind.type # "multiple"
         \/ kind.payment = "free" /\ c.items[i].amount > 0
         \/ computeVoteQuantity(c.items[i].amount).isValid

submitPublic(c) ==
    /\ Asked(c, "submit")
    /\ \/ /\ Accepts(c)
          /\ votes' = Append(votes, [items |-> c.items, from |-> c.from, visit |-> c.visit,
                                     status |-> IF kind.payment = "paid" THEN "pending"
                                                ELSE "counted"])
          /\ Reply(c, "ok", Len(votes) + 1, "none")
       \/ Reply(c, "refused", 0, "none") /\ UNCHANGED votes
    /\ UNCHANGED <<kind, open, txs, tab>>

(* The provider accepts the payment, or not: then the transaction fails.   *)
initiateForVote(c) ==
    /\ Asked(c, "initiate")
    /\ \/ /\ votes[c.ref].status = "pending"
          /\ \/ /\ txs' = Append(txs, [vote |-> c.ref, status |-> "processing"])
                /\ Reply(c, "ok", Len(txs) + 1, "none")
             \/ /\ txs' = Append(txs, [vote |-> c.ref, status |-> "failed"])
                /\ Reply(c, "refused", 0, "none")
       \/ Reply(c, "refused", 0, "none") /\ UNCHANGED txs
    /\ UNCHANGED <<kind, open, votes, tab>>

verifyVotePayment(c) ==
    /\ Asked(c, "verify")
    /\ Reply(c, "ok", c.ref, txs[c.ref].status) \/ Reply(c, "refused", c.ref, "none")
    /\ UNCHANGED <<server, tab>>

(* The payer answers, and the provider or a verification reports it.       *)
Settle(t) ==
    /\ txs[t].status = "processing"
    /\ \/ /\ txs' = [txs EXCEPT ![t].status = "completed"]
          /\ votes' = [votes EXCEPT ![txs[t].vote].status = "counted"]
       \/ txs' = [txs EXCEPT ![t].status = "failed"] /\ UNCHANGED votes
    /\ UNCHANGED <<kind, open, calls, tab>>

CloseElection == open /\ open' = FALSE /\ UNCHANGED <<kind, votes, txs, calls, tab>>

Serve(c) == getPublicShow(c) \/ submitPublic(c) \/ initiateForVote(c) \/ verifyVotePayment(c)

-----------------------------------------------------------------------------
(* The tab hears an answer.                                                *)
Rest(c) == calls \ {c}
Move == moves < MaxMoves /\ moves' = moves + 1
still == <<server, moves, ghosts>>

(* The election: when it is closed, its final results are asked for, by    *)
(* the page of results before it stops loading.                            *)
HearElection(c) ==
    /\ c.op = "election" /\ c.status \in {"ok", "refused"} /\ UNCHANGED still
    /\ LET final == c.result = "closed" /\ (c.from = "results" \/ (c.from = "portal" /\ c.mounted))
           next  == IF final THEN {[c EXCEPT !.op = "final", !.status = "pending", !.result = "none"]}
                    ELSE {}
       IN  Stay(IF c.mounted
                THEN [form EXCEPT !.election = c.result,
                                  !.loading = IF c.from = "details" \/ (c.from = "results" /\ final)
                                              THEN @ ELSE FALSE]
                ELSE form, Rest(c) \cup next)

HearFinal(c) ==
    /\ c.op = "final" /\ c.status \in {"ok", "refused"} /\ UNCHANGED still
    /\ Stay(IF c.mounted
            THEN [form EXCEPT !.loading = FALSE, !.scores = IF c.status = "ok" THEN "final" ELSE "none"]
            ELSE form, Rest(c))

HearCategories(c) ==
    /\ c.op \in {"categories", "category"} /\ c.status \in {"ok", "refused"} /\ UNCHANGED still
    /\ Stay(IF c.mounted THEN [form EXCEPT !.loading = FALSE, !.election = c.result] ELSE form,
            Rest(c))

(* The candidate, or a refusal that navigates wherever the tab is by then. *)
HearCandidate(c) ==
    /\ c.op = "candidate" /\ c.status \in {"ok", "refused", "401"} /\ UNCHANGED still
    /\ IF c.status = "401" THEN Show(At("unauthorized", <<>>, "elections"), Rest(c))
       ELSE Stay(IF c.mounted THEN [form EXCEPT !.loading = FALSE, !.candidate = c.status = "ok"]
                 ELSE form, Rest(c))

(* useLiveResults: scores are broadcast while the election is ongoing.     *)
liveEnabled == page.name \in {"portal", "results"} /\ form.election = "ongoing"

HearLive ==
    /\ liveEnabled /\ open /\ form.scores = "none" /\ form' = [form EXCEPT !.scores = "live"]
    /\ UNCHANGED <<still, page, visit, calls>>

(* A vote submitted: shown as a success, or, by a payment page, charged.   *)
HearSubmit(c) ==
    /\ c.op = "submit" /\ c.status \in {"ok", "refused"} /\ UNCHANGED still
    /\ CASE c.status = "ok" /\ c.from = "payment" ->
              Stay(IF c.mounted THEN [form EXCEPT !.voteData = c.ref] ELSE form,
                   Rest(c) \cup {[c EXCEPT !.op = "initiate", !.status = "pending"]})
         [] c.status = "ok" /\ c.from # "payment" ->
              Show(VoteSuccess(c), Rest(c))
         [] c.status = "refused" ->
              Stay(IF c.mounted THEN [form EXCEPT !.voting = FALSE, !.step = "form"] ELSE form, Rest(c))

HearInitiate(c) ==
    /\ c.op = "initiate" /\ c.status \in {"ok", "refused"} /\ UNCHANGED still
    /\ IF c.status = "ok"
       THEN Stay(IF c.mounted THEN [form EXCEPT !.step = "polling"] ELSE form,
                 Rest(c) \cup {[c EXCEPT !.op = "verify", !.status = "pending", !.tries = 1]})
       ELSE Stay(IF c.mounted THEN [form EXCEPT !.step = "form"] ELSE form, Rest(c))

(* pollPaymentStatus: the success page, even from another page; a failure; *)
(* or, unless it was the last attempt, another one in four seconds.        *)
Ends(c, step) ==
    /\ gaveUp' = (gaveUp \/ step = "timeout")
    /\ Stay(IF c.mounted THEN [form EXCEPT !.step = step] ELSE form, Rest(c))

(* A mutant: what is not a failure is a success.                           *)
pollPaymentStatus_Optimistic(c) ==
    /\ c.op = "verify" /\ c.status \in {"ok", "refused"} /\ UNCHANGED <<server, moves, faulty>>
    /\ CASE c.result \in {"completed", "processing"} ->
              Show(PaymentSuccess(c), Rest(c)) /\ UNCHANGED gaveUp
         [] c.result = "failed" -> Ends(c, "failed")
         [] c.result = "none" /\ c.tries >= MaxPoll -> Ends(c, "timeout")
         [] OTHER -> /\ Stay(form, Rest(c) \cup {[c EXCEPT !.status = "timer"]})
                     /\ UNCHANGED gaveUp

(* A mutant: an error rearms the timer without looking at the attempts.    *)
pollPaymentStatus_Forever(c) ==
    /\ c.op = "verify" /\ c.status \in {"ok", "refused"} /\ UNCHANGED <<server, moves, faulty>>
    /\ CASE c.result = "completed" ->
              Show(PaymentSuccess(c), Rest(c)) /\ UNCHANGED gaveUp
         [] c.result = "failed" -> Ends(c, "failed")
         [] c.result = "processing" /\ c.tries >= MaxPoll -> Ends(c, "timeout")
         [] OTHER -> /\ Stay(form, Rest(c) \cup {[c EXCEPT !.status = "timer",
                                                           !.tries = IF @ < MaxPoll THEN @ ELSE @ - 1]})
                     /\ UNCHANGED gaveUp

pollPaymentStatus(c) ==
    /\ c.op = "verify" /\ c.status \in {"ok", "refused"} /\ UNCHANGED <<server, moves, faulty>>
    /\ CASE c.result = "completed" ->
              Show(PaymentSuccess(c), Rest(c)) /\ UNCHANGED gaveUp
         [] c.result = "failed" -> Ends(c, "failed")
         [] c.result \in {"processing", "none"} /\ c.tries >= MaxPoll -> Ends(c, "timeout")
         [] c.result \in {"processing", "none"} /\ c.tries < MaxPoll ->
              /\ Stay(form, Rest(c) \cup {[c EXCEPT !.status = "timer"]})
              /\ UNCHANGED gaveUp

PollTimer(c) ==
    /\ c.status = "timer"
    /\ calls' = Rest(c) \cup {[c EXCEPT !.status = "pending", !.tries = @ + 1, !.result = "none"]}
    /\ UNCHANGED <<still, page, form, visit>>

(* A vote or a charge is given up on, while the server may still be at it. *)
LoseAnswer(c) ==
    /\ c.op \in {"submit", "initiate"} /\ c.heard /\ Move /\ faulty' = TRUE
    /\ Stay(IF c.mounted THEN [form EXCEPT !.voting = FALSE, !.step = "form"] ELSE form,
            Rest(c) \cup IF c.status = "pending" THEN {[c EXCEPT !.heard = FALSE]} ELSE {})
    /\ UNCHANGED <<server, gaveUp>>

Hear(c) == c.heard /\ (HearElection(c) \/ HearFinal(c) \/ HearCategories(c) \/ HearCandidate(c)
                       \/ HearSubmit(c) \/ HearInitiate(c) \/ pollPaymentStatus(c))

-----------------------------------------------------------------------------
(* The voter.                                                              *)
On(name) == page.name = name /\ ~form.loading

ToPage(p) == Move /\ UNCHANGED <<server, ghosts>> /\ Show(p, calls)

Ballot(f, cs) == Move /\ UNCHANGED <<server, ghosts>> /\ Stay(f, cs)

Submit(f, items) == Ballot(f, calls \cup {NewCall("submit", items, page.name, visit)})

submitFreeVote(x) == Submit([form EXCEPT !.voting = TRUE], One(x, 0))

Browse ==
    \/ page.name = "elections" /\ \E p \in {"portal", "results", "categories"} :
         ToPage(At(p, <<>>, "elections"))
    \/ page.name = "elections" /\ \E x \in Candidate : ToPage(At("details", One(x, 0), "share"))
    \/ On("portal") /\ \E p \in {"categories", "results"} : ToPage(At(p, <<>>, "portal"))
    \/ On("categories") /\ form.election # "none" /\ ToPage(At("category", <<>>, "categories"))
    \/ page.name \notin {"elections", "portal"}
       /\ ToPage(At(IF page.via = "share" THEN "elections" ELSE "portal", <<>>, "elections"))

(* CandidatCard, one for each candidate of a page.                         *)
cards == /\ form.election # "none"
         /\ On("category") \/ (On("portal") /\ kind.type = "single")

viewCandidateDetails(x) == cards /\ ToPage(At("details", One(x, 0), page.name))

(* PortailVote: the button of a candidate's card, which a vote in flight   *)
(* does not disable.                                                       *)
handleVote(x) ==
    /\ cards /\ page.name = "portal"
    /\ \/ kind.mode = "private" /\ ToPage(At("home", <<>>, "elections"))
       \/ /\ kind.mode = "public" /\ kind.payment = "paid"
          /\ ToPage(At("payment", One(x, Price), "portal"))
       \/ kind.mode = "public" /\ kind.payment = "free" /\ submitFreeVote(x)

rankCandidate(x) ==
    /\ On("portal") /\ form.election # "none" /\ kind.type = "ranked" /\ kind.payment = "free"
    /\ \E r \in 0..Cardinality(Candidate) :
         Ballot([form EXCEPT !.ranked = handleRankChange(@, x, r)], calls)

submitRankedVote ==
    /\ On("portal") /\ kind.type = "ranked" /\ form.ranked # <<>> /\ ~form.voting
    /\ Submit([form EXCEPT !.voting = TRUE], RankedItems(form.ranked))

chooseCandidate(x) ==
    /\ On("portal") /\ form.election # "none" /\ kind.type = "multiple"
    /\ \/ Ballot([form EXCEPT !.amounts = toggleCandidate(@, x)], calls)
       \/ /\ x \in DOMAIN form.amounts
          /\ \E a \in Amount : Ballot([form EXCEPT !.amounts = [@ EXCEPT ![x] = a]], calls)

continueMultipleToPayment ==
    /\ On("portal") /\ kind.type = "multiple" /\ allValid(form.amounts)
    /\ ToPage(At("payment", MultipleItems(form.amounts), "portal"))

(* A mutant: the guard of the category page is missing.                    *)
handleCategoryVote_Again(x) == cards /\ page.name = "category" /\ submitFreeVote(x)

handleCategoryVote(x) ==
    cards /\ page.name = "category" /\ ~form.voting /\ submitFreeVote(x)

(* CandidateDetailsPublic: a visitor who came from another page of the     *)
(* election brings an election without a status, and is not offered to     *)
(* vote.                                                                   *)
canVote == On("details") /\ form.candidate /\ form.election = "ongoing" /\ ~form.voting

handleDetailsVote(x) ==
    /\ canVote /\ x = page.items[1].candidate
    /\ \/ kind.mode = "private" /\ ToPage(At("home", <<>>, "elections"))
       \/ /\ kind.mode = "public" /\ kind.payment = "paid"
          /\ ToPage(At("payment", One(x, Price), "details"))
       \/ kind.mode = "public" /\ kind.payment = "free" /\ submitFreeVote(x)

(* The payment pages: of several candidates, or of one, where the amount   *)
(* is typed.                                                               *)
several == kind.type = "multiple" /\ page.via = "portal"

typeAmount ==
    /\ page.name = "payment" /\ form.step = "form" /\ ~several
    /\ \E a \in Amount : page' = [page EXCEPT !.items[1].amount = a]
    /\ Move /\ UNCHANGED <<server, form, calls, visit, ghosts>>

(* The polling that follows is that of the render that was clicked: the    *)
(* page of several candidates adds up the amounts it shows, the other one  *)
(* takes the total of the vote it created before, if it did.               *)
total_amount == IF several THEN page.items
                ELSE IF form.voteData = 0 THEN <<>> ELSE votes[form.voteData].items

handleConfirmPayment ==
    /\ page.name = "payment" /\ form.step = "form"
    /\ \A i \in DOMAIN page.items : computeVoteQuantity(page.items[i].amount).isValid
    /\ Ballot([form EXCEPT !.step = "creating"],
              calls \cup {[NewCall("submit", page.items, page.name, visit)
                               EXCEPT !.total = total_amount]})

handleRetry ==
    /\ page.name = "payment" /\ form.step \in {"failed", "timeout"}
    /\ Ballot([form EXCEPT !.step = "form", !.voteData = 0], calls)

Voter ==
    \/ Browse \/ submitRankedVote \/ continueMultipleToPayment
    \/ typeAmount \/ handleConfirmPayment \/ handleRetry
    \/ \E x \in Candidate : viewCandidateDetails(x) \/ handleVote(x) \/ rankCandidate(x)
         \/ chooseCandidate(x) \/ handleCategoryVote(x) \/ handleDetailsVote(x)

Poll == \E c \in calls : c.op = "verify" /\ (Serve(c) \/ Hear(c) \/ PollTimer(c))

Next ==
    \/ Voter \/ HearLive \/ CloseElection
    \/ \E c \in calls : Serve(c) \/ Hear(c) \/ PollTimer(c) \/ LoseAnswer(c)
    \/ \E t \in DOMAIN txs : Settle(t)

Spec == Init /\ [][Next]_vars /\ WF_vars(Poll)

-----------------------------------------------------------------------------
(* The page of a successful payment, reached from whichever page, names    *)
(* the candidates and voices of a vote that is paid and counted.  If it    *)
(* names an amount, that is the vote's or, after a charge that was refused *)
(* or lost, the amount of a vote created before by the same visit.         *)
PaidPageIsPaid ==
    page.name = "paid" =>
        LET t == txs[page.tx]
            v == votes[t.vote]
        IN  /\ t.status = "completed" /\ v.status = "counted" /\ v.items = page.items
            /\ page.total \in {<<>>, v.items}
                 \/ \E i \in DOMAIN votes : /\ i < t.vote /\ votes[i].visit = v.visit
                                           /\ votes[i].items = page.total

(* As long as no answer was lost, one visit of a page that guards its vote *)
(* records one vote, and one visit of a payment page makes at most one     *)
(* charge that may still be paid (the cards of PortailVote guard nothing,  *)
(* and a payment page that gave up offers to pay again).                   *)
OneVotePerVisit ==
    ~faulty =>
        /\ \A i, j \in DOMAIN votes :
             votes[i].visit = votes[j].visit /\ i # j =>
                 votes[i].from = "payment" \/ (votes[i].from = "portal" /\ kind.type = "single")
        /\ ~gaveUp => \A s, t \in DOMAIN txs :
             (/\ votes[txs[s].vote].visit = votes[txs[t].vote].visit
              /\ txs[s].status # "failed" /\ txs[t].status # "failed") => s = t

(* A page that waits for a payment does not wait forever: it reports the   *)
(* payment, its failure, or that it gave up.                               *)
PollingEnds == [](form.step = "polling" => <>(form.step # "polling"))
=============================================================================
