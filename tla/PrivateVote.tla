----------------------------- MODULE PrivateVote -----------------------------
(***************************************************************************)
(* The ballot of a private election: one elector, in one browser tab, goes *)
(* from the access code to the list of candidates, asks for a confirmation *)
(* code for one of them and votes.  The server (VoteController) keeps what *)
(* it sent in cache entries that it reads, decides on and writes back in   *)
(* separate steps; the tab keeps the session in sessionStorage and leaves  *)
(* its calls running when the elector goes to another page.                *)
(***************************************************************************)
EXTENDS Naturals, Sequences, FiniteSets

CONSTANTS None, Candidate,
          MaxVotes,       \* max_votes_per_user of the election
          MaxMoves,       \* bound on the calls and faults of the tab
          AccessTries,    \* wrong codes that close an access (5 in the code)
          OtpTries,       \* wrong codes that end a confirmation (3 in the code)
          Requests        \* confirmation codes sent before a vote (5 in the code)

ASSUME PrivateConstants ==
    /\ None \notin Candidate
    /\ {MaxVotes, AccessTries, OtpTries, Requests} \subseteq Nat \ {0} /\ MaxMoves \in Nat

VARIABLES
    access,     \* server: voter_access_*, one entry per access asked for
    live,       \* server: voter_session_*, the accesses whose session is alive
    temp,       \* server: vote_temp_*, the choice waiting to be confirmed
    requests,   \* server: otp_attempts_*, the confirmation codes sent
    votes,      \* server: the votes recorded, in order
    codes,      \* the codes made so far: the last one is the newest
    mailed,     \* those of them that were handed to the queue of emails
    page,       \* tab: the page shown, with its location.state
    form,       \* tab: the local state of that page
    stored,     \* tab: the session kept in sessionStorage (0: none)
    calls,      \* the calls in flight
    moves,      \* calls and faults so far
    ordered,    \* the server began every call in the order of the clicks, and none
                \* for a code while another call was about to write vote_temp
    overlap     \* two votes, or two access codes, were examined at once

server == <<access, live, temp, requests, votes, codes, mailed>>
tab    == <<page, form, stored>>
ghosts == <<ordered, overlap>>
vars   == <<server, tab, calls, moves, ghosts>>

Status == {"pending", "ok", "401", "429", "refused", "lost"}

NoEntry == [open |-> FALSE, code |-> 0, attempts |-> 0]
NoTemp  == [candidate |-> None, code |-> 0, attempts |-> 0]

(* A page: token is the access or the session its location.state carries,  *)
(* via the page that "back" returns to.                                    *)
At(name, token, candidate, via) ==
    [name |-> name, token |-> token, candidate |-> candidate, via |-> via]
AccesScrutin == At("access", 0, None, "access")

(* busy: isLoading; requesting: the first code is being sent; timer: the   *)
(* 30 seconds before another may be asked for.                             *)
FreshForm == [busy |-> FALSE, requesting |-> FALSE, canResend |-> FALSE, timer |-> FALSE]

(* shown: the candidate of the page that made the call; step: where the    *)
(* server is in it, seen: what it read there; remaining: what it answered. *)
NewCall(op, token, code, shown) ==
    [n |-> moves + 1, op |-> op, token |-> token, code |-> code, shown |-> shown,
     step |-> "sent", seen |-> NoTemp, status |-> "pending", result |-> 0,
     mounted |-> TRUE, heard |-> TRUE]

-----------------------------------------------------------------------------
(* The session of the tab.                                                 *)
hasActiveSession == stored # 0

(* The token a page works with: its own, or the stored one.                *)
SessionToken(p) == IF p.token # 0 THEN p.token ELSE stored'

(* Shows page p once the effects of its first render have run: the pages   *)
(* that lack what they need send the elector back, and the confirmation    *)
(* page asks for a code.  The calls of the page left go on unmounted.      *)
ElectionCandidats(p) == IF stored' # 0 THEN p ELSE AccesScrutin

VoteValidation(p) ==
    IF SessionToken(p) # 0 /\ p.candidate # None THEN p
    ELSE ElectionCandidats(At("candidates", 0, None, "access"))

CandidateDetails(p) ==
    IF p.candidate # None /\ p.token # 0 THEN p ELSE AccesScrutin

Landing(p) ==
    CASE p.name = "confirmAccess" -> IF p.token = 0 THEN AccesScrutin ELSE p
      [] p.name = "candidates"    -> ElectionCandidats(p)
      [] p.name = "details"       -> CandidateDetails(p)
      [] p.name = "confirm"       -> VoteValidation(p)
      [] OTHER                    -> p

Show(p, cs) ==
    LET l    == Landing(p)
        rest == {[c EXCEPT !.mounted = FALSE] : c \in cs}
    IN  /\ page' = l
        /\ form' = [FreshForm EXCEPT !.requesting = l.name = "confirm"]
        /\ calls' = IF l.name = "confirm"
                    THEN rest \cup {NewCall("requestOtp", SessionToken(l), 0, l.candidate)}
                    ELSE rest

Stay(f, cs) == form' = f /\ calls' = cs /\ UNCHANGED page

Init ==
    /\ temp = NoTemp /\ requests = 0 /\ votes = <<>>
    /\ calls = {} /\ moves = 0 /\ ordered = TRUE /\ overlap = FALSE
    /\ form = FreshForm
    /\ \/ /\ access = <<>> /\ codes = 0 /\ live = {} /\ stored = 0
          /\ page = AccesScrutin
       \/ /\ access = <<NoEntry>> /\ codes = 1 /\ live = {1} /\ stored = 1
          /\ page = At("candidates", 1, None, "confirmAccess")
    /\ mailed = 1 .. codes

-----------------------------------------------------------------------------
(* The server.                                                             *)
Used == Len(votes)

Sending(c) == c.op \in {"requestOtp", "resendOtp"}

(* The call will write in vote_temp a choice that it made or read earlier. *)
Writing(c) == c.step = "choose" \/ (c.op = "submitPrivate" /\ c.step = "put")

(* A call is begun out of turn if one made before it still waits, or if it *)
(* is for a code and one that writes a choice has not yet done so; votes   *)
(* and access codes overlap if one is examined before another is answered. *)
Begin(c) ==
    /\ c.step = "sent"
    /\ ordered' = (ordered /\ \A d \in calls : /\ d.n < c.n => d.step # "sent"
                                               /\ Sending(c) => ~Writing(d))
    /\ overlap' = (overlap \/ \E d \in calls : d.op = c.op /\ d.step \in {"put", "forget", "vote", "count"})

Goto(c, step, seen) ==
    calls' = (calls \ {c}) \cup {[c EXCEPT !.step = step, !.seen = seen]}

Reply(c, status, result) ==
    calls' = (calls \ {c}) \cup
             IF c.heard THEN {[c EXCEPT !.step = "answered", !.seen = NoTemp,
                                        !.status = status, !.result = result]}
             ELSE {}

(* The answer is the same whether the elector is sent a code or not.       *)
verifyAccess(c) ==
    /\ c.op = "verifyAccess" /\ Begin(c)
    /\ UNCHANGED <<live, temp, requests, votes, tab, moves>>
    /\ \/ /\ Reply(c, "refused", 0) /\ UNCHANGED <<access, codes, mailed>>
       \/ /\ codes' = IF Used < MaxVotes THEN codes + 1 ELSE codes
          /\ mailed' = mailed \cup (codes + 1) .. codes'
          /\ access' = Append(access, [open |-> TRUE, attempts |-> 0,
                                       code |-> IF Used < MaxVotes THEN codes + 1 ELSE 0])
          /\ Reply(c, "ok", Len(access) + 1)

verifyAccessOtp(c) ==
    /\ c.op = "verifyAccessOtp" /\ Begin(c)
    /\ UNCHANGED <<temp, requests, votes, codes, mailed, tab, moves>>
    /\ LET entry == access[c.token] IN
       \/ /\ ~entry.open
          /\ Reply(c, "401", 0) /\ UNCHANGED <<access, live>>
       \/ /\ entry.open /\ entry.attempts >= AccessTries
          /\ access' = [access EXCEPT ![c.token] = NoEntry]
          /\ Reply(c, "429", 0) /\ UNCHANGED live
       \/ /\ entry.open /\ entry.attempts < AccessTries
          /\ entry.code # c.code \/ entry.code = 0
          /\ Goto(c, "put", [NoTemp EXCEPT !.code = entry.code, !.attempts = entry.attempts])
          /\ UNCHANGED <<access, live>>
       \/ /\ entry.open /\ entry.attempts < AccessTries
          /\ entry.code = c.code /\ entry.code # 0
          /\ access' = [access EXCEPT ![c.token] = NoEntry]
          /\ live' = live \cup {c.token}
          /\ Reply(c, "ok", c.token)

(* The entry read is put back with one attempt more, whatever happened to  *)
(* it meanwhile.                                                           *)
PutAccess(c) ==
    /\ c.op = "verifyAccessOtp" /\ c.step = "put"
    /\ access' = [access EXCEPT ![c.token] =
                    [open |-> TRUE, code |-> c.seen.code, attempts |-> c.seen.attempts + 1]]
    /\ Reply(c, "401", 0)
    /\ UNCHANGED <<live, temp, requests, votes, codes, mailed, tab, moves, ghosts>>

(* A code is made for a choice, unless too many were.                      *)
requestOtp(c) ==
    /\ Sending(c) /\ Begin(c)
    /\ UNCHANGED <<server, tab, moves>>
    /\ \/ c.token \notin live /\ Reply(c, "401", 0)
       \/ c.token \in live /\ requests >= Requests /\ Reply(c, "429", 0)
       \/ c.token \in live /\ requests < Requests /\ Goto(c, "choose", NoTemp)

(* A mutant: a choice already waiting is kept, and only its code renewed.  *)
PutChoice_Keeps(c) ==
    /\ Sending(c) /\ c.step = "choose"
    /\ temp' = [candidate |-> IF temp = NoTemp THEN c.shown ELSE temp.candidate,
                code |-> codes + 1, attempts |-> 0]
    /\ codes' = codes + 1
    /\ Goto(c, "mail", [NoTemp EXCEPT !.code = codes'])
    /\ UNCHANGED <<access, live, requests, votes, mailed, tab, moves, ghosts>>

(* One choice at a time waits for a code: the last one written.            *)
PutChoice(c) ==
    /\ Sending(c) /\ c.step = "choose"
    /\ temp' = [candidate |-> c.shown, code |-> codes + 1, attempts |-> 0]
    /\ codes' = codes + 1
    /\ Goto(c, "mail", [NoTemp EXCEPT !.code = codes'])
    /\ UNCHANGED <<access, live, requests, votes, mailed, tab, moves, ghosts>>

SendOtpCode(c) ==
    /\ Sending(c) /\ c.step = "mail"
    /\ mailed' = mailed \cup {c.seen.code}
    /\ Goto(c, "increment", NoTemp)
    /\ UNCHANGED <<access, live, temp, requests, votes, codes, tab, moves, ghosts>>

IncrementAttempts(c) ==
    /\ Sending(c) /\ c.step = "increment"
    /\ requests' = requests + 1
    /\ Reply(c, "ok", 0)
    /\ UNCHANGED <<access, live, temp, votes, codes, mailed, tab, moves, ghosts>>

(* The election may not be votable when the call comes.                    *)
submitPrivate(c) ==
    /\ c.op = "submitPrivate" /\ Begin(c)
    /\ UNCHANGED <<server, tab, moves>>
    /\ \/ Reply(c, "refused", 0)
       \/ c.token \notin live /\ Reply(c, "401", 0)
       \/ /\ c.token \in live /\ Used < MaxVotes /\ temp # NoTemp
          /\ Goto(c, IF temp.code = c.code THEN "forget" ELSE "put", temp)

PutTemp(c) ==
    /\ c.op = "submitPrivate" /\ c.step = "put"
    /\ temp' = IF c.seen.attempts + 1 >= OtpTries THEN NoTemp
               ELSE [c.seen EXCEPT !.attempts = @ + 1]
    /\ Reply(c, "refused", 0)
    /\ UNCHANGED <<access, live, requests, votes, codes, mailed, tab, moves, ghosts>>

(* A mutant: only the counter of codes is reset.                           *)
ForgetTemp_Stays(c) ==
    /\ c.op = "submitPrivate" /\ c.step = "forget"
    /\ requests' = 0
    /\ Goto(c, "vote", c.seen)
    /\ UNCHANGED <<access, live, temp, votes, codes, mailed, tab, moves, ghosts>>

(* The code is spent before the vote is made.                              *)
ForgetTemp(c) ==
    /\ c.op = "submitPrivate" /\ c.step = "forget"
    /\ temp' = NoTemp /\ requests' = 0
    /\ Goto(c, "vote", c.seen)
    /\ UNCHANGED <<access, live, votes, codes, mailed, tab, moves, ghosts>>

(* CreateVoteAction: one transaction, which counts the votes again.        *)
createVote(c) ==
    /\ c.op = "submitPrivate" /\ c.step = "vote"
    /\ UNCHANGED <<access, live, temp, requests, codes, mailed, tab, moves, ghosts>>
    /\ \/ Reply(c, "refused", 0) /\ UNCHANGED votes
       \/ /\ Used < MaxVotes
          /\ votes' = Append(votes, [candidate |-> c.seen.candidate, code |-> c.seen.code,
                                     shown |-> c.shown])
          /\ Goto(c, "count", NoTemp)

CountRemaining(c) ==
    /\ c.op = "submitPrivate" /\ c.step = "count"
    /\ live' = IF Used >= MaxVotes THEN live \ {c.token} ELSE live
    /\ Reply(c, "ok", MaxVotes - Used)
    /\ UNCHANGED <<access, temp, requests, votes, codes, mailed, tab, moves, ghosts>>

Serve(c) ==
    \/ verifyAccess(c) \/ verifyAccessOtp(c) \/ PutAccess(c)
    \/ requestOtp(c) \/ PutChoice(c) \/ SendOtpCode(c) \/ IncrementAttempts(c)
    \/ submitPrivate(c) \/ PutTemp(c) \/ ForgetTemp(c) \/ createVote(c) \/ CountRemaining(c)

-----------------------------------------------------------------------------
(* The tab hears that a call ended: answered, or given up on after the     *)
(* timeout while the server may still be at it.                            *)
Arrives(c, s) ==
    /\ c.heard
    /\ \/ s = c.status /\ s # "pending" /\ UNCHANGED moves
       \/ s = "lost" /\ c.status = "pending" /\ moves < MaxMoves /\ moves' = moves + 1
    /\ UNCHANGED <<server, ghosts>>

Others(c) == (calls \ {c}) \cup
             IF c.status = "pending" THEN {[c EXCEPT !.heard = FALSE]} ELSE {}

Idle(c) == Stay(IF c.mounted THEN [form EXCEPT !.busy = FALSE] ELSE form, Others(c))

HearAccess(c, s) ==
    /\ c.op = "verifyAccess" /\ Arrives(c, s) /\ UNCHANGED stored
    /\ IF s = "ok" THEN Show(At("confirmAccess", c.result, None, "access"), Others(c))
       ELSE Idle(c)

startSession(token) == stored' = token
endSession == stored' = 0

HearAccessOtp(c, s) ==
    /\ c.op = "verifyAccessOtp" /\ Arrives(c, s)
    /\ CASE s = "ok"  -> /\ startSession(c.result)
                         /\ Show(At("candidates", c.result, None, "confirmAccess"), Others(c))
         [] s = "429" -> UNCHANGED stored /\ Show(AccesScrutin, Others(c))
         [] OTHER     -> UNCHANGED stored /\ Idle(c)

(* A code that could not be sent returns to the candidates, even from      *)
(* another page.                                                           *)
HearRequest(c, s) ==
    /\ c.op = "requestOtp" /\ Arrives(c, s) /\ UNCHANGED stored
    /\ IF s = "ok"
       THEN Stay(IF c.mounted THEN [form EXCEPT !.requesting = FALSE, !.canResend = FALSE,
                                                !.timer = TRUE]
                 ELSE form, Others(c))
       ELSE Show(At("candidates", 0, None, "access"), Others(c))

(* A mutant: a refused request leaves the button disabled.                 *)
HearResend_IfSent(c, s) ==
    /\ c.op = "resendOtp" /\ Arrives(c, s) /\ UNCHANGED stored
    /\ Stay(IF c.mounted /\ s = "ok" THEN [form EXCEPT !.timer = TRUE] ELSE form, Others(c))

HearResend(c, s) ==
    /\ c.op = "resendOtp" /\ Arrives(c, s) /\ UNCHANGED stored
    /\ Stay(IF c.mounted THEN [form EXCEPT !.timer = TRUE] ELSE form, Others(c))

(* A mutant: every recorded vote ends the session.                         *)
HearSubmit_Ends(c, s) ==
    /\ c.op = "submitPrivate" /\ Arrives(c, s)
    /\ IF s = "ok" THEN endSession /\ Show(At("success", 0, c.shown, "access"), Others(c))
       ELSE UNCHANGED stored /\ Idle(c)

HearSubmit(c, s) ==
    /\ c.op = "submitPrivate" /\ Arrives(c, s)
    /\ CASE s = "ok" /\ c.result > 0 ->
              UNCHANGED stored /\ Show(At("candidates", 0, None, "access"), Others(c))
         [] s = "ok" /\ c.result = 0 ->
              endSession /\ Show(At("success", 0, c.shown, "access"), Others(c))
         [] OTHER -> UNCHANGED stored /\ Idle(c)

Hear(c, s) == HearAccess(c, s) \/ HearAccessOtp(c, s) \/ HearRequest(c, s)
              \/ HearResend(c, s) \/ HearSubmit(c, s)

ResendTimer ==
    /\ form.timer
    /\ form' = [form EXCEPT !.timer = FALSE, !.canResend = TRUE]
    /\ UNCHANGED <<server, page, stored, calls, moves, ghosts>>

-----------------------------------------------------------------------------
(* The elector.                                                            *)
Move == moves < MaxMoves /\ moves' = moves + 1

Issue(op, token, code) ==
    /\ Move
    /\ calls' = calls \cup {NewCall(op, token, code, page.candidate)}
    /\ UNCHANGED <<server, page, stored, ghosts>>

Busy == form' = [form EXCEPT !.busy = TRUE]

AccessReady        == page.name = "access" /\ ~form.busy
ConfirmAccessReady == page.name = "confirmAccess" /\ ~form.busy
CandidatesShown    == page.name = "candidates" /\ (page.token # 0 \/ stored # 0)
ConfirmReady       == page.name = "confirm" /\ ~form.busy /\ ~form.requesting

submitAccess    == AccessReady /\ Issue("verifyAccess", 0, 0) /\ Busy
submitAccessOtp == ConfirmAccessReady /\ Busy
                   /\ \E k \in {0} \cup mailed : Issue("verifyAccessOtp", page.token, k)

(* From the list, or from the page of one candidate.                       *)
ToPage(p) == Move /\ UNCHANGED <<server, stored, ghosts>> /\ Show(p, calls)

Own == IF page.token # 0 THEN page.token ELSE stored

handleCandidateDetails(x) ==
    CandidatesShown /\ ToPage(At("details", Own, x, "candidates"))
handleVote(x) ==
    \/ CandidatesShown /\ ToPage(At("confirm", Own, x, "candidates"))
    \/ page.name = "details" /\ x = page.candidate
       /\ ToPage(At("confirm", page.token, x, "details"))

Back ==
    \/ page.name = "confirm" /\ page.via = "candidates"
       /\ ToPage(At("candidates", page.token, None, "confirmAccess"))
    \/ page.name = "confirm" /\ page.via = "details"
       /\ ToPage(At("details", page.token, page.candidate, "candidates"))
    \/ page.name = "details"
       /\ ToPage(At("candidates", page.token, None, "confirmAccess"))

(* The code typed is one that was emailed (the queue may deliver them in    *)
(* any order), or a slip.                                                  *)
submitVote == ConfirmReady /\ Busy
              /\ \E k \in {0} \cup mailed : Issue("submitPrivate", Own, k)
resendCode == page.name = "confirm" /\ form.canResend
              /\ form' = [form EXCEPT !.canResend = FALSE]
              /\ Issue("resendOtp", Own, 0)

handleVoterLogout ==
    /\ hasActiveSession /\ endSession
    /\ Show(AccesScrutin, calls)
    /\ UNCHANGED <<server, moves, ghosts>>

Elector ==
    \/ submitAccess \/ submitAccessOtp \/ submitVote \/ resendCode \/ Back
    \/ handleVoterLogout
    \/ \E x \in Candidate : handleCandidateDetails(x) \/ handleVote(x)

(* The cache forgets a session (30 minutes), a choice (10 minutes); the    *)
(* tab its stored session (60 minutes).  The page is reloaded.             *)
Expire ==
    /\ Move /\ UNCHANGED <<access, requests, votes, codes, mailed, page, form, calls, ghosts>>
    /\ \/ live # {} /\ live' = {} /\ UNCHANGED <<temp, stored>>
       \/ temp # NoTemp /\ temp' = NoTemp /\ UNCHANGED <<live, stored>>
       \/ stored # 0 /\ endSession /\ UNCHANGED <<live, temp>>

Reload ==
    /\ Move /\ UNCHANGED <<server, stored, ghosts>>
    /\ Show(page, {[c EXCEPT !.heard = FALSE] : c \in {d \in calls : d.status = "pending"}})

Next ==
    \/ Elector
    \/ \E c \in calls : Serve(c)
    \/ \E c \in calls, s \in Status : Hear(c, s)
    \/ ResendTimer \/ Expire \/ Reload

Spec == Init /\ [][Next]_vars

-----------------------------------------------------------------------------
(* When the server takes the calls in the order of the clicks, and those   *)
(* for codes one after another, a vote goes to the candidate of the page   *)
(* where its code was typed (the call does not name the candidate), and    *)
(* the success page names one voted for.  When two choices are written in  *)
(* the other order, or an old one is put back, the vote goes elsewhere.    *)
VoteIsForThePage ==
    ordered => /\ \A i \in DOMAIN votes : votes[i].candidate = votes[i].shown
               /\ page.name = "success" =>
                    \E i \in DOMAIN votes : votes[i].candidate = page.candidate

(* A code records one vote, unless two submissions of it were examined at  *)
(* once (the first was given up on, and made again with a new key).        *)
CodeUsedOnce ==
    ~overlap => \A i, j \in DOMAIN votes : votes[i].code = votes[j].code => i = j

(* The success page, where the session of the tab ends, is reached by an   *)
(* elector who has no vote left.                                           *)
SuccessMeansDone == page.name = "success" => Used >= MaxVotes

(* The confirmation page offers another code again: while it does not, one *)
(* is being sent or the 30 seconds are running.                            *)
ResendComesBack ==
    page.name = "confirm" =>
        \/ form.canResend \/ form.timer
        \/ \E c \in calls : /\ c.op \in {"requestOtp", "resendOtp"}
                            /\ c.mounted /\ c.heard
=============================================================================
