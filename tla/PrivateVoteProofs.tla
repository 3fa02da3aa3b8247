-------------------------- MODULE PrivateVoteProofs --------------------------
(***************************************************************************)
(* For any candidates, limits and number of faults: a private vote is for  *)
(* the page where its code was typed, a code records one vote, the success *)
(* page ends the votes of the elector, and another code can be asked for.  *)
(***************************************************************************)
EXTENDS PrivateVote, SequenceTheorems, TLAPS

Choice == Candidate \cup {None}
Names  == {"access", "confirmAccess", "candidates", "details", "confirm", "success"}
Page   == [name : Names, token : Nat, candidate : Choice, via : Names]
Form   == [busy : BOOLEAN, requesting : BOOLEAN, canResend : BOOLEAN, timer : BOOLEAN]
Entry  == [open : BOOLEAN, code : Nat, attempts : Nat]
Temp   == [candidate : Choice, code : Nat, attempts : Nat]
Vote   == [candidate : Choice, code : Nat, shown : Choice]

Op   == {"verifyAccess", "verifyAccessOtp", "requestOtp", "resendOtp", "submitPrivate"}
Step == {"sent", "put", "choose", "mail", "increment", "forget", "vote", "count", "answered"}
Call == [n : Nat, op : Op, token : Nat, code : Nat, shown : Choice, step : Step, seen : Temp,
         status : Status, result : Nat, mounted : BOOLEAN, heard : BOOLEAN]

TypeOK ==
    /\ page \in Page /\ form \in Form /\ stored \in Nat
    /\ access \in Seq(Entry) /\ temp \in Temp /\ codes \in Nat
    /\ mailed \subseteq Nat /\ votes \in Seq(Vote) /\ Used <= MaxVotes
    /\ calls \subseteq Call /\ moves \in Nat

(* The calls are numbered in the order of the clicks.                      *)
Numbered(cs, m) == /\ \A c \in cs : c.n <= m
                   /\ \A c, d \in cs : c.n = d.n => c = d

(* The server's answer is its last step.                                   *)
Answers(c) == c.status # "pending" <=> c.step = "answered"

(* The accesses that calls and pages are about have been asked for.         *)
Known(token) == token \in 1 .. Len(access)

AccessOK ==
    /\ page.name = "confirmAccess" => Known(page.token)
    /\ \A c \in calls : /\ c.op = "verifyAccessOtp" => Known(c.token)
                        /\ c.op = "verifyAccess" /\ c.status = "ok" => Known(c.result)

CallsOK == /\ TypeOK /\ Numbered(calls, moves)
           /\ \A c \in calls : Answers(c)

-----------------------------------------------------------------------------
(* What the steps do to the calls.                                         *)

(* e is call d, of which only the page has changed its mind.               *)
Kept(d, e) ==
    /\ e.n = d.n /\ e.op = d.op /\ e.token = d.token /\ e.code = d.code /\ e.shown = d.shown
    /\ e.step = d.step /\ e.seen = d.seen /\ e.status = d.status /\ e.result = d.result
    /\ e.mounted => d.mounted

(* e is a call made by the step.                                           *)
Fresh(e) ==
    /\ e.n = moves + 1 /\ e.step = "sent" /\ e.seen = NoTemp /\ e.status = "pending"
    /\ e.mounted /\ e.heard

(* e is call c, which the server took to another step.                     *)
Moved(c, e) ==
    /\ e.n = c.n /\ e.op = c.op /\ e.token = c.token /\ e.code = c.code /\ e.shown = c.shown
    /\ e.mounted = c.mounted /\ e.heard = c.heard

(* The steps of the tab keep the calls, and make at most one.              *)
TabKeeps ==
    /\ calls' \subseteq Call /\ moves' \in {moves, moves + 1} /\ Numbered(calls', moves')
    /\ \A e \in calls' : (Fresh(e) /\ moves' = moves + 1) \/ \E d \in calls : Kept(d, e)

(* The server replaces the call it serves, or forgets it.                  *)
Goes(c, step, seen) ==
    /\ calls' \subseteq Call /\ Numbered(calls', moves)
    /\ \A e \in calls' : e \in calls \ {c} \/ /\ Moved(c, e) /\ e.step = step /\ e.seen = seen
                                               /\ e.status = c.status
    /\ \A d \in calls \ {c} : d \in calls'
    /\ c.heard => \E e \in calls' : Moved(c, e)

Replies(c, status, result) ==
    /\ calls' \subseteq Call /\ Numbered(calls', moves)
    /\ \A e \in calls' : e \in calls \ {c} \/ /\ Moved(c, e) /\ e.step = "answered"
                                               /\ e.seen = NoTemp /\ e.status = status
                                               /\ e.result = result
    /\ \A d \in calls \ {c} : d \in calls'
    /\ c.heard => \E e \in calls' : Moved(c, e)

(* There is no entry, and no choice.                                       *)
LEMMA NoneType ==
  /\ NoTemp \in Temp /\ NoTemp.code = 0 /\ NoEntry \in Entry /\ None \in Choice
  /\ FreshForm \in Form /\ AccesScrutin \in Page /\ AccesScrutin.name = "access"
  BY DEF NoTemp, Temp, NoEntry, Entry, Choice, FreshForm, Form, AccesScrutin, At, Page, Names

(* A call goes to a step of the server.                                    *)
LEMMA GotoGoes ==
  ASSUME CallsOK, NEW c \in calls, NEW step \in Step, NEW seen \in Temp, Goto(c, step, seen)
  PROVE  Goes(c, step, seen)
  <1> DEFINE e == [c EXCEPT !.step = step, !.seen = seen]
  <1>1. c \in Call /\ calls \subseteq Call /\ Numbered(calls, moves)
    BY DEF CallsOK, TypeOK
  <1>2. e \in Call /\ Moved(c, e) /\ e.step = step /\ e.seen = seen /\ e.status = c.status
    BY <1>1 DEF Call, Moved
  <1>3. calls' = (calls \ {c}) \cup {e}
    BY DEF Goto
  <1> HIDE DEF e
  <1>4. e.n = c.n
    BY <1>2 DEF Moved
  <1>5. Numbered(calls', moves)
    BY <1>1, <1>3, <1>4 DEF Numbered
  <1> QED BY <1>1, <1>2, <1>3, <1>5 DEF Goes

(* A call is answered: the page hears it, or has given it up.              *)
LEMMA ReplyReplies ==
  ASSUME CallsOK, NEW c \in calls, NEW status \in Status, NEW result \in Nat,
         Reply(c, status, result)
  PROVE  Replies(c, status, result)
  <1> DEFINE e == [c EXCEPT !.step = "answered", !.seen = NoTemp,
                            !.status = status, !.result = result]
  <1>1. c \in Call /\ calls \subseteq Call /\ Numbered(calls, moves)
    BY DEF CallsOK, TypeOK
  <1>2. /\ e \in Call /\ Moved(c, e) /\ e.step = "answered" /\ e.seen = NoTemp
        /\ e.status = status /\ e.result = result
    BY <1>1, NoneType DEF Call, Moved, Step
  <1>3. calls' = (calls \ {c}) \cup IF c.heard THEN {e} ELSE {}
    BY DEF Reply
  <1> HIDE DEF e
  <1>4. e.n = c.n
    BY <1>2 DEF Moved
  <1>5. Numbered(calls', moves)
    BY <1>1, <1>3, <1>4 DEF Numbered
  <1> QED BY <1>1, <1>2, <1>3, <1>5 DEF Replies

(* Calls of the tab: those in flight, some of which it no longer hears.    *)
Heard(cs) ==
    /\ cs \subseteq Call /\ Numbered(cs, moves)
    /\ \A e \in cs : \E d \in calls : Kept(d, e)

(* A call whose answer is heard, or given up, is forgotten at most.        *)
LEMMA OthersHeard ==
  ASSUME CallsOK, NEW c \in calls
  PROVE  /\ Heard(Others(c))
         /\ \A d \in calls \ {c} : d \in Others(c)
  <1> DEFINE e == [c EXCEPT !.heard = FALSE]
  <1>1. c \in Call /\ calls \subseteq Call /\ Numbered(calls, moves)
    BY DEF CallsOK, TypeOK
  <1>2. e \in Call /\ Kept(c, e) /\ e.n = c.n
    BY <1>1 DEF Call, Kept
  <1>3. \A d \in Call : Kept(d, d)
    BY DEF Kept, Call
  <1>4. Others(c) = (calls \ {c}) \cup IF c.status = "pending" THEN {e} ELSE {}
    BY DEF Others
  <1> HIDE DEF e
  <1>5. Others(c) \subseteq Call /\ \A d \in calls \ {c} : d \in Others(c)
    BY <1>1, <1>2, <1>4
  <1>6. Numbered(Others(c), moves)
    BY <1>1, <1>2, <1>4 DEF Numbered
  <1>7. \A f \in Others(c) : \E d \in calls : Kept(d, f)
    BY <1>1, <1>2, <1>3, <1>4
  <1> QED BY <1>5, <1>6, <1>7 DEF Heard

(* So are all, when nothing is heard.                                      *)
LEMMA CallsHeard == CallsOK => Heard(calls)
  <1> SUFFICES ASSUME CallsOK PROVE Heard(calls)
    OBVIOUS
  <1>1. calls \subseteq Call /\ Numbered(calls, moves)
    BY DEF CallsOK, TypeOK
  <1>2. \A d \in Call : Kept(d, d)
    BY DEF Kept, Call
  <1> QED BY <1>1, <1>2 DEF Heard

(* Those that wait when the page is reloaded are not heard.                *)
Silenced == {[c EXCEPT !.heard = FALSE] : c \in {d \in calls : d.status = "pending"}}

(* They are calls of the tab too.                                           *)
LEMMA SilencedHeard == CallsOK => Heard(Silenced)
  <1> SUFFICES ASSUME CallsOK PROVE Heard(Silenced)
    OBVIOUS
  <1> DEFINE Mute(c) == [c EXCEPT !.heard = FALSE]
  <1>1. calls \subseteq Call /\ Numbered(calls, moves)
    BY DEF CallsOK, TypeOK
  <1>2. \A c \in Call : Mute(c) \in Call /\ Kept(c, Mute(c)) /\ Mute(c).n = c.n
    BY DEF Call, Kept
  <1>3. \A e \in Silenced : \E c \in calls : e = Mute(c)
    BY DEF Silenced
  <1> HIDE DEF Mute
  <1>4. Numbered(Silenced, moves)
    BY <1>1, <1>2, <1>3 DEF Numbered
  <1> QED BY <1>1, <1>2, <1>3, <1>4 DEF Heard

(* A new call is the last one.                                             *)
LEMMA NewCallType ==
  ASSUME CallsOK, NEW op \in Op, NEW token \in Nat, NEW code \in Nat, NEW x \in Choice
  PROVE  LET e == NewCall(op, token, code, x) IN
         /\ e \in Call /\ Fresh(e) /\ e.op = op /\ e.token = token /\ e.code = code
         /\ e.shown = x
  <1> moves \in Nat
    BY DEF CallsOK, TypeOK
  <1> QED BY NoneType DEF NewCall, Call, Step, Status, Fresh

(* A page is shown: no call but the one it makes is its own.               *)
Shows(p, cs) ==
    /\ page' \in Page /\ form' \in Form /\ calls' \subseteq Call
    /\ page'.name \in {"confirmAccess", "confirm", "success"} => page' = p
    /\ page'.name # "confirm" => \A e \in calls' : ~e.mounted /\ \E d \in cs : Kept(d, e)
    /\ page'.name = "confirm" =>
         /\ form'.requesting
         /\ \E e \in calls' : Fresh(e) /\ e.op = "requestOtp"
         /\ \A e \in calls' :
              \/ Fresh(e) /\ e.op = "requestOtp" /\ e.code = 0 /\ e.shown = page'.candidate
              \/ ~e.mounted /\ \E d \in cs : Kept(d, e)
    /\ Numbered(cs, moves) /\ page'.name # "confirm" => Numbered(calls', moves)
    /\ Numbered(cs, moves) => Numbered(calls', moves + 1)

(* Show does so.                                                            *)
LEMMA ShowShows ==
  ASSUME CallsOK, NEW p \in Page, NEW cs, cs \subseteq Call, stored' \in Nat, Show(p, cs)
  PROVE  Shows(p, cs)
  <1> DEFINE l      == Landing(p)
             new    == NewCall("requestOtp", SessionToken(l), 0, l.candidate)
             Off(c) == [c EXCEPT !.mounted = FALSE]
             rest   == {Off(c) : c \in cs}
  <1>1. l \in Page /\ (l.name \in {"confirmAccess", "confirm", "success"} => l = p)
    <2>1. /\ ElectionCandidats(p) \in {p, AccesScrutin} /\ CandidateDetails(p) \in {p, AccesScrutin}
          /\ VoteValidation(p) \in
               {p, AccesScrutin, At("candidates", 0, None, "access")}
      BY DEF ElectionCandidats, CandidateDetails, VoteValidation
    <2>2. l \in {p, AccesScrutin, At("candidates", 0, None, "access")}
      BY <2>1 DEF Landing
    <2>3. /\ At("candidates", 0, None, "access") \in Page
          /\ At("candidates", 0, None, "access").name = "candidates"
      BY NoneType DEF At, Page, Names
    <2> QED BY <2>2, <2>3, NoneType
  <1>2. /\ page' = l /\ form' = [FreshForm EXCEPT !.requesting = l.name = "confirm"]
        /\ calls' = IF l.name = "confirm" THEN rest \cup {new} ELSE rest
    BY DEF Show
  <1>3. l.token \in Nat /\ l.candidate \in Choice /\ SessionToken(l) \in Nat
    BY <1>1 DEF Page, SessionToken
  <1>4. /\ new \in Call /\ Fresh(new) /\ new.op = "requestOtp" /\ new.code = 0
        /\ new.shown = l.candidate /\ new.n = moves + 1
    BY <1>3, NewCallType DEF Op, Fresh
  <1>5. \A c \in Call : /\ Off(c) \in Call /\ Kept(c, Off(c)) /\ ~Off(c).mounted
                        /\ Off(c).n = c.n
    BY DEF Call, Kept
  <1>6. /\ form' \in Form /\ (l.name = "confirm" => form'.requesting)
    BY <1>2 DEF FreshForm, Form
  <1>7. \A e \in rest : \E c \in cs : e = Off(c)
    OBVIOUS
  <1> HIDE DEF l, new, Off, rest
  <1>8. \A m \in Nat : Numbered(cs, m) => Numbered(rest, m)
    BY <1>5, <1>7 DEF Numbered
  <1>9. Numbered(cs, moves) => Numbered(rest \cup {new}, moves + 1) /\ Numbered(rest, moves + 1)
    <2> SUFFICES ASSUME Numbered(cs, moves)
                 PROVE  Numbered(rest \cup {new}, moves + 1) /\ Numbered(rest, moves + 1)
      OBVIOUS
    <2>1. moves \in Nat /\ rest \subseteq Call /\ Numbered(rest, moves)
      BY <1>5, <1>7, <1>8 DEF CallsOK, TypeOK
    <2>2. \A e \in rest : e.n \in Nat /\ e.n <= moves
      BY <2>1 DEF Numbered, Call
    <2> QED BY <1>4, <2>1, <2>2 DEF Numbered
  <1>10. calls' \subseteq Call
    BY <1>2, <1>4, <1>5, <1>7
  <1>11. \A e \in rest : ~e.mounted /\ \E d \in cs : Kept(d, e)
    BY <1>5, <1>7
  <1>12. /\ page' = l /\ moves \in Nat
         /\ l.name = "confirm" => calls' = rest \cup {new}
         /\ l.name # "confirm" => calls' = rest
    BY <1>2 DEF CallsOK, TypeOK
  <1>13. /\ Numbered(cs, moves) /\ l.name # "confirm" => Numbered(calls', moves)
         /\ Numbered(cs, moves) => Numbered(calls', moves + 1)
    BY <1>8, <1>9, <1>12
  <1> QED BY <1>1, <1>4, <1>6, <1>10, <1>11, <1>12, <1>13 DEF Shows

-----------------------------------------------------------------------------
(* What the steps do to the page.                                          *)

(* A recorded vote that was the elector's last one.                        *)
Last(c) == c.op = "submitPrivate" /\ c.status = "ok" /\ c.result = 0

(* Another code can be asked for, or will be.                              *)
Resendable ==
    \/ form.canResend \/ form.timer
    \/ \E c \in calls : c.op \in {"requestOtp", "resendOtp"} /\ c.mounted /\ c.heard

(* The call by which the page shown asked for its first code: there is one. *)
IsFirst(c) == c.op = "requestOtp" /\ c.mounted

AloneOK == \A c, d \in calls : IsFirst(c) /\ IsFirst(d) => c = d

(* The first code of the confirmation page was sent.                       *)
CodeSent ==
    \/ ~form.requesting
    \/ \E c \in calls : c.op = "requestOtp" /\ c.mounted /\ c.status = "ok"

(* The tab shows a page anew: of success, after the last vote.             *)
Turns == \E q \in Page : \E cs :
    /\ Heard(cs) /\ Shows(q, cs)
    /\ q.name = "success" => q = page \/ \E c \in calls : Last(c) /\ q.candidate = c.shown
    /\ q.name = "confirmAccess" => q = page \/ Known(q.token)

(* The page stays, and may make a call.                                    *)
Stays ==
    /\ page' = page
    /\ \A e \in calls' : Fresh(e) =>
         /\ e.op # "requestOtp" /\ e.shown = page.candidate /\ e.code \in {0} \cup mailed
         /\ e.op = "submitPrivate" => page.name = "confirm" /\ ~form.requesting
         /\ e.op = "verifyAccessOtp" => page.name = "confirmAccess" /\ e.token = page.token
    /\ ~form'.requesting => CodeSent
    /\ form.requesting /\ ~form'.requesting => \A e \in calls' : ~IsFirst(e)
    /\ Resendable => Resendable'

TabStep ==
    /\ TypeOK' /\ TabKeeps /\ (Turns \/ Stays)
    /\ UNCHANGED <<access, votes, codes, mailed, ghosts>> /\ temp' \in {temp, NoTemp}

(* Numbers that are low enough stay so.                                    *)
LEMMA NumberedAbove ==
  ASSUME CallsOK, NEW cs, cs \subseteq Call, Numbered(cs, moves), moves' \in {moves, moves + 1}
  PROVE  Numbered(cs, moves') /\ moves' \in Nat
  <1> moves \in Nat /\ \A c \in cs : c.n \in Nat
    BY DEF CallsOK, TypeOK, Call
  <1> QED BY DEF Numbered

(* A page shown keeps the calls that were in flight.                       *)
LEMMA ShowsKeep ==
  ASSUME CallsOK, NEW p, NEW cs, Heard(cs), Shows(p, cs),
         \/ moves' = moves + 1
         \/ moves' = moves /\ page'.name # "confirm"
  PROVE  TabKeeps /\ moves' \in Nat
  <1>1. calls' \subseteq Call /\ Numbered(cs, moves) /\ moves \in Nat
    BY DEF Shows, Heard, CallsOK, TypeOK
  <1>2. Numbered(calls', moves')
    BY <1>1 DEF Shows
  <1>3. \A d, e, f : Kept(d, e) /\ Kept(e, f) => Kept(d, f)
    BY DEF Kept
  <1>4. \A e \in calls' :
         (Fresh(e) /\ page'.name = "confirm") \/ \E d \in calls : Kept(d, e)
    BY <1>3 DEF Shows, Heard
  <1> QED BY <1>1, <1>2, <1>4 DEF TabKeeps

(* So does a page that stays.                                              *)
LEMMA StayKeeps ==
  ASSUME CallsOK, NEW cs, Heard(cs), calls' = cs, moves' \in {moves, moves + 1}
  PROVE  TabKeeps /\ moves' \in Nat
  <1>1. cs \subseteq Call /\ Numbered(cs, moves)
    BY DEF Heard
  <1> QED BY <1>1, NumberedAbove DEF TabKeeps, Heard

(* And a page that makes a call.                                           *)
LEMMA IssueKeeps ==
  ASSUME CallsOK, NEW op \in Op, NEW token \in Nat, NEW code \in Nat, Issue(op, token, code)
  PROVE  /\ TabKeeps /\ moves' = moves + 1 /\ UNCHANGED <<server, page, stored, ghosts>>
         /\ calls \subseteq calls'
         /\ \A e \in calls' : Fresh(e) => /\ e.op = op /\ e.token = token /\ e.code = code
                                          /\ e.shown = page.candidate
         /\ \E e \in calls' : Fresh(e) /\ e.op = op
  <1> DEFINE new == NewCall(op, token, code, page.candidate)
  <1>1. /\ calls' = calls \cup {new} /\ moves' = moves + 1
        /\ UNCHANGED <<server, page, stored, ghosts>>
    BY DEF Issue, Move
  <1>2. page.candidate \in Choice
    BY DEF CallsOK, TypeOK, Page
  <1>3. /\ new \in Call /\ Fresh(new) /\ new.op = op /\ new.token = token /\ new.code = code
        /\ new.shown = page.candidate
    BY <1>2, NewCallType
  <1>4. calls \subseteq Call /\ Numbered(calls, moves) /\ moves \in Nat
    BY DEF CallsOK, TypeOK
  <1> HIDE DEF new
  <1>5. \A e \in calls : e.n \in Nat /\ e.n <= moves
    BY <1>4 DEF Numbered, Call
  <1>6. Numbered(calls', moves')
    BY <1>1, <1>3, <1>4, <1>5 DEF Numbered, Fresh
  <1>7. \A e \in calls : ~Fresh(e) /\ Kept(e, e)
    BY <1>4, <1>5 DEF Fresh, Kept
  <1> QED BY <1>1, <1>3, <1>4, <1>6, <1>7 DEF TabKeeps

(* A step that shows a page anew.                                          *)
LEMMA TurnStep ==
  ASSUME CallsOK, NEW p \in Page, NEW cs, Heard(cs), stored' \in Nat, Show(p, cs),
         p.name = "success" => p = page \/ \E c \in calls : Last(c) /\ p.candidate = c.shown,
         p.name = "confirmAccess" => p = page \/ Known(p.token),
         \/ moves' = moves + 1
         \/ moves' \in {moves, moves + 1} /\ p.name # "confirm",
         UNCHANGED <<server, ghosts>>
  PROVE  TabStep
  <1>1. cs \subseteq Call
    BY DEF Heard
  <1>2. Shows(p, cs)
    BY <1>1, ShowShows
  <1>3. moves' = moves + 1 \/ (moves' = moves /\ page'.name # "confirm")
    BY <1>2 DEF Shows
  <1>4. TabKeeps /\ moves' \in Nat
    BY <1>2, <1>3, ShowsKeep
  <1>5. TypeOK'
    BY <1>2, <1>4 DEF Shows, CallsOK, TypeOK, server, Used
  <1>6. Turns
    BY <1>2 DEF Turns
  <1> QED BY <1>4, <1>5, <1>6 DEF TabStep, server

(* A step that stays on the page, and makes no call.                       *)
LEMMA StayStep ==
  ASSUME CallsOK, NEW cs, Heard(cs), moves' \in {moves, moves + 1},
         calls' = cs, page' = page, form' \in Form, stored' \in Nat,
         ~form'.requesting => CodeSent, Resendable => Resendable',
         form.requesting /\ ~form'.requesting => \A e \in calls' : ~IsFirst(e),
         UNCHANGED <<access, live, requests, votes, codes, mailed, ghosts>>,
         temp' \in {temp, NoTemp}
  PROVE  TabStep
  <1>1. TabKeeps /\ moves' \in Nat
    BY StayKeeps
  <1>2. TypeOK'
    BY <1>1, NoneType DEF Heard, CallsOK, TypeOK, Used
  <1>3. \A e \in calls' : ~Fresh(e)
    <2>1. \A d \in calls : d.n \in Nat /\ d.n <= moves
      BY DEF CallsOK, TypeOK, Numbered, Call
    <2> QED BY <2>1 DEF Heard, Kept, Fresh, CallsOK, TypeOK
  <1>4. Stays
    BY <1>3 DEF Stays
  <1> QED BY <1>1, <1>2, <1>4 DEF TabStep, server

(* A step that stays on the page, and makes a call.                        *)
LEMMA IssueStep ==
  ASSUME CallsOK, NEW op \in Op \ {"requestOtp"}, NEW token \in Nat, NEW code \in {0} \cup mailed,
         Issue(op, token, code), form' \in Form,
         op = "submitPrivate" => page.name = "confirm" /\ ~form.requesting,
         op = "verifyAccessOtp" => page.name = "confirmAccess" /\ token = page.token,
         form'.requesting = form.requesting, form'.timer = form.timer,
         form'.canResend = form.canResend \/ op = "resendOtp"
  PROVE  TabStep
  <1>1. code \in Nat /\ op \in Op
    BY DEF CallsOK, TypeOK
  <1>2. /\ TabKeeps /\ moves' = moves + 1 /\ UNCHANGED <<server, page, stored, ghosts>>
        /\ calls \subseteq calls'
        /\ \A e \in calls' : Fresh(e) => /\ e.op = op /\ e.token = token /\ e.code = code
                                         /\ e.shown = page.candidate
        /\ \E e \in calls' : Fresh(e) /\ e.op = op
    BY <1>1, IssueKeeps
  <1>3. TypeOK'
    BY <1>2 DEF TabKeeps, CallsOK, TypeOK, server, Used
  <1>4. Resendable => Resendable'
    BY <1>2 DEF Resendable, Fresh
  <1>5. Stays
    BY <1>2, <1>4 DEF Stays, CodeSent
  <1> QED BY <1>2, <1>3, <1>5 DEF TabStep, server

-----------------------------------------------------------------------------
(* The steps of the tab, one by one.                                       *)

(* What a page and the fields of a call may hold.                          *)
LEMMA AtType ==
  ASSUME NEW name \in Names, NEW token \in Nat, NEW x \in Choice, NEW via \in Names
  PROVE  LET q == At(name, token, x, via) IN
         q \in Page /\ q.name = name /\ q.token = token /\ q.candidate = x
  BY DEF At, Page

(* An answer that changes no more than the form.                           *)
LEMMA IdleStep ==
  ASSUME CallsOK, NEW c \in calls, NEW s, Arrives(c, s), UNCHANGED stored, Idle(c),
         c.op \notin {"requestOtp", "resendOtp"}
  PROVE  TabStep
  <1>1. /\ page' = page /\ calls' = Others(c) /\ UNCHANGED <<server, ghosts>>
        /\ form' = IF c.mounted THEN [form EXCEPT !.busy = FALSE] ELSE form
        /\ moves' \in {moves, moves + 1}
    BY DEF Idle, Stay, Arrives
  <1>2. /\ form' \in Form /\ form'.requesting = form.requesting
        /\ form'.canResend = form.canResend /\ form'.timer = form.timer
    BY <1>1 DEF CallsOK, TypeOK, Form
  <1>3. Heard(Others(c)) /\ \A d \in calls \ {c} : d \in Others(c)
    BY OthersHeard
  <1>4. Resendable => Resendable'
    BY <1>1, <1>2, <1>3 DEF Resendable
  <1>5. ~form'.requesting => CodeSent
    BY <1>2 DEF CodeSent
  <1>6. stored' \in Nat
    BY DEF CallsOK, TypeOK
  <1> QED BY <1>1, <1>2, <1>3, <1>4, <1>5, <1>6, StayStep DEF server

(* The page hears an answer, or gives a call up.                           *)
LEMMA HearStep ==
  ASSUME CallsOK, AccessOK, AloneOK, NEW c \in calls, NEW s \in Status, Hear(c, s)
  PROVE  TabStep
  <1> DEFINE cs == Others(c)
  <1>1. Heard(cs) /\ \A d \in calls \ {c} : d \in cs
    BY OthersHeard
  <1>2. /\ c \in Call /\ c.result \in Nat /\ c.shown \in Choice /\ c.status \in Status
        /\ stored \in Nat /\ form \in Form /\ None \in Choice
    BY NoneType DEF CallsOK, TypeOK, Call
  <1>3. Arrives(c, s) /\ moves' \in {moves, moves + 1} /\ UNCHANGED <<server, ghosts>>
    BY DEF Hear, HearAccess, HearAccessOtp, HearRequest, HearResend, HearSubmit, Arrives
  <1> DEFINE candidates == At("candidates", 0, None, "access")
  <1>4. candidates \in Page /\ candidates.name = "candidates"
    BY <1>2 DEF At, Page, Names
  <1> HIDE DEF cs, candidates
  <1>5. CASE HearAccess(c, s)
    <2>1. CASE s = "ok"
      <3> DEFINE p == At("confirmAccess", c.result, None, "access")
      <3>1. /\ p \in Page /\ p.name = "confirmAccess" /\ p.token = c.result
            /\ Show(p, cs) /\ stored' \in Nat
        BY <1>2, <1>5, <2>1, AtType DEF HearAccess, Names, cs
      <3>2. Known(c.result)
        BY <1>3, <1>5, <2>1 DEF AccessOK, HearAccess, Arrives
      <3> HIDE DEF p
      <3> QED BY <1>1, <1>3, <3>1, <3>2, TurnStep
    <2>2. CASE s # "ok"
      BY <1>3, <1>5, <2>2, IdleStep DEF HearAccess
    <2> QED BY <2>1, <2>2
  <1>6. CASE HearAccessOtp(c, s)
    <2>1. CASE s = "ok"
      <3> DEFINE p == At("candidates", c.result, None, "confirmAccess")
      <3>1. p \in Page /\ p.name = "candidates" /\ Show(p, cs) /\ stored' \in Nat
        BY <1>2, <1>6, <2>1, AtType DEF HearAccessOtp, Names, cs, startSession
      <3> HIDE DEF p
      <3> QED BY <1>1, <1>3, <3>1, TurnStep
    <2>2. CASE s = "429"
      <3>1. Show(AccesScrutin, cs) /\ stored' \in Nat
        BY <1>2, <1>6, <2>2 DEF HearAccessOtp, cs
      <3> QED BY <1>1, <1>3, <3>1, NoneType, TurnStep
    <2>3. CASE s \notin {"ok", "429"}
      <3>1. c.op = "verifyAccessOtp" /\ UNCHANGED stored /\ Idle(c)
        BY <1>6, <2>3 DEF HearAccessOtp
      <3> QED BY <1>3, <3>1, IdleStep
    <2> QED BY <2>1, <2>2, <2>3
  <1>7. CASE HearRequest(c, s)
    <2>1. CASE s = "ok"
      <3>1. /\ c.op = "requestOtp" /\ UNCHANGED stored /\ page' = page /\ calls' = cs
            /\ form' = IF c.mounted THEN [form EXCEPT !.requesting = FALSE, !.canResend = FALSE,
                                                      !.timer = TRUE]
                       ELSE form
        BY <1>7, <2>1 DEF HearRequest, Stay, cs
      <3>2. c.status = "ok"
        BY <1>3, <2>1 DEF Arrives
      <3>3. CASE c.mounted
        <4>1. form' \in Form /\ form'.timer
          BY <1>2, <3>1, <3>3 DEF Form
        <4>2. CodeSent /\ Resendable'
          BY <3>1, <3>2, <3>3, <4>1 DEF CodeSent, Resendable
        <4>3. \A e \in calls' : ~IsFirst(e)
          <5>1. cs = calls \ {c}
            BY <3>2 DEF cs, Others
          <5>2. IsFirst(c)
            BY <3>1, <3>3 DEF IsFirst
          <5> QED BY <3>1, <5>1, <5>2 DEF AloneOK
        <4> QED BY <1>1, <1>2, <1>3, <3>1, <4>1, <4>2, <4>3, StayStep DEF server
      <3>4. CASE ~c.mounted
        <4>1. form' = form
          BY <3>1, <3>4
        <4>2. /\ ~form'.requesting => CodeSent
              /\ Resendable => Resendable'
          BY <1>1, <3>1, <3>4, <4>1 DEF CodeSent, Resendable
        <4> QED BY <1>1, <1>2, <1>3, <3>1, <4>1, <4>2, StayStep DEF server
      <3> QED BY <3>3, <3>4
    <2>2. CASE s # "ok"
      <3>1. Show(candidates, cs) /\ stored' \in Nat
        BY <1>2, <1>7, <2>2 DEF HearRequest, cs, candidates
      <3> QED BY <1>1, <1>3, <1>4, <3>1, TurnStep
    <2> QED BY <2>1, <2>2
  <1>8. CASE HearResend(c, s)
    <2>1. /\ c.op = "resendOtp" /\ UNCHANGED stored /\ page' = page /\ calls' = cs
          /\ form' = IF c.mounted THEN [form EXCEPT !.timer = TRUE] ELSE form
      BY <1>8 DEF HearResend, Stay, cs
    <2>2. /\ form' \in Form /\ form'.requesting = form.requesting
          /\ form'.canResend = form.canResend /\ form'.timer = (form.timer \/ c.mounted)
      BY <1>2, <2>1 DEF Form, Call
    <2>3. /\ ~form'.requesting => CodeSent
          /\ Resendable => Resendable'
      BY <1>1, <2>1, <2>2 DEF CodeSent, Resendable
    <2> QED BY <1>1, <1>2, <1>3, <2>1, <2>2, <2>3, StayStep DEF server
  <1>9. CASE HearSubmit(c, s)
    <2>1. CASE s = "ok" /\ c.result > 0
      <3>1. Show(candidates, cs) /\ stored' \in Nat
        BY <1>2, <1>9, <2>1 DEF HearSubmit, cs, candidates
      <3> QED BY <1>1, <1>3, <1>4, <3>1, TurnStep
    <2>2. CASE s = "ok" /\ c.result = 0
      <3> DEFINE p == At("success", 0, c.shown, "access")
      <3>1. p \in Page /\ p.name = "success" /\ p.candidate = c.shown
        BY <1>2 DEF At, Page, Names
      <3>2. Show(p, cs) /\ stored' \in Nat
        BY <1>9, <2>2 DEF HearSubmit, cs, endSession
      <3>3. Last(c)
        BY <1>3, <1>9, <2>2 DEF Last, HearSubmit, Arrives
      <3> HIDE DEF p
      <3> QED BY <1>1, <1>3, <3>1, <3>2, <3>3, TurnStep
    <2>3. CASE s # "ok"
      <3>1. c.op = "submitPrivate" /\ UNCHANGED stored /\ Idle(c)
        BY <1>9, <2>3 DEF HearSubmit
      <3> QED BY <1>3, <3>1, IdleStep
    <2> QED BY <1>2, <2>1, <2>2, <2>3
  <1> QED BY <1>5, <1>6, <1>7, <1>8, <1>9 DEF Hear

(* What the elector does.                                                  *)
LEMMA ElectorStep == ASSUME CallsOK, Elector PROVE TabStep
  <1>1. /\ page \in Page /\ form \in Form /\ stored \in Nat /\ codes \in Nat
        /\ page.token \in Nat /\ page.candidate \in Choice /\ Own \in Nat
    BY DEF CallsOK, TypeOK, Page, Own
  <1>2. Heard(calls)
    BY CallsHeard
  <1>3. ASSUME NEW p \in Page, ToPage(p), p.name \in {"candidates", "details", "confirm"}
        PROVE  TabStep
    <2>1. /\ moves' = moves + 1 /\ Show(p, calls) /\ stored' \in Nat
          /\ UNCHANGED <<server, ghosts>>
      BY <1>1, <1>3 DEF ToPage, Move
    <2> QED BY <1>2, <1>3, <2>1, TurnStep
  <1>4. CASE submitAccess
    <2>1. Issue("verifyAccess", 0, 0) /\ form' = [form EXCEPT !.busy = TRUE]
      BY <1>4 DEF submitAccess, Busy
    <2>2. /\ form' \in Form /\ form'.requesting = form.requesting
          /\ form'.timer = form.timer /\ form'.canResend = form.canResend
      BY <1>1, <2>1 DEF Form
    <2> QED BY <2>1, <2>2, IssueStep DEF Op
  <1>5. CASE submitAccessOtp
    <2>1. PICK k \in {0} \cup mailed : Issue("verifyAccessOtp", page.token, k)
      BY <1>5 DEF submitAccessOtp
    <2>2. form' = [form EXCEPT !.busy = TRUE] /\ page.name = "confirmAccess"
      BY <1>5 DEF submitAccessOtp, Busy, ConfirmAccessReady
    <2>3. /\ form' \in Form /\ form'.requesting = form.requesting
          /\ form'.timer = form.timer /\ form'.canResend = form.canResend
      BY <1>1, <2>2 DEF Form
    <2> QED BY <1>1, <2>1, <2>2, <2>3, IssueStep DEF Op
  <1>6. CASE submitVote
    <2>1. PICK k \in {0} \cup mailed : Issue("submitPrivate", Own, k)
      BY <1>6 DEF submitVote
    <2>2. form' = [form EXCEPT !.busy = TRUE] /\ page.name = "confirm" /\ ~form.requesting
      BY <1>6 DEF submitVote, Busy, ConfirmReady
    <2>3. /\ form' \in Form /\ form'.requesting = form.requesting
          /\ form'.timer = form.timer /\ form'.canResend = form.canResend
      BY <1>1, <2>2 DEF Form
    <2> QED BY <1>1, <2>1, <2>2, <2>3, IssueStep DEF Op
  <1>7. CASE resendCode
    <2>1. /\ Issue("resendOtp", Own, 0) /\ form' = [form EXCEPT !.canResend = FALSE]
          /\ form.canResend
      BY <1>7 DEF resendCode
    <2>2. /\ form' \in Form /\ form'.requesting = form.requesting
          /\ form'.timer = form.timer
      BY <1>1, <2>1 DEF Form
    <2> QED BY <1>1, <2>1, <2>2, IssueStep DEF Op
  <1>8. CASE Back
    <2> DEFINE p == At("candidates", page.token, None, "confirmAccess")
               q == At("details", page.token, page.candidate, "candidates")
    <2>1. p \in Page /\ p.name = "candidates" /\ q \in Page /\ q.name = "details"
      BY <1>1 DEF At, Page, Names, Choice
    <2>2. ToPage(p) \/ ToPage(q)
      BY <1>8 DEF Back
    <2> HIDE DEF p, q
    <2> QED BY <1>3, <2>1, <2>2
  <1>9. CASE handleVoterLogout
    <2>1. /\ Show(AccesScrutin, calls) /\ stored' \in Nat /\ moves' = moves
          /\ UNCHANGED <<server, ghosts>>
      BY <1>9 DEF handleVoterLogout, endSession
    <2> QED BY <1>2, <2>1, NoneType, TurnStep
  <1>10. ASSUME NEW x \in Candidate, handleCandidateDetails(x) \/ handleVote(x) PROVE TabStep
    <2> DEFINE p(name, token, via) == At(name, token, x, via)
    <2>1. /\ p("details", Own, "candidates") \in Page
          /\ p("details", Own, "candidates").name = "details"
          /\ p("confirm", Own, "candidates") \in Page
          /\ p("confirm", Own, "candidates").name = "confirm"
          /\ p("confirm", page.token, "details") \in Page
          /\ p("confirm", page.token, "details").name = "confirm"
      BY <1>1 DEF At, Page, Names, Choice
    <2>2. \/ ToPage(p("details", Own, "candidates"))
          \/ ToPage(p("confirm", Own, "candidates"))
          \/ ToPage(p("confirm", page.token, "details"))
      BY <1>10 DEF handleCandidateDetails, handleVote
    <2> HIDE DEF p
    <2> QED BY <1>3, <2>1, <2>2
  <1> QED BY <1>4, <1>5, <1>6, <1>7, <1>8, <1>9, <1>10 DEF Elector

(* What happens to the tab by itself.                                      *)
LEMMA ChanceStep == ASSUME CallsOK, ResendTimer \/ Expire \/ Reload PROVE TabStep
  <1>1. page \in Page /\ form \in Form /\ stored \in Nat /\ moves \in Nat
    BY DEF CallsOK, TypeOK
  <1>2. Heard(calls) /\ Heard(Silenced)
    BY CallsHeard, SilencedHeard
  <1>3. CASE ResendTimer
    <2>1. /\ form' = [form EXCEPT !.timer = FALSE, !.canResend = TRUE]
          /\ UNCHANGED <<server, page, stored, calls, moves, ghosts>>
      BY <1>3 DEF ResendTimer
    <2>2. form' \in Form /\ form'.requesting = form.requesting /\ form'.canResend
      BY <1>1, <2>1 DEF Form
    <2>3. /\ ~form'.requesting => CodeSent
          /\ Resendable'
      BY <2>2 DEF CodeSent, Resendable
    <2>4. calls' = calls /\ page' = page /\ stored' \in Nat /\ moves' \in {moves, moves + 1}
      BY <1>1, <2>1
    <2>5. UNCHANGED <<access, live, requests, votes, codes, mailed, ghosts>> /\ temp' \in {temp, NoTemp}
      BY <2>1 DEF server
    <2> QED BY <1>2, <2>2, <2>3, <2>4, <2>5, StayStep
  <1>4. CASE Expire
    <2>1. /\ UNCHANGED <<access, requests, votes, codes, mailed, page, form, calls, ghosts>>
          /\ moves' = moves + 1 /\ stored' \in Nat /\ temp' \in {temp, NoTemp}
      BY <1>1, <1>4 DEF Expire, Move, endSession
    <2>2. TabKeeps /\ moves' \in Nat
      BY <1>2, <2>1, StayKeeps
    <2>3. TypeOK'
      BY <2>1, <2>2, NoneType DEF CallsOK, TypeOK, Used
    <2>4. \A e \in calls : ~Fresh(e)
      <3>1. \A e \in calls : e.n \in Nat /\ e.n <= moves
        BY DEF CallsOK, TypeOK, Numbered, Call
      <3> QED BY <1>1, <3>1 DEF Fresh
    <2>5. Stays
      BY <2>1, <2>4 DEF Stays, CodeSent, Resendable
    <2> QED BY <2>1, <2>2, <2>3, <2>5 DEF TabStep
  <1>5. CASE Reload
    <2>1. /\ Show(page, Silenced) /\ moves' = moves + 1 /\ stored' \in Nat
          /\ UNCHANGED <<server, ghosts>>
      BY <1>1, <1>5 DEF Reload, Move, Silenced
    <2> QED BY <1>1, <1>2, <2>1, TurnStep
  <1> QED BY <1>3, <1>4, <1>5

-----------------------------------------------------------------------------
(* What the steps of the server do.                                        *)
Submission(c) == c.op = "submitPrivate"
Examined(c)   == Submission(c) /\ c.step \in {"put", "forget", "vote", "count"}

(* A call that begins, in turn or alone if the ghosts say so; or goes on.  *)
Begins(c) ==
    /\ c.step = "sent"
    /\ ordered' => ordered /\ \A d \in calls : /\ d.n < c.n => d.step # "sent"
                                               /\ Sending(c) => ~Writing(d)
    /\ ~overlap' => ~overlap /\ (Submission(c) => \A d \in calls : ~Examined(d))

GoesOn(c) == c.step # "sent" /\ UNCHANGED ghosts

(* An answer that concerns no choice and no vote.                          *)
Declines(c) ==
    /\ \/ \E status \in Status : \E result \in Nat :
            Replies(c, status, result) /\ (Sending(c) \/ Submission(c) => status # "ok")
       \/ c.op = "verifyAccessOtp" /\ \E seen \in Temp : Goes(c, "put", seen)
    /\ UNCHANGED <<temp, votes>> /\ codes' \in {codes, codes + 1}
    /\ mailed' \subseteq mailed \cup (codes + 1) .. codes'

(* A code may be made.                                                     *)
Allows(c) ==
    /\ Sending(c) /\ c.step = "sent" /\ Goes(c, "choose", NoTemp)
    /\ UNCHANGED <<temp, votes, codes, mailed>>

(* A code is made for a choice.                                            *)
MakesCode(c) ==
    /\ Sending(c) /\ c.step = "choose" /\ UNCHANGED <<votes, mailed>>
    /\ \E seen \in Temp : Goes(c, "mail", seen) /\ seen.code = codes + 1
    /\ temp' = [candidate |-> c.shown, code |-> codes + 1, attempts |-> 0]
    /\ codes' = codes + 1

(* It is emailed.                                                          *)
Mails(c) ==
    /\ Sending(c) /\ c.step = "mail" /\ Goes(c, "increment", NoTemp)
    /\ UNCHANGED <<temp, votes, codes>> /\ mailed' = mailed \cup {c.seen.code}

(* And counted.                                                            *)
Tells(c) ==
    /\ Sending(c) /\ c.step = "increment" /\ Replies(c, "ok", 0)
    /\ UNCHANGED <<temp, votes, codes, mailed>>

(* A vote is examined.                                                     *)
Examines(c) ==
    /\ Submission(c) /\ c.step = "sent" /\ temp # NoTemp
    /\ UNCHANGED <<temp, votes, codes, mailed>>
    /\ \/ Goes(c, "forget", temp) /\ temp.code = c.code
       \/ Goes(c, "put", temp)

(* A wrong code is counted.                                                *)
Counts(c) ==
    /\ Submission(c) /\ c.step = "put" /\ Replies(c, "refused", 0)
    /\ UNCHANGED <<votes, codes, mailed>>
    /\ \/ temp' = NoTemp
       \/ temp'.candidate = c.seen.candidate /\ temp'.code = c.seen.code

(* A right one is spent.                                                   *)
Spends(c) ==
    /\ Submission(c) /\ c.step = "forget" /\ Goes(c, "vote", c.seen) /\ temp' = NoTemp
    /\ UNCHANGED <<votes, codes, mailed>>

(* The vote is recorded.                                                   *)
Records(c) ==
    /\ Submission(c) /\ c.step = "vote" /\ Goes(c, "count", NoTemp)
    /\ UNCHANGED <<temp, codes, mailed>>
    /\ votes' = Append(votes, [candidate |-> c.seen.candidate, code |-> c.seen.code,
                              shown |-> c.shown])

(* And confirmed.                                                          *)
Confirms(c) ==
    /\ Submission(c) /\ c.step = "count" /\ Replies(c, "ok", MaxVotes - Used)
    /\ UNCHANGED <<temp, votes, codes, mailed>>

ServerStep(c) ==
    /\ CallsOK' /\ AccessOK' /\ UNCHANGED <<page, form, moves>> /\ (Begins(c) \/ GoesOn(c))
    /\ \/ Declines(c) \/ Allows(c) \/ MakesCode(c) \/ Mails(c) \/ Tells(c)
       \/ Examines(c) \/ Counts(c) \/ Spends(c) \/ Records(c) \/ Confirms(c)

(* The calls stay well formed, if the rest does.                           *)
LEMMA ServedCalls ==
  ASSUME CallsOK, AccessOK, NEW c \in calls, UNCHANGED <<tab, moves>>,
         access' \in Seq(Entry), temp' \in Temp, codes' \in Nat, mailed' \subseteq Nat,
         votes' \in Seq(Vote),
         Len(access) <= Len(access'), Len(votes') <= MaxVotes,
         \/ \E step \in Step \ {"answered"} : \E seen : Goes(c, step, seen) /\ c.status = "pending"
         \/ \E status \in Status \ {"pending"} : \E result :
              /\ Replies(c, status, result)
              /\ c.op = "verifyAccess" /\ status = "ok" => result \in 1 .. Len(access')
  PROVE  CallsOK' /\ AccessOK' /\ UNCHANGED <<page, form, moves>>
  <1>1. calls' \subseteq Call /\ Numbered(calls', moves) /\ UNCHANGED <<page, form, moves, stored>>
    BY DEF Goes, Replies, tab
  <1>2. \A e \in calls' : Answers(e)
    BY DEF Goes, Replies, CallsOK, Answers
  <1>3. TypeOK'
    BY <1>1 DEF CallsOK, TypeOK, Used
  <1>4. AccessOK'
    <2>1. Len(access) \in Nat /\ Len(access') \in Nat
      BY DEF CallsOK, TypeOK
    <2>2. \A token : Known(token) => Known(token)'
      BY <2>1 DEF Known
    <2>3. ASSUME NEW e \in calls'
          PROVE  /\ e.op = "verifyAccessOtp" => Known(e.token)'
                 /\ e.op = "verifyAccess" /\ e.status = "ok" => Known(e.result)'
      BY <2>2 DEF Goes, Replies, Moved, AccessOK, Known
    <2> QED BY <1>1, <2>2, <2>3 DEF AccessOK
  <1> QED BY <1>1, <1>2, <1>3, <1>4 DEF CallsOK

(* An entry of the accesses is put back.                                   *)
LEMMA AccessType ==
  ASSUME CallsOK, NEW i \in 1 .. Len(access), NEW entry \in Entry
  PROVE  /\ [access EXCEPT ![i] = entry] \in Seq(Entry)
         /\ Len([access EXCEPT ![i] = entry]) = Len(access)
  <1>1. access \in Seq(Entry)
    BY DEF CallsOK, TypeOK
  <1> QED BY <1>1, ExceptSeq

(* The types of what a served call holds.                                  *)
LEMMA ServedType ==
  ASSUME CallsOK, NEW c \in calls
  PROVE  /\ c \in Call /\ c.n \in Nat /\ c.shown \in Choice /\ c.seen \in Temp /\ c.code \in Nat
         /\ c.token \in Nat /\ temp \in Temp /\ codes \in Nat /\ mailed \subseteq Nat /\ access \in Seq(Entry)
         /\ Len(access) \in Nat /\ votes \in Seq(Vote) /\ Len(votes) <= MaxVotes
         /\ Used \in Nat /\ MaxVotes - Used \in Nat
         /\ c.step # "answered" => c.status = "pending"
  BY PrivateConstants DEF CallsOK, TypeOK, Call, Answers, Used

(* An access code is asked for.                                            *)
LEMMA AskStep ==
  ASSUME CallsOK, AccessOK, NEW c \in calls, verifyAccess(c)
  PROVE  ServerStep(c)
  <1> USE ServedType
  <1>1. /\ Begins(c) /\ ~Sending(c) /\ ~Submission(c) /\ c.step = "sent"
        /\ UNCHANGED <<temp, votes, tab, moves>>
    BY DEF verifyAccess, Begin, Begins, Sending, Submission
  <1> DEFINE entry == [open |-> TRUE, attempts |-> 0,
                       code |-> IF Used < MaxVotes THEN codes + 1 ELSE 0]
  <1>2. \/ /\ Reply(c, "refused", 0) /\ UNCHANGED <<access, codes, mailed>>
        \/ /\ codes' \in {codes, codes + 1} /\ access' = Append(access, entry)
           /\ mailed' = mailed \cup (codes + 1) .. codes'
           /\ Reply(c, "ok", Len(access) + 1)
    BY DEF verifyAccess
  <1>3. entry \in Entry
    BY DEF Entry
  <1> HIDE DEF entry
  <1>4. CASE Reply(c, "refused", 0) /\ UNCHANGED <<access, codes, mailed>>
    <2>1. Replies(c, "refused", 0)
      BY <1>4, ReplyReplies DEF Status
    <2>2. CallsOK' /\ AccessOK' /\ UNCHANGED <<page, form, moves>>
      BY <1>1, <1>4, <2>1, ServedCalls DEF Status
    <2> QED BY <1>1, <1>4, <2>1, <2>2 DEF ServerStep, Declines, Status
  <1>5. CASE /\ codes' \in {codes, codes + 1} /\ access' = Append(access, entry)
             /\ mailed' = mailed \cup (codes + 1) .. codes'
             /\ Reply(c, "ok", Len(access) + 1)
    <2>1. Replies(c, "ok", Len(access) + 1)
      BY <1>5, ReplyReplies DEF Status
    <2>2. access' \in Seq(Entry) /\ Len(access') = Len(access) + 1
      BY <1>3, <1>5, AppendProperties
    <2>3. mailed' \subseteq Nat
      <3>1. codes \in Nat /\ mailed \subseteq Nat
        OBVIOUS
      <3> QED BY ONLY <1>5, <3>1
    <2>4. CallsOK' /\ AccessOK' /\ UNCHANGED <<page, form, moves>>
      BY <1>1, <1>5, <2>1, <2>2, <2>3, ServedCalls DEF Status
    <2> QED BY <1>1, <1>5, <2>1, <2>4 DEF ServerStep, Declines, Status
  <1> QED BY <1>2, <1>4, <1>5

(* An access code is typed, or a wrong one counted.                        *)
LEMMA TypeStep ==
  ASSUME CallsOK, AccessOK, NEW c \in calls, verifyAccessOtp(c) \/ PutAccess(c)
  PROVE  ServerStep(c)
  <1> USE ServedType
  <1> DEFINE old  == access[c.token]
             seen == [NoTemp EXCEPT !.code = old.code, !.attempts = old.attempts]
             new  == [open |-> TRUE, code |-> c.seen.code, attempts |-> c.seen.attempts + 1]
  <1>1. /\ Begins(c) \/ GoesOn(c)
        /\ c.op = "verifyAccessOtp" /\ c.step # "answered" /\ ~Sending(c) /\ ~Submission(c)
        /\ UNCHANGED <<temp, votes, codes, mailed, tab, moves>>
    BY DEF verifyAccessOtp, PutAccess, Begin, Begins, GoesOn, Sending, Submission
  <1>2. c.token \in 1 .. Len(access) /\ old \in Entry
    BY <1>1 DEF AccessOK, Known
  <1>3. seen \in Temp /\ new \in Entry
    <2>1. c.seen \in Temp
      OBVIOUS
    <2>2. /\ old.code \in Nat /\ old.attempts \in Nat
          /\ c.seen.code \in Nat /\ c.seen.attempts + 1 \in Nat
      BY ONLY <1>2, <2>1 DEF Entry, Temp
    <2>3. new \in Entry
      BY ONLY <2>2 DEF Entry
    <2>4. seen \in Temp
      BY <2>2, NoneType DEF Temp
    <2> QED BY <2>3, <2>4
  <1>4. \/ \E status \in {"401", "429", "ok"} : \E result \in {0, c.token} :
             Reply(c, status, result)
        \/ Goto(c, "put", seen)
    BY DEF verifyAccessOtp, PutAccess
  <1>5. access' \in {access, [access EXCEPT ![c.token] = NoEntry], [access EXCEPT ![c.token] = new]}
    BY DEF verifyAccessOtp, PutAccess
  <1> HIDE DEF old, seen, new
  <1>6. access' \in Seq(Entry) /\ Len(access) <= Len(access')
    <2>1. /\ [access EXCEPT ![c.token] = NoEntry] \in Seq(Entry)
          /\ Len([access EXCEPT ![c.token] = NoEntry]) = Len(access)
      BY <1>2, AccessType, NoneType
    <2>2. /\ [access EXCEPT ![c.token] = new] \in Seq(Entry)
          /\ Len([access EXCEPT ![c.token] = new]) = Len(access)
      BY <1>2, <1>3, AccessType
    <2>3. access \in Seq(Entry) /\ Len(access) \in Nat
      OBVIOUS
    <2> QED BY ONLY <1>5, <2>1, <2>2, <2>3
  <1>7. CASE \E status \in {"401", "429", "ok"} : \E result \in {0, c.token} :
               Reply(c, status, result)
    <2>1. PICK status \in {"401", "429", "ok"} : \E result \in Nat : Reply(c, status, result)
      BY <1>7
    <2>2. PICK result \in Nat : Reply(c, status, result)
      BY <2>1
    <2>3. Replies(c, status, result)
      BY <2>2, ReplyReplies DEF Status
    <2>4. CallsOK' /\ AccessOK' /\ UNCHANGED <<page, form, moves>>
      BY <1>1, <1>6, <2>3, ServedCalls DEF Status
    <2> QED BY <1>1, <2>3, <2>4 DEF ServerStep, Declines, Status
  <1>8. CASE Goto(c, "put", seen)
    <2>1. Goes(c, "put", seen)
      BY <1>3, <1>8, GotoGoes DEF Step
    <2>2. CallsOK' /\ AccessOK' /\ UNCHANGED <<page, form, moves>>
      BY <1>1, <1>6, <2>1, ServedCalls DEF Step
    <2> QED BY <1>1, <1>3, <2>1, <2>2 DEF ServerStep, Declines
  <1> QED BY <1>4, <1>7, <1>8

(* A confirmation code is asked for.                                       *)
LEMMA RequestStep ==
  ASSUME CallsOK, AccessOK, NEW c \in calls, requestOtp(c)
  PROVE  ServerStep(c)
  <1> USE ServedType
  <1>1. /\ Begins(c) /\ Sending(c) /\ ~Submission(c) /\ c.step = "sent"
        /\ UNCHANGED <<access, temp, votes, codes, mailed, tab, moves>> /\ c.op # "verifyAccess"
    BY DEF requestOtp, Begin, Begins, Sending, Submission, server
  <1>2. CASE Reply(c, "401", 0) \/ Reply(c, "429", 0)
    <2>1. PICK status \in {"401", "429"} : Reply(c, status, 0)
      BY <1>2
    <2>2. Replies(c, status, 0)
      BY <2>1, ReplyReplies DEF Status
    <2>3. CallsOK' /\ AccessOK' /\ UNCHANGED <<page, form, moves>>
      BY <1>1, <2>2, ServedCalls DEF Status
    <2> QED BY <1>1, <2>2, <2>3 DEF ServerStep, Declines, Status
  <1>3. CASE Goto(c, "choose", NoTemp)
    <2>1. Goes(c, "choose", NoTemp)
      BY <1>3, NoneType, GotoGoes DEF Step
    <2>2. CallsOK' /\ AccessOK' /\ UNCHANGED <<page, form, moves>>
      BY <1>1, <2>1, ServedCalls DEF Step
    <2> QED BY <1>1, <2>1, <2>2 DEF ServerStep, Allows
  <1> QED BY <1>2, <1>3 DEF requestOtp

(* It is made, emailed and counted.                                        *)
LEMMA SendStep ==
  ASSUME CallsOK, AccessOK, NEW c \in calls,
         PutChoice(c) \/ SendOtpCode(c) \/ IncrementAttempts(c)
  PROVE  ServerStep(c)
  <1> USE ServedType
  <1>1. /\ Sending(c) /\ c.step \in {"choose", "mail", "increment"} /\ c.op # "verifyAccess"
        /\ UNCHANGED <<access, votes, tab, moves, ghosts>>
    BY DEF PutChoice, SendOtpCode, IncrementAttempts, Sending
  <1>2. GoesOn(c)
    BY <1>1 DEF GoesOn
  <1>3. CASE PutChoice(c)
    <2> DEFINE seen == [NoTemp EXCEPT !.code = codes + 1]
    <2>1. seen \in Temp /\ seen.code = codes + 1
      <3>1. codes \in Nat
        OBVIOUS
      <3> QED BY ONLY <3>1 DEF NoTemp, Temp, Choice
    <2>2. /\ c.step = "choose" /\ UNCHANGED mailed /\ Goto(c, "mail", seen)
          /\ temp' = [candidate |-> c.shown, code |-> codes + 1, attempts |-> 0]
          /\ codes' = codes + 1
      BY <1>3 DEF PutChoice
    <2> HIDE DEF seen
    <2>3. Goes(c, "mail", seen)
      BY <2>1, <2>2, GotoGoes DEF Step
    <2>4. temp' \in Temp /\ codes' \in Nat
      BY <2>2 DEF Temp
    <2>5. CallsOK' /\ AccessOK' /\ UNCHANGED <<page, form, moves>>
      BY <1>1, <2>2, <2>3, <2>4, ServedCalls DEF Step
    <2> QED BY <1>1, <1>2, <2>1, <2>2, <2>3, <2>5 DEF ServerStep, MakesCode
  <1>4. CASE SendOtpCode(c)
    <2>1. /\ c.step = "mail" /\ UNCHANGED <<temp, codes>> /\ mailed' = mailed \cup {c.seen.code}
          /\ Goto(c, "increment", NoTemp)
      BY <1>4 DEF SendOtpCode
    <2>2. Goes(c, "increment", NoTemp)
      BY <2>1, NoneType, GotoGoes DEF Step
    <2>3. mailed' \subseteq Nat
      BY <2>1 DEF Temp
    <2>4. CallsOK' /\ AccessOK' /\ UNCHANGED <<page, form, moves>>
      BY <1>1, <2>1, <2>2, <2>3, ServedCalls DEF Step
    <2> QED BY <1>1, <1>2, <2>1, <2>2, <2>4 DEF ServerStep, Mails
  <1>5. CASE IncrementAttempts(c)
    <2>1. c.step = "increment" /\ UNCHANGED <<temp, codes, mailed>> /\ Reply(c, "ok", 0)
      BY <1>5 DEF IncrementAttempts
    <2>2. Replies(c, "ok", 0)
      BY <2>1, ReplyReplies DEF Status
    <2>3. CallsOK' /\ AccessOK' /\ UNCHANGED <<page, form, moves>>
      BY <1>1, <2>1, <2>2, ServedCalls DEF Status
    <2> QED BY <1>1, <1>2, <2>1, <2>2, <2>3 DEF ServerStep, Tells
  <1> QED BY <1>3, <1>4, <1>5

(* A vote is examined: refused, or its code compared.                      *)
LEMMA SubmitStep ==
  ASSUME CallsOK, AccessOK, NEW c \in calls, submitPrivate(c)
  PROVE  ServerStep(c)
  <1> USE ServedType
  <1>1. /\ c.op = "submitPrivate" /\ Begin(c) /\ c.step = "sent"
        /\ UNCHANGED <<access, temp, votes, codes, mailed, tab, moves>>
    BY DEF submitPrivate, Begin, server
  <1>2. Submission(c) /\ ~Sending(c)
    BY <1>1 DEF Submission, Sending
  <1>3. Begins(c)
    BY <1>1 DEF Begin, Begins, Examined, Submission
  <1>4. CASE Reply(c, "refused", 0) \/ Reply(c, "401", 0)
    <2>1. PICK status \in {"refused", "401"} : Reply(c, status, 0)
      BY <1>4
    <2>2. Replies(c, status, 0)
      BY <2>1, ReplyReplies DEF Status
    <2>3. CallsOK' /\ AccessOK' /\ UNCHANGED <<page, form, moves>>
      BY <1>1, <2>2, ServedCalls DEF Status
    <2> QED BY <1>1, <1>3, <2>2, <2>3 DEF ServerStep, Declines, Status
  <1>5. CASE temp # NoTemp /\ Goto(c, IF temp.code = c.code THEN "forget" ELSE "put", temp)
    <2>1. /\ \/ Goes(c, "forget", temp) /\ temp.code = c.code
             \/ Goes(c, "put", temp)
      BY <1>5, GotoGoes DEF Step
    <2>2. CallsOK' /\ AccessOK' /\ UNCHANGED <<page, form, moves>>
      BY <1>1, <2>1, ServedCalls DEF Step
    <2> QED BY <1>1, <1>2, <1>3, <1>5, <2>1, <2>2 DEF ServerStep, Examines
  <1> QED BY <1>4, <1>5 DEF submitPrivate

(* A wrong code is counted.                                                *)
LEMMA PutStep ==
  ASSUME CallsOK, AccessOK, NEW c \in calls, PutTemp(c)
  PROVE  ServerStep(c)
  <1> USE ServedType
  <1>1. /\ Submission(c) /\ c.step = "put" /\ c.op # "verifyAccess" /\ Reply(c, "refused", 0)
        /\ UNCHANGED <<access, votes, codes, mailed, tab, moves, ghosts>>
    BY DEF PutTemp, Submission
  <1>2. Replies(c, "refused", 0)
    BY <1>1, ReplyReplies DEF Status
  <1> DEFINE next == [c.seen EXCEPT !.attempts = @ + 1]
  <1>3. next \in Temp /\ next.candidate = c.seen.candidate /\ next.code = c.seen.code
    <2>1. c.seen \in Temp
      OBVIOUS
    <2> QED BY ONLY <2>1 DEF Temp
  <1>4. temp' \in {NoTemp, next}
    BY DEF PutTemp
  <1> HIDE DEF next
  <1>5. CallsOK' /\ AccessOK' /\ UNCHANGED <<page, form, moves>>
    BY <1>1, <1>2, <1>3, <1>4, NoneType, ServedCalls DEF Status
  <1>6. Counts(c)
    BY <1>1, <1>2, <1>3, <1>4 DEF Counts
  <1> QED BY <1>1, <1>5, <1>6 DEF ServerStep, GoesOn

(* A right code is spent, and its vote recorded and confirmed.             *)
LEMMA VoteStep ==
  ASSUME CallsOK, AccessOK, NEW c \in calls, ForgetTemp(c) \/ createVote(c) \/ CountRemaining(c)
  PROVE  ServerStep(c)
  <1> USE ServedType
  <1>1. /\ Submission(c) /\ ~Sending(c) /\ c.step \in {"forget", "vote", "count"}
        /\ c.op # "verifyAccess" /\ UNCHANGED <<access, codes, mailed, tab, moves, ghosts>>
    BY DEF ForgetTemp, createVote, CountRemaining, Submission, Sending
  <1>2. GoesOn(c)
    BY <1>1 DEF GoesOn
  <1>3. CASE ForgetTemp(c)
    <2>1. Goto(c, "vote", c.seen) /\ temp' = NoTemp /\ UNCHANGED votes /\ c.step = "forget"
      BY <1>3 DEF ForgetTemp
    <2>2. Goes(c, "vote", c.seen)
      BY <2>1, GotoGoes DEF Step
    <2>3. CallsOK' /\ AccessOK' /\ UNCHANGED <<page, form, moves>>
      BY <1>1, <2>1, <2>2, NoneType, ServedCalls DEF Step
    <2> QED BY <1>1, <1>2, <2>1, <2>2, <2>3 DEF ServerStep, Spends
  <1>4. CASE createVote(c)
    <2> DEFINE vote == [candidate |-> c.seen.candidate, code |-> c.seen.code, shown |-> c.shown]
    <2>1. vote \in Vote
      BY DEF Vote, Temp
    <2>2. UNCHANGED temp /\ c.step = "vote"
      BY <1>4 DEF createVote
    <2>3. CASE Reply(c, "refused", 0) /\ UNCHANGED votes
      <3>1. Replies(c, "refused", 0)
        BY <2>3, ReplyReplies DEF Status
      <3>2. CallsOK' /\ AccessOK' /\ UNCHANGED <<page, form, moves>>
        BY <1>1, <2>2, <2>3, <3>1, ServedCalls DEF Status
      <3> QED BY <1>1, <1>2, <2>2, <2>3, <3>1, <3>2 DEF ServerStep, Declines, Status
    <2>4. CASE Used < MaxVotes /\ votes' = Append(votes, vote) /\ Goto(c, "count", NoTemp)
      <3>1. Goes(c, "count", NoTemp)
        BY <2>4, NoneType, GotoGoes DEF Step
      <3>2. votes' \in Seq(Vote) /\ Len(votes') <= MaxVotes
        <4>1. MaxVotes \in Nat
          BY PrivateConstants
        <4>2. votes' \in Seq(Vote) /\ Len(votes') = Used + 1
          BY <2>1, <2>4, AppendProperties DEF Used
        <4> QED BY <2>4, <4>1, <4>2
      <3>3. CallsOK' /\ AccessOK' /\ UNCHANGED <<page, form, moves>>
        BY <1>1, <2>2, <3>1, <3>2, ServedCalls DEF Step
      <3> QED BY <1>1, <1>2, <2>2, <2>4, <3>1, <3>3 DEF ServerStep, Records
    <2> QED BY <1>4, <2>3, <2>4 DEF createVote
  <1>5. CASE CountRemaining(c)
    <2>1. Reply(c, "ok", MaxVotes - Used) /\ UNCHANGED <<temp, votes>> /\ c.step = "count"
      BY <1>5 DEF CountRemaining
    <2>2. Replies(c, "ok", MaxVotes - Used)
      BY <2>1, ReplyReplies DEF Status
    <2>3. CallsOK' /\ AccessOK' /\ UNCHANGED <<page, form, moves>>
      BY <1>1, <2>1, <2>2, ServedCalls DEF Status
    <2> QED BY <1>1, <1>2, <2>1, <2>2, <2>3 DEF ServerStep, Confirms
  <1> QED BY <1>3, <1>4, <1>5

(* Whatever the server does is one of these.                               *)
LEMMA ServeStep == ASSUME CallsOK, AccessOK, NEW c \in calls, Serve(c) PROVE ServerStep(c)
  BY AskStep, TypeStep, RequestStep, SendStep, SubmitStep, PutStep, VoteStep DEF Serve

-----------------------------------------------------------------------------
(* What is true of the calls and codes, in order or not.                   *)

(* A code that somebody holds, or that was voted with, has been sent.      *)
CodesOK ==
    /\ temp = NoTemp \/ temp.code \in 1 .. codes
    /\ mailed \subseteq 1 .. codes
    /\ \A i \in DOMAIN votes : votes[i].code \in 1 .. codes
    /\ \A c \in calls : /\ c.code <= codes
                        /\ Examined(c) => IF c.step = "count" THEN c.seen = NoTemp
                                           ELSE c.seen.code \in 1 .. codes
                        /\ Sending(c) /\ c.step = "mail" => c.seen.code \in 1 .. codes

(* After its last vote the elector has none left.                          *)
DoneOK ==
    /\ \A c \in calls : Last(c) => Used >= MaxVotes
    /\ page.name = "success" => Used >= MaxVotes

(* The page that waits for its first code has called for it last of all.   *)
FirstOK == \A c \in calls : IsFirst(c) =>
    /\ page.name = "confirm" /\ c.shown = page.candidate /\ form.requesting
    /\ \A d \in calls : Submission(d) \/ (Sending(d) /\ d.shown # page.candidate) => d.n < c.n

ResendOK == page.name = "confirm" => Resendable

BooksOK == CallsOK /\ AccessOK /\ AloneOK /\ CodesOK /\ DoneOK /\ FirstOK /\ ResendOK

(* A page shown anew has the calls of others, and at most one of its own.  *)
LEMMA TurnsAlone ==
  ASSUME Turns
  PROVE  /\ page'.name = "success" =>
              page' = page \/ \E c \in calls : Last(c) /\ page'.candidate = c.shown
         /\ page'.name = "confirmAccess" => page' = page \/ Known(page'.token)
         /\ page'.name = "confirm" => /\ form'.requesting
                                     /\ \E e \in calls' : Fresh(e) /\ e.op = "requestOtp"
         /\ \A e \in calls' : e.mounted \/ Fresh(e) =>
              /\ Fresh(e) /\ e.op = "requestOtp" /\ e.code = 0 /\ e.shown = page'.candidate
              /\ page'.name = "confirm"
  <1>1. PICK q \in Page : \E cs :
          /\ Shows(q, cs)
          /\ q.name = "success" => q = page \/ \E c \in calls : Last(c) /\ q.candidate = c.shown
          /\ q.name = "confirmAccess" => q = page \/ Known(q.token)
    BY DEF Turns
  <1> PICK cs : Shows(q, cs)
    BY <1>1
  <1>2. \A e \in calls' : e.mounted \/ Fresh(e) => e.mounted
    BY DEF Fresh
  <1>3. \A e \in calls' : e.mounted =>
          /\ Fresh(e) /\ e.op = "requestOtp" /\ e.code = 0 /\ e.shown = page'.candidate
          /\ page'.name = "confirm"
    BY DEF Shows
  <1>4. /\ page'.name = "success" =>
              page' = page \/ \E c \in calls : Last(c) /\ page'.candidate = c.shown
        /\ page'.name = "confirmAccess" => page' = page \/ Known(page'.token)
    BY <1>1 DEF Shows
  <1> QED BY <1>2, <1>3, <1>4 DEF Shows

(* The tab changes none of it.                                             *)
LEMMA TabBooks == ASSUME BooksOK, TabStep PROVE BooksOK'
  <1>1. CallsOK'
    BY DEF TabStep, TabKeeps, BooksOK, CallsOK, Answers, Fresh, Kept
  <1>2. /\ TabKeeps /\ UNCHANGED <<access, votes, codes, mailed>> /\ temp' \in {temp, NoTemp}
        /\ Turns \/ Stays
    BY DEF TabStep
  <1>3. codes \in Nat /\ page \in Page /\ \A c \in calls : c.n \in Nat /\ c.n <= moves
    BY DEF BooksOK, CallsOK, TypeOK, Numbered, Call
  <1>4. \A e \in calls' : Fresh(e) \/ \E d \in calls : Kept(d, e)
    BY <1>2 DEF TabKeeps
  <1>5. AccessOK'
    <2>1. \A e \in calls' : ~Fresh(e) =>
            /\ e.op = "verifyAccessOtp" => Known(e.token)
            /\ e.op = "verifyAccess" /\ e.status = "ok" => Known(e.result)
      BY <1>4 DEF BooksOK, AccessOK, Kept
    <2>2. CASE Turns
      <3>1. page'.name = "confirmAccess" => Known(page'.token)
        BY <2>2, TurnsAlone DEF BooksOK, AccessOK
      <3>2. \A e \in calls' : Fresh(e) => e.op = "requestOtp"
        BY <2>2, TurnsAlone
      <3> QED BY <1>2, <2>1, <3>1, <3>2 DEF AccessOK, Known
    <2>3. CASE Stays
      <3>1. \A e \in calls' : Fresh(e) => /\ e.op = "verifyAccessOtp" => Known(e.token)
                                          /\ e.status = "pending"
        BY <2>3 DEF Stays, Fresh, BooksOK, AccessOK
      <3> QED BY <1>2, <2>1, <2>3, <3>1 DEF AccessOK, Known, Stays, BooksOK
    <2> QED BY <1>2, <2>2, <2>3
  <1>6. CodesOK'
    <2>1. \A e \in calls' : e.code <= codes
      <3>1. \A e \in calls' : Fresh(e) => e.code \in {0} \cup mailed
        <4>1. CASE Turns
          BY <4>1, TurnsAlone
        <4>2. CASE Stays
          BY <4>2 DEF Stays
        <4> QED BY <1>2, <4>1, <4>2
      <3>2. \A k \in {0} \cup mailed : k <= codes
        BY <1>3 DEF BooksOK, CodesOK
      <3>3. \A d \in calls : d.code <= codes
        BY DEF BooksOK, CodesOK
      <3>4. \A e \in calls' : ~Fresh(e) => \E d \in calls : e.code = d.code
        BY <1>4 DEF Kept
      <3> QED BY <3>1, <3>2, <3>3, <3>4
    <2>2. \A e \in calls' : Examined(e) => IF e.step = "count" THEN e.seen = NoTemp
                                           ELSE e.seen.code \in 1 .. codes
      BY <1>4 DEF BooksOK, CodesOK, Kept, Fresh, Examined, Submission
    <2>3. \A e \in calls' : Sending(e) /\ e.step = "mail" => e.seen.code \in 1 .. codes
      BY <1>4 DEF BooksOK, CodesOK, Kept, Fresh, Sending
    <2> QED BY <1>2, <2>1, <2>2, <2>3 DEF BooksOK, CodesOK
  <1>7. DoneOK'
    <2>1. \A e \in calls' : Last(e) => Used >= MaxVotes
      BY <1>4 DEF BooksOK, DoneOK, Last, Kept, Fresh
    <2>2. page'.name = "success" => Used >= MaxVotes
      BY <1>2, TurnsAlone DEF Stays, BooksOK, DoneOK
    <2> QED BY <1>2, <2>1, <2>2 DEF DoneOK, Used
  <1>8. FirstOK'
    <2> SUFFICES ASSUME NEW c \in calls', IsFirst(c)
                 PROVE  /\ page'.name = "confirm" /\ c.shown = page'.candidate /\ form'.requesting
                        /\ \A d \in calls' : Submission(d) \/ (Sending(d) /\ d.shown # page'.candidate)
                             => d.n < c.n
      BY DEF FirstOK
    <2>1. CASE Turns
      <3>1. /\ page'.name = "confirm" /\ Fresh(c) /\ c.shown = page'.candidate
            /\ form'.requesting
        BY <2>1, TurnsAlone DEF IsFirst
      <3>2. \A d \in calls' : \/ d.shown = page'.candidate /\ ~Submission(d)
                              \/ \E b \in calls : d.n = b.n
        BY <1>4, <2>1, TurnsAlone DEF Kept, Submission
      <3>3. moves \in Nat
        BY DEF BooksOK, CallsOK, TypeOK
      <3> QED BY <1>3, <3>1, <3>2, <3>3 DEF Fresh
    <2>2. CASE Stays
      <3>1. ~Fresh(c)
        BY <2>2 DEF Stays, IsFirst
      <3>2. PICK b \in calls : Kept(b, c)
        BY <1>4, <3>1
      <3>3. /\ page.name = "confirm" /\ c.shown = page.candidate /\ page' = page
            /\ form.requesting /\ form'.requesting
            /\ \A d \in calls : Submission(d) \/ (Sending(d) /\ d.shown # page.candidate) => d.n < c.n
        BY <2>2, <3>2 DEF Kept, BooksOK, FirstOK, Stays, IsFirst
      <3>4. ASSUME NEW d \in calls', Submission(d) \/ (Sending(d) /\ d.shown # page.candidate)
            PROVE  d.n < c.n
        <4>1. ~Fresh(d)
          BY <2>2, <3>3, <3>4 DEF Stays, Submission
        <4>2. PICK a \in calls : Kept(a, d)
          BY <1>4, <4>1
        <4> QED BY <3>3, <3>4, <4>2 DEF Kept, Sending, Submission
      <3> QED BY <3>3, <3>4
    <2> QED BY <1>2, <2>1, <2>2
  <1>10. AloneOK'
    <2> SUFFICES ASSUME NEW c \in calls', NEW d \in calls', IsFirst(c), IsFirst(d) PROVE c = d
      BY DEF AloneOK
    <2>1. CASE Turns
      BY <1>2, <2>1, TurnsAlone DEF IsFirst, Fresh, TabKeeps, Numbered
    <2>2. CASE Stays
      <3>1. ~Fresh(c) /\ ~Fresh(d)
        BY <2>2 DEF Stays, IsFirst
      <3>2. PICK a \in calls : Kept(a, c)
        BY <1>4, <3>1
      <3>3. PICK b \in calls : Kept(b, d)
        BY <1>4, <3>1
      <3>4. a = b
        BY <3>2, <3>3 DEF BooksOK, AloneOK, IsFirst, Kept
      <3> QED BY <1>2, <3>2, <3>3, <3>4 DEF Kept, TabKeeps, Numbered
    <2> QED BY <1>2, <2>1, <2>2
  <1>9. ResendOK'
    <2>1. CASE Turns
      BY <2>1, TurnsAlone DEF ResendOK, Resendable, Fresh
    <2>2. CASE Stays
      BY <2>2 DEF Stays, BooksOK, ResendOK
    <2> QED BY <1>2, <2>1, <2>2
  <1> QED BY <1>1, <1>5, <1>6, <1>7, <1>8, <1>9, <1>10 DEF BooksOK

(* A served call is the one it was, or another is untouched.               *)
LEMMA ServerKeeps ==
  ASSUME NEW c \in calls, ServerStep(c)
  PROVE  /\ CallsOK' /\ AccessOK' /\ UNCHANGED <<page, form, moves>>
         /\ \A e \in calls' : e \in calls \ {c} \/ (Moved(c, e) /\ e.step # "sent")
         /\ \A d \in calls \ {c} : d \in calls'
         /\ c.heard => \E e \in calls' : Moved(c, e)
  BY DEF ServerStep, Declines, Allows, MakesCode, Mails, Tells, Examines, Counts, Spends, Records,
         Confirms, Goes, Replies

(* What becomes of a served call that is a submission.                     *)
LEMMA ServedSubmission ==
  ASSUME NEW c \in calls, ServerStep(c), NEW e \in calls', e \notin calls \ {c}, Submission(e)
  PROVE  /\ Submission(c) /\ e.shown = c.shown
         /\ \/ Declines(c) /\ e.step = "answered" /\ e.status # "ok"
            \/ Examines(c) /\ e.step \in {"put", "forget"} /\ e.seen = temp /\ e.status = c.status
               /\ (e.step = "forget" => temp.code = c.code)
            \/ Counts(c) /\ e.step = "answered" /\ e.status # "ok"
            \/ Spends(c) /\ e.step = "vote" /\ e.seen = c.seen /\ e.status = c.status
            \/ Records(c) /\ e.step = "count" /\ e.seen = NoTemp /\ e.status = c.status
            \/ Confirms(c) /\ e.step = "answered" /\ e.result = MaxVotes - Used
  <1>1. Moved(c, e)
    BY ServerKeeps
  <1>2. Submission(c) /\ ~Sending(c) /\ c.op # "verifyAccessOtp" /\ e.shown = c.shown
    BY <1>1 DEF Moved, Submission, Sending
  <1>3. CASE Declines(c)
    BY <1>2, <1>3 DEF Declines, Replies
  <1>4. CASE Examines(c)
    BY <1>2, <1>4 DEF Examines, Goes
  <1>5. CASE Counts(c)
    BY <1>2, <1>5 DEF Counts, Replies
  <1>6. CASE Spends(c)
    BY <1>2, <1>6 DEF Spends, Goes
  <1>7. CASE Records(c)
    BY <1>2, <1>7 DEF Records, Goes
  <1>8. CASE Confirms(c)
    BY <1>2, <1>8 DEF Confirms, Replies
  <1>9. ~Allows(c) /\ ~MakesCode(c) /\ ~Mails(c) /\ ~Tells(c)
    BY <1>2 DEF Allows, MakesCode, Mails, Tells
  <1> QED BY <1>2, <1>3, <1>4, <1>5, <1>6, <1>7, <1>8, <1>9 DEF ServerStep

(* What becomes of the choice that waits, of the votes and of the codes.   *)
LEMMA ServedState ==
  ASSUME CallsOK, NEW c \in calls, ServerStep(c)
  PROVE  /\ codes \in Nat /\ codes' \in {codes, codes + 1}
         /\ votes' = votes \/ Records(c)
         /\ \/ temp' = temp
            \/ MakesCode(c)
            \/ temp' = NoTemp
            \/ Counts(c) /\ temp'.candidate = c.seen.candidate /\ temp'.code = c.seen.code
  BY DEF CallsOK, TypeOK, ServerStep, Declines, Allows, MakesCode, Mails, Tells, Examines, Counts,
         Spends, Records, Confirms

(* Votes are only added.                                                   *)
LEMMA VotesGrow ==
  ASSUME CallsOK, NEW c \in calls, ServerStep(c)
  PROVE  /\ DOMAIN votes \subseteq DOMAIN votes' /\ \A i \in DOMAIN votes : votes'[i] = votes[i]
         /\ Used <= Len(votes')
         /\ Records(c) => /\ DOMAIN votes' = DOMAIN votes \cup {Used + 1}
                          /\ Used + 1 \notin DOMAIN votes
                          /\ votes'[Used + 1] = [candidate |-> c.seen.candidate,
                                                code |-> c.seen.code, shown |-> c.shown]
  <1>1. votes \in Seq(Vote) /\ c.seen \in Temp /\ c.shown \in Choice
    BY ServedType
  <1> DEFINE v == [candidate |-> c.seen.candidate, code |-> c.seen.code, shown |-> c.shown]
  <1>2. v \in Vote
    BY <1>1 DEF Vote, Temp
  <1>3. CASE Records(c)
    <2>1. votes' = Append(votes, v)
      BY <1>3 DEF Records
    <2>2. /\ Len(votes') = Len(votes) + 1 /\ votes' \in Seq(Vote)
          /\ \A i \in 1 .. Len(votes) : votes'[i] = votes[i]
          /\ votes'[Len(votes) + 1] = v
      BY <1>1, <1>2, <2>1, AppendProperties
    <2> HIDE DEF v
    <2>3. /\ DOMAIN votes = 1 .. Len(votes) /\ DOMAIN votes' = 1 .. (Len(votes) + 1)
          /\ Len(votes) \in Nat
      BY <1>1, <2>2
    <2>4. /\ DOMAIN votes' = DOMAIN votes \cup {Len(votes) + 1}
          /\ Len(votes) + 1 \notin DOMAIN votes
          /\ DOMAIN votes \subseteq DOMAIN votes' /\ Len(votes) <= Len(votes')
      BY <2>2, <2>3
    <2> QED BY <2>2, <2>3, <2>4 DEF Used, v
  <1>4. CASE votes' = votes /\ ~Records(c)
    BY <1>1, <1>4 DEF Used
  <1> QED BY <1>3, <1>4, ServedState

(* The server changes none of it either.                                   *)
LEMMA ServerBooks == ASSUME BooksOK, NEW c \in calls, ServerStep(c) PROVE BooksOK'
  <1>1. /\ CallsOK /\ CallsOK' /\ AccessOK' /\ UNCHANGED <<page, form, moves>>
        /\ \A e \in calls' : e \in calls \ {c} \/ (Moved(c, e) /\ e.step # "sent")
        /\ \A d \in calls \ {c} : d \in calls'
        /\ c.heard => \E e \in calls' : Moved(c, e)
    BY ServerKeeps DEF BooksOK
  <1>2. /\ codes \in Nat /\ codes' \in {codes, codes + 1}
        /\ \A d \in calls : d.code \in Nat /\ d.seen.code \in Nat /\ d.code <= codes
        /\ temp.code \in Nat
    BY <1>1, ServedType, ServedState DEF Temp, BooksOK, CodesOK
  <1> DEFINE last == Used + 1
  <1>7. /\ \A i \in DOMAIN votes : votes'[i] = votes[i]
        /\ Used <= Len(votes')
        /\ Records(c) \/ DOMAIN votes' = DOMAIN votes
        /\ Records(c) => /\ DOMAIN votes' = DOMAIN votes \cup {last}
                         /\ votes'[last].code = c.seen.code
    <2>1. /\ \A i \in DOMAIN votes : votes'[i] = votes[i]
          /\ Used <= Len(votes')
      BY <1>1, VotesGrow
    <2>2. Records(c) \/ votes' = votes
      BY <1>1, ServedState
    <2>3. Records(c) => /\ DOMAIN votes' = DOMAIN votes \cup {last}
                        /\ votes'[last] = [candidate |-> c.seen.candidate, code |-> c.seen.code,
                                          shown |-> c.shown]
      BY <1>1, VotesGrow
    <2> HIDE DEF last
    <2> QED BY <2>1, <2>2, <2>3
  <1> HIDE DEF last
  <1>3. CodesOK'
    <2>1. ASSUME NEW e \in calls' PROVE e.code <= codes'
      BY <1>1, <1>2 DEF Moved
    <2>2. ASSUME NEW e \in calls', Examined(e)
          PROVE  IF e.step = "count" THEN e.seen = NoTemp ELSE e.seen.code \in 1 .. codes'
      <3>1. CASE e \in calls \ {c}
        BY <1>2, <2>2, <3>1 DEF BooksOK, CodesOK
      <3>2. CASE e \notin calls \ {c}
        BY <1>2, <2>2, <3>2, ServedSubmission
           DEF Examined, Examines, Spends, BooksOK, CodesOK
      <3> QED BY <3>1, <3>2
    <2>3. temp' = NoTemp \/ temp'.code \in 1 .. codes'
      <3>1. CASE MakesCode(c)
        BY <1>2, <3>1 DEF MakesCode
      <3>2. CASE Counts(c) /\ temp'.code = c.seen.code
        BY <1>2, <3>2 DEF Counts, Examined, BooksOK, CodesOK
      <3> QED BY <1>1, <1>2, <3>1, <3>2, ServedState DEF BooksOK, CodesOK
    <2>4. ASSUME NEW i \in DOMAIN votes' PROVE votes'[i].code \in 1 .. codes'
      <3>1. CASE i \in DOMAIN votes
        BY <1>7, <1>2, <3>1 DEF BooksOK, CodesOK
      <3>2. CASE i \notin DOMAIN votes
        <4>1. Records(c) /\ votes'[i].code = c.seen.code
          BY <1>7, <3>2
        <4> QED BY <1>2, <4>1 DEF Records, Examined, BooksOK, CodesOK
      <3> QED BY <3>1, <3>2
    <2>5. mailed' \subseteq 1 .. codes'
      <3>1. mailed \subseteq 1 .. codes
        BY DEF BooksOK, CodesOK
      <3>2. c.step = "mail" /\ Sending(c) => c.seen.code \in 1 .. codes
        BY DEF BooksOK, CodesOK
      <3>3. \/ mailed' \subseteq mailed \cup (codes + 1) .. codes'
            \/ c.step = "mail" /\ Sending(c) /\ mailed' = mailed \cup {c.seen.code}
        BY DEF ServerStep, Declines, Allows, MakesCode, Mails, Tells, Examines, Counts, Spends,
               Records, Confirms
      <3>4. 1 .. codes \subseteq 1 .. codes' /\ (codes + 1) .. codes' \subseteq 1 .. codes'
        BY <1>2
      <3> QED BY <3>1, <3>2, <3>3, <3>4
    <2>6. ASSUME NEW e \in calls', Sending(e), e.step = "mail" PROVE e.seen.code \in 1 .. codes'
      <3>1. CASE e \in calls \ {c}
        BY <1>2, <2>6, <3>1 DEF BooksOK, CodesOK
      <3>2. CASE e \notin calls \ {c}
        <4>1. MakesCode(c) /\ e.seen.code = codes + 1
          <5>1. Moved(c, e)
            BY <1>1, <3>2
          <5>2. Sending(c) /\ ~Submission(c) /\ c.op # "verifyAccessOtp"
            BY <2>6, <5>1 DEF Moved, Sending, Submission
          <5> QED BY <2>6, <3>2, <5>2 DEF ServerStep, Declines, Allows, MakesCode, Mails, Tells,
                Examines, Counts, Spends, Records, Confirms, Goes, Replies
        <4>2. codes' = codes + 1
          BY <4>1 DEF MakesCode
        <4> QED BY <1>2, <4>1, <4>2
      <3> QED BY <3>1, <3>2
    <2> QED BY <2>1, <2>2, <2>3, <2>4, <2>5, <2>6 DEF CodesOK
  <1>4. DoneOK'
    <2>1. Used \in Nat /\ Len(votes') \in Nat /\ Used <= Len(votes') /\ MaxVotes \in Nat
      <3>1. votes \in Seq(Vote) /\ votes' \in Seq(Vote)
        BY <1>1 DEF CallsOK, TypeOK
      <3> QED BY <1>7, <3>1, PrivateConstants DEF Used
    <2>2. ASSUME NEW e \in calls', Last(e) PROVE Len(votes') >= MaxVotes
      <3>1. CASE e \in calls \ {c}
        BY <2>1, <2>2, <3>1 DEF BooksOK, DoneOK
      <3>2. CASE e \notin calls \ {c}
        <4>1. Submission(e) /\ e.status = "ok" /\ e.result = 0
          BY <2>2 DEF Last, Submission
        <4>2. CASE Confirms(c) /\ e.result = MaxVotes - Used
          BY <2>1, <4>1, <4>2
        <4>3. CASE e.status = c.status /\ c.step # "answered"
          BY <1>1, <4>1, <4>3, ServedType
        <4> QED BY <3>2, <4>1, <4>2, <4>3, ServedSubmission DEF Examines, Spends, Records
      <3> QED BY <3>1, <3>2
    <2>3. page'.name = "success" => Len(votes') >= MaxVotes
      BY <1>1, <2>1 DEF BooksOK, DoneOK
    <2> QED BY <2>2, <2>3 DEF DoneOK, Used, Last
  <1>5. FirstOK'
    <2>1. \A e \in calls' : \E d \in calls : /\ e.n = d.n /\ e.op = d.op /\ e.shown = d.shown
                                           /\ e.mounted = d.mounted
      BY <1>1 DEF Moved
    <2> QED BY <1>1, <2>1 DEF BooksOK, FirstOK, Sending, Submission, IsFirst
  <1>8. AloneOK'
    <2>1. \A e \in calls' : \E d \in calls : /\ e.n = d.n /\ e.op = d.op /\ e.mounted = d.mounted
      BY <1>1 DEF Moved
    <2> QED BY <1>1, <2>1 DEF BooksOK, AloneOK, IsFirst, CallsOK, Numbered
  <1>6. ResendOK'
    <2>1. \A d \in calls : d.heard => \E e \in calls' : /\ e.op = d.op /\ e.mounted = d.mounted
                                                      /\ e.heard
      BY <1>1 DEF Moved
    <2> QED BY <1>1, <2>1 DEF BooksOK, ResendOK, Resendable
  <1> QED BY <1>1, <1>3, <1>4, <1>5, <1>6, <1>8 DEF BooksOK

-----------------------------------------------------------------------------
(* What is true as long as the calls begin in the order of the clicks.     *)
InTurn == \A c, d \in calls : c.n < d.n /\ d.step # "sent" => c.step # "sent"

(* No call made before the m-th will write a choice of another candidate   *)
(* than x, and no choice of another one waits.                             *)
Clear(x, m) == \A d \in calls :
    /\ Sending(d) /\ d.step \in {"sent", "choose"} /\ d.n < m => d.shown = x
    /\ Submission(d) /\ d.step = "put" => d.seen.candidate = x

Holds(x) == temp = NoTemp \/ temp.candidate = x

(* The choice that waits is of the page that was sent a code, ...          *)
PageOK == page.name = "confirm" /\ CodeSent =>
    Clear(page.candidate, moves + 1) /\ Holds(page.candidate)

(* ... or is being sent its first one.                                     *)
Underway(c) == IsFirst(c) /\ c.step \in {"choose", "mail", "increment"}

FirstSentOK == \A c \in calls : Underway(c) =>
    /\ Clear(c.shown, moves + 1)
    /\ c.step # "choose" => Holds(c.shown)

(* A vote on its way finds the choice of its page.                         *)
SubmittedOK == \A c \in calls : Submission(c) =>
    /\ c.step = "sent" => Clear(c.shown, c.n) /\ Holds(c.shown)
    /\ c.step \in {"forget", "vote"} => c.seen.candidate = c.shown

(* A vote that is confirmed was recorded for its page.                     *)
Voted(x) == \E i \in DOMAIN votes : votes[i].candidate = x
Recorded(c) == Submission(c) /\ (c.step = "count" \/ c.status = "ok")
RecordedOK == \A c \in calls : Recorded(c) => Voted(c.shown)

OrderOK == ordered => /\ InTurn /\ PageOK /\ FirstSentOK /\ SubmittedOK /\ RecordedOK
                      /\ VoteIsForThePage

(* The tab changes neither, but for the calls that it makes.               *)
LEMMA TabClear ==
  ASSUME BooksOK, TabStep, NEW x, NEW m, NEW k, Clear(x, m),
         \A e \in calls' : /\ Fresh(e) /\ Sending(e) /\ e.n < k => e.shown = x
                           /\ ~Fresh(e) /\ e.n < k => e.n < m
  PROVE  Clear(x, k)'
  <1> SUFFICES ASSUME NEW e \in calls'
               PROVE  /\ Sending(e) /\ e.step \in {"sent", "choose"} /\ e.n < k => e.shown = x
                      /\ Submission(e) /\ e.step = "put" => e.seen.candidate = x
    BY DEF Clear
  <1>1. CASE Fresh(e)
    BY <1>1 DEF Fresh
  <1>2. CASE ~Fresh(e)
    <2>1. PICK d \in calls : Kept(d, e)
      BY <1>2 DEF TabStep, TabKeeps
    <2> QED BY <1>2, <2>1 DEF Clear, Kept, Sending, Submission
  <1> QED BY <1>1, <1>2

LEMMA TabHolds == ASSUME TabStep, NEW x, Holds(x) PROVE Holds(x)'
  BY DEF TabStep, Holds

(* Nor any of the rest.                                                     *)
LEMMA TabOrder == ASSUME BooksOK, OrderOK, TabStep PROVE OrderOK'
  <1> SUFFICES ASSUME ordered
               PROVE  (InTurn /\ PageOK /\ FirstSentOK /\ SubmittedOK /\ RecordedOK
                        /\ VoteIsForThePage)'
    BY DEF OrderOK, TabStep, ghosts
  <1>1. InTurn /\ PageOK /\ FirstSentOK /\ SubmittedOK /\ RecordedOK /\ VoteIsForThePage
    BY DEF OrderOK
  <1>2. /\ UNCHANGED <<votes, codes, ordered>> /\ (Turns \/ Stays)
        /\ \A e \in calls' : Fresh(e) \/ \E d \in calls : Kept(d, e)
    BY DEF TabStep, TabKeeps, ghosts
  <1>3. moves \in Nat /\ \A c \in calls : c.n \in Nat /\ c.n <= moves
    BY DEF BooksOK, CallsOK, TypeOK, Numbered, Call
  <1>4. InTurn'
    <2> SUFFICES ASSUME NEW c \in calls', NEW d \in calls', c.n < d.n, d.step # "sent"
                 PROVE  c.step # "sent"
      BY DEF InTurn
    <2>1. PICK b \in calls : Kept(b, d)
      BY <1>2 DEF Fresh
    <2>2. ~Fresh(c)
      BY <1>3, <2>1 DEF Fresh, Kept
    <2>3. PICK a \in calls : Kept(a, c)
      BY <1>2, <2>2
    <2> QED BY <1>1, <2>1, <2>3 DEF InTurn, Kept
  <1>5. PageOK'
    <2> SUFFICES ASSUME page'.name = "confirm", CodeSent' PROVE PageOK'
      BY DEF PageOK
    <2>1. ~Turns
      BY TurnsAlone DEF CodeSent, Fresh
    <2>2. CodeSent
      <3>1. ASSUME NEW c \in calls', c.op = "requestOtp", c.mounted, c.status = "ok" PROVE CodeSent
        <4>1. PICK b \in calls : Kept(b, c)
          BY <1>2, <3>1 DEF Fresh
        <4> QED BY <3>1, <4>1 DEF Kept, CodeSent
      <3> QED BY <1>2, <2>1, <3>1 DEF CodeSent, Stays
    <2>3. page' = page /\ Clear(page.candidate, moves + 1) /\ Holds(page.candidate)
      BY <1>1, <1>2, <2>1, <2>2 DEF PageOK, Stays
    <2>4. PICK x : x = page.candidate
      OBVIOUS
    <2>5. PICK m : m = moves + 1
      OBVIOUS
    <2>6. PICK k : k = moves' + 1
      OBVIOUS
    <2>7. Clear(x, m) /\ Holds(x)
      BY <2>3, <2>4, <2>5
    <2>8. Clear(x, k)' /\ Holds(x)'
      <3>1. \A e \in calls' : Fresh(e) /\ Sending(e) => e.shown = x
        BY <1>2, <2>1, <2>4 DEF Stays
      <3>2. \A e \in calls' : ~Fresh(e) => e.n < m
        BY <1>2, <1>3, <2>5 DEF Kept
      <3> QED BY <2>7, <3>1, <3>2, TabClear, TabHolds
    <2> QED BY <2>3, <2>4, <2>6, <2>8 DEF PageOK, Clear, Holds
  <1>10. FirstSentOK'
    <2> SUFFICES ASSUME NEW c \in calls', Underway(c)
                 PROVE  /\ Clear(c.shown, moves + 1)'
                        /\ c.step # "choose" => Holds(c.shown)'
      BY DEF FirstSentOK, Underway, IsFirst
    <2>1. c.mounted /\ ~Fresh(c)
      BY DEF Underway, IsFirst, Fresh
    <2>2. Stays
      BY <1>2, <2>1, TurnsAlone
    <2>3. PICK b \in calls : Kept(b, c)
      BY <1>2, <2>1
    <2>4. Underway(b) /\ b.shown = c.shown /\ b.step = c.step
      BY <2>1, <2>3 DEF Kept, Underway, IsFirst
    <2>5. PICK m : m = moves + 1
      OBVIOUS
    <2>6. PICK k : k = moves' + 1
      OBVIOUS
    <2>7. /\ Clear(c.shown, m) /\ c.shown = page.candidate
          /\ c.step # "choose" => Holds(c.shown)
      BY <1>1, <2>4, <2>5 DEF FirstSentOK, BooksOK, FirstOK, Underway
    <2>8. \A e \in calls' : Fresh(e) => e.shown = c.shown
      BY <2>2, <2>7 DEF Stays
    <2>9. \A e \in calls' : ~Fresh(e) => e.n < m
      BY <1>2, <1>3, <2>5 DEF Kept
    <2>10. Clear(c.shown, k)'
      BY <2>7, <2>8, <2>9, TabClear
    <2>11. c.step # "choose" => Holds(c.shown)'
      BY <2>7, TabHolds
    <2> QED BY <2>6, <2>10, <2>11 DEF Clear
  <1>6. SubmittedOK'
    <2> SUFFICES ASSUME NEW c \in calls', Submission(c)
                 PROVE  /\ c.step = "sent" => Clear(c.shown, c.n)' /\ Holds(c.shown)'
                        /\ c.step \in {"forget", "vote"} => c.seen.candidate = c.shown
      BY DEF SubmittedOK, Submission
    <2>1. CASE Fresh(c)
      <3>1. /\ page.name = "confirm" /\ ~form.requesting /\ c.shown = page.candidate
            /\ c.n = moves + 1 /\ c.step = "sent"
        BY <1>2, <2>1, TurnsAlone DEF Stays, Submission, Fresh
      <3>2. Clear(c.shown, c.n) /\ Holds(c.shown)
        BY <1>1, <3>1 DEF PageOK, CodeSent
      <3>3. \A e \in calls' : Fresh(e) => ~(e.n < c.n)
        BY <1>3, <3>1 DEF Fresh
      <3>4. Clear(c.shown, c.n)' /\ Holds(c.shown)'
        BY <3>2, <3>3, TabClear, TabHolds
      <3> QED BY <3>1, <3>4
    <2>2. CASE ~Fresh(c)
      <3>1. PICK b \in calls : Kept(b, c)
        BY <1>2, <2>2
      <3>2. /\ Submission(b) /\ b.n = c.n /\ b.shown = c.shown
            /\ b.step = c.step /\ b.seen = c.seen
        BY <3>1 DEF Kept, Submission
      <3>3. c.step = "sent" => Clear(c.shown, c.n) /\ Holds(c.shown)
        BY <1>1, <3>2 DEF SubmittedOK
      <3>4. \A e \in calls' : Fresh(e) => ~(e.n < c.n)
        BY <1>3, <3>2 DEF Fresh
      <3>5. c.step = "sent" => Clear(c.shown, c.n)' /\ Holds(c.shown)'
        BY <3>3, <3>4, TabClear, TabHolds
      <3> QED BY <1>1, <3>2, <3>5 DEF SubmittedOK
    <2> QED BY <2>1, <2>2
  <1>7. \A x : Voted(x) => Voted(x)'
    BY <1>2 DEF Voted
  <1>8. RecordedOK'
    BY <1>1, <1>2, <1>7 DEF RecordedOK, Recorded, Submission, Fresh, Kept
  <1>9. VoteIsForThePage'
    <2>1. page'.name = "success" => Voted(page'.candidate)
      <3>1. page.name = "success" => Voted(page.candidate)
        BY <1>1 DEF OrderOK, VoteIsForThePage, Voted
      <3>2. \A c \in calls : Last(c) => Voted(c.shown)
        BY <1>1 DEF RecordedOK, Recorded, Last, Submission
      <3> QED BY <1>2, <3>1, <3>2, TurnsAlone DEF Stays
    <2> QED BY <1>1, <1>2, <2>1 DEF VoteIsForThePage, Voted
  <1> QED BY <1>4, <1>5, <1>6, <1>8, <1>9, <1>10

(* Nor does the server, when it examines votes for that candidate.         *)
LEMMA ServerClear ==
  ASSUME BooksOK, NEW c \in calls, ServerStep(c), NEW x, NEW m, Clear(x, m),
         Examines(c) => Holds(x)
  PROVE  Clear(x, m)'
  <1> SUFFICES ASSUME NEW e \in calls'
               PROVE  /\ Sending(e) /\ e.step \in {"sent", "choose"} /\ e.n < m => e.shown = x
                      /\ Submission(e) /\ e.step = "put" => e.seen.candidate = x
    BY DEF Clear
  <1>1. CASE e \in calls \ {c}
    BY <1>1 DEF Clear
  <1>2. CASE e \notin calls \ {c}
    <2>1. Moved(c, e) /\ e.step # "sent"
      BY <1>2, ServerKeeps
    <2>2. ASSUME Sending(e), e.step = "choose", e.n < m PROVE e.shown = x
      <3>1. Sending(c) /\ ~Submission(c) /\ c.op # "verifyAccessOtp"
        BY <2>1, <2>2 DEF Moved, Sending, Submission
      <3>2. Allows(c)
        BY <1>2, <2>2, <3>1 DEF ServerStep, Declines, Allows, MakesCode, Mails, Tells,
             Examines, Counts, Spends, Records, Confirms, Goes, Replies
      <3> QED BY <2>1, <2>2, <3>2 DEF Allows, Clear, Moved
    <2>3. ASSUME Submission(e), e.step = "put" PROVE e.seen.candidate = x
      <3>1. Examines(c) /\ e.seen = temp
        BY <1>2, <2>3, ServedSubmission
      <3> QED BY <3>1 DEF Examines, Holds
    <2> QED BY <2>1, <2>2, <2>3
  <1> QED BY <1>1, <1>2

(* Nor does the choice that waits become another's.                        *)
LEMMA ServerHolds ==
  ASSUME BooksOK, NEW c \in calls, ServerStep(c), NEW x, NEW m, Clear(x, m), Holds(x),
         MakesCode(c) => c.n < m
  PROVE  Holds(x)'
  <1>1. CASE MakesCode(c)
    BY <1>1 DEF MakesCode, Clear, Holds
  <1>2. CASE Counts(c) /\ temp'.candidate = c.seen.candidate
    BY <1>2 DEF Counts, Clear, Holds
  <1> QED BY <1>1, <1>2, ServedState DEF Holds, BooksOK

(* Nor does the server.                                                    *)
LEMMA ServerOrder == ASSUME BooksOK, OrderOK, NEW c \in calls, ServerStep(c) PROVE OrderOK'
  <1> SUFFICES ASSUME ordered'
               PROVE  (InTurn /\ PageOK /\ FirstSentOK /\ SubmittedOK /\ RecordedOK
                        /\ VoteIsForThePage)'
    BY DEF OrderOK
  <1>1. /\ UNCHANGED <<page, form>> /\ (Begins(c) \/ GoesOn(c)) /\ ordered
        /\ \A e \in calls' : e \in calls \ {c} \/ (Moved(c, e) /\ e.step # "sent")
        /\ c.step = "sent" => \A d \in calls : /\ d.n < c.n => d.step # "sent"
                                               /\ Sending(c) => ~Writing(d)
    BY ServerKeeps DEF ServerStep, Begins, GoesOn, ghosts
  <1>2. InTurn /\ PageOK /\ FirstSentOK /\ SubmittedOK /\ RecordedOK /\ VoteIsForThePage
    BY <1>1 DEF OrderOK
  <1>3. /\ CallsOK /\ moves \in Nat
        /\ \A d \in calls : d.n \in Nat /\ d.n <= moves
        /\ \A d, e \in calls : d.n = e.n => d = e
    BY DEF BooksOK, CallsOK, TypeOK, Numbered, Call
  <1>4. InTurn'
    <2> SUFFICES ASSUME NEW a \in calls', NEW b \in calls', a.n < b.n, b.step # "sent"
                 PROVE  a.step # "sent"
      BY DEF InTurn
    <2> QED BY <1>1, <1>2 DEF InTurn, Moved
  <1>5. PageOK'
    <2> SUFFICES ASSUME page.name = "confirm", CodeSent' PROVE PageOK'
      BY <1>1 DEF PageOK
    <2>1. PICK x : x = page.candidate
      OBVIOUS
    <2>2. PICK m : m = moves + 1
      OBVIOUS
    <2>3. Clear(x, m) /\ Holds(x) /\ (Examines(c) => Holds(x)) /\ (MakesCode(c) => c.n < m)
      <3>1. c.n < m
        BY <1>3, <2>2
      <3>2. CASE CodeSent
        BY <1>2, <2>1, <2>2, <3>1, <3>2 DEF PageOK
      <3>3. CASE ~CodeSent
        <4>1. PICK e \in calls' : e.op = "requestOtp" /\ e.mounted /\ e.status = "ok"
          BY <1>1, <3>3 DEF CodeSent
        <4>2. e \notin calls \ {c} /\ Moved(c, e)
          BY <1>1, <3>3, <4>1 DEF CodeSent
        <4>3. Sending(c) /\ ~Submission(c) /\ c.op = "requestOtp" /\ IsFirst(c)
          BY <4>1, <4>2 DEF Moved, Sending, Submission, IsFirst
        <4>4. Tells(c)
          <5>1. c.status # "ok" \/ c.step = "answered"
            BY <1>3, ServedType
          <5>2. ~(IsFirst(c) /\ c.status = "ok")
            BY <3>3 DEF CodeSent, IsFirst
          <5> QED BY <4>1, <4>2, <4>3, <5>2 DEF ServerStep, Declines, Allows, MakesCode, Mails,
                Examines, Counts, Spends, Records, Confirms, Goes, Replies
        <4>5. Underway(c) /\ c.step = "increment" /\ c.shown = page.candidate
          BY <4>3, <4>4 DEF Tells, Underway, BooksOK, FirstOK
        <4> QED BY <1>2, <2>1, <2>2, <3>1, <4>5 DEF FirstSentOK
      <3> QED BY <3>2, <3>3
    <2>4. Clear(x, m)' /\ Holds(x)'
      BY <2>3, ServerClear, ServerHolds
    <2> QED BY <1>1, <2>1, <2>2, <2>4, ServerKeeps DEF PageOK, Clear, Holds
  <1>12. FirstSentOK'
    <2> SUFFICES ASSUME NEW e \in calls', Underway(e)
                 PROVE  /\ Clear(e.shown, moves + 1)'
                        /\ e.step # "choose" => Holds(e.shown)'
      BY DEF FirstSentOK, Underway, IsFirst
    <2>1. PICK m : m = moves + 1
      OBVIOUS
    <2>2. c.n < m /\ moves' = moves
      BY <1>3, <2>1, ServerKeeps
    <2>3. CASE e \in calls \ {c}
      <3>1. Clear(e.shown, m) /\ (e.step # "choose" => Holds(e.shown))
        BY <1>2, <2>1, <2>3 DEF FirstSentOK
      <3>2. ~Examines(c)
        <4>1. Submission(c) => c.n < e.n
          BY <2>3 DEF Underway, BooksOK, FirstOK
        <4> QED BY <1>2, <2>3, <4>1 DEF Examines, InTurn, Underway
      <3>3. Clear(e.shown, m)'
        BY <3>1, <3>2, ServerClear
      <3>4. e.step # "choose" => Holds(e.shown)'
        BY <2>2, <3>1, ServerHolds
      <3> QED BY <2>1, <2>2, <3>3, <3>4 DEF Clear
    <2>4. CASE e \notin calls \ {c}
      <3>1. Moved(c, e) /\ IsFirst(c) /\ e.shown = c.shown
        BY <1>1, <2>4 DEF Moved, Underway, IsFirst
      <3>2. Sending(c) /\ ~Submission(c) /\ c.op # "verifyAccessOtp" /\ ~Examines(c)
        BY <3>1 DEF IsFirst, Sending, Submission, Examines
      <3>3. \/ Allows(c) /\ e.step = "choose"
            \/ MakesCode(c)
            \/ Mails(c)
        BY <2>4, <3>2 DEF Underway, ServerStep, Declines, Allows, MakesCode, Mails, Tells,
             Examines, Counts, Spends, Records, Confirms, Goes, Replies
      <3>4. /\ Clear(c.shown, m) /\ (MakesCode(c) \/ Allows(c) \/ Holds(c.shown))
        <4>1. CASE Allows(c)
          <5>1. /\ c.step = "sent" /\ \A d \in calls : d.n < c.n => d.step # "sent"
                /\ \A d \in calls : ~Writing(d)
            BY <1>1, <3>2, <4>1 DEF Allows, Begins, GoesOn
          <5>2. \A d \in calls : Sending(d) /\ d.shown # c.shown => d.n < c.n
            BY <3>1 DEF BooksOK, FirstOK
          <5>3. Clear(c.shown, m)
            BY <5>1, <5>2 DEF Clear, Writing, Submission
          <5> QED BY <4>1, <5>3
        <4>2. CASE MakesCode(c) \/ Mails(c)
          <5>1. Underway(c) /\ (Mails(c) => c.step # "choose")
            BY <3>1, <4>2 DEF Underway, MakesCode, Mails
          <5> QED BY <1>2, <2>1, <4>2, <5>1 DEF FirstSentOK
        <4> QED BY <3>3, <4>1, <4>2
      <3>5. Clear(c.shown, m)'
        BY <3>2, <3>4, ServerClear
      <3>6. e.step # "choose" => Holds(c.shown)'
        <4>1. CASE MakesCode(c)
          BY <4>1 DEF MakesCode, Holds
        <4>2. CASE Allows(c) /\ e.step = "choose"
          BY <4>2
        <4>3. CASE Mails(c)
          <5>1. temp' = temp /\ ~MakesCode(c) /\ ~Allows(c)
            BY <4>3 DEF Mails, MakesCode, Allows
          <5> QED BY <3>4, <5>1 DEF Holds
        <4> QED BY <3>3, <4>1, <4>2, <4>3
      <3> QED BY <2>1, <2>2, <3>1, <3>5, <3>6 DEF Clear, Holds
    <2> QED BY <2>3, <2>4
  <1>6. SubmittedOK'
    <2> SUFFICES ASSUME NEW e \in calls', Submission(e)
                 PROVE  /\ e.step = "sent" => Clear(e.shown, e.n)' /\ Holds(e.shown)'
                        /\ e.step \in {"forget", "vote"} => e.seen.candidate = e.shown
      BY DEF SubmittedOK, Submission
    <2>1. CASE e \in calls \ {c}
      <3>1. ASSUME e.step = "sent" PROVE Clear(e.shown, e.n)' /\ Holds(e.shown)'
        <4>1. Clear(e.shown, e.n) /\ Holds(e.shown)
          BY <1>2, <2>1, <3>1 DEF SubmittedOK
        <4>2. MakesCode(c) => c.n < e.n
          <5>1. MakesCode(c) => c.step # "sent"
            BY DEF MakesCode
          <5> QED BY <1>2, <1>3, <2>1, <3>1, <5>1 DEF InTurn
        <4> QED BY <4>1, <4>2, ServerClear, ServerHolds
      <3> QED BY <1>2, <2>1, <3>1 DEF SubmittedOK
    <2>2. CASE e \notin calls \ {c}
      <3>1. ASSUME e.step = "forget" PROVE e.seen.candidate = e.shown
        <4>1. Submission(c) /\ Examines(c) /\ e.shown = c.shown /\ e.seen = temp
          BY <2>2, <3>1, ServedSubmission
        <4> QED BY <1>2, <4>1 DEF Examines, SubmittedOK, Holds
      <3>2. ASSUME e.step = "vote" PROVE e.seen.candidate = e.shown
        BY <1>2, <2>2, <3>2, ServedSubmission DEF Spends, SubmittedOK
      <3> QED BY <1>1, <2>2, <3>1, <3>2
    <2> QED BY <2>1, <2>2
  <1> DEFINE last == Used + 1
  <1>7. /\ DOMAIN votes \subseteq DOMAIN votes' /\ \A i \in DOMAIN votes : votes'[i] = votes[i]
        /\ Records(c) \/ votes' = votes
        /\ Records(c) => /\ DOMAIN votes' = DOMAIN votes \cup {last}
                         /\ votes'[last].candidate = c.seen.candidate
                         /\ votes'[last].shown = c.shown
    <2>1. /\ DOMAIN votes \subseteq DOMAIN votes'
          /\ \A i \in DOMAIN votes : votes'[i] = votes[i]
          /\ Records(c) \/ votes' = votes
      BY <1>3, VotesGrow, ServedState
    <2>2. Records(c) => /\ DOMAIN votes' = DOMAIN votes \cup {last}
                        /\ votes'[last] = [candidate |-> c.seen.candidate, code |-> c.seen.code,
                                          shown |-> c.shown]
      BY <1>3, VotesGrow
    <2> HIDE DEF last
    <2> QED BY <2>1, <2>2
  <1>8. Records(c) => c.seen.candidate = c.shown
    BY <1>2 DEF Records, SubmittedOK
  <1> HIDE DEF last
  <1>9. \A x : Voted(x) => Voted(x)'
    BY <1>7 DEF Voted
  <1>10. RecordedOK'
    <2> SUFFICES ASSUME NEW e \in calls', Recorded(e) PROVE Voted(e.shown)'
      BY DEF RecordedOK
    <2>1. CASE e \in calls \ {c}
      BY <1>2, <1>9, <2>1 DEF RecordedOK
    <2>2. CASE e \notin calls \ {c}
      <3>1. CASE Records(c)
        <4>1. Voted(c.shown)'
          BY <1>7, <1>8, <3>1 DEF Voted
        <4>2. e.shown = c.shown
          BY <2>2, ServedSubmission DEF Recorded
        <4> QED BY <4>1, <4>2
      <3>2. CASE Recorded(c)
        BY <1>2, <1>9, <2>2, <3>2, ServedSubmission DEF RecordedOK, Recorded
      <3>3. CASE ~Records(c) /\ ~Recorded(c)
        <4>1. ~Confirms(c)
          BY <3>3 DEF Confirms, Recorded
        <4> QED BY <2>2, <3>3, <4>1, ServedSubmission DEF Recorded
      <3> QED BY <3>1, <3>2, <3>3
    <2> QED BY <2>1, <2>2
  <1>11. VoteIsForThePage'
    <2>1. \A i \in DOMAIN votes' : votes'[i].candidate = votes'[i].shown
      BY <1>1, <1>2, <1>7, <1>8 DEF VoteIsForThePage
    <2>2. page'.name = "success" => Voted(page.candidate)'
      BY <1>1, <1>2, <1>9 DEF VoteIsForThePage, Voted
    <2> QED BY <2>1, <2>2 DEF VoteIsForThePage, Voted
  <1> QED BY <1>4, <1>5, <1>6, <1>10, <1>11, <1>12

-----------------------------------------------------------------------------
(* What is true as long as no two votes are examined at once.              *)
Unspent(k) == \A i \in DOMAIN votes : votes[i].code # k

(* A vote on its way holds a code alone; a code that is held is not spent. *)
SpentOK == ~overlap =>
    /\ \A c, d \in calls : Examined(c) /\ Examined(d) => c = d
    /\ temp # NoTemp => Unspent(temp.code)
    /\ \A c \in calls : Examined(c) /\ c.step # "count" => Unspent(c.seen.code)
    /\ \A c \in calls : Examined(c) /\ c.step = "vote" => temp.code # c.seen.code
    /\ CodeUsedOnce

(* The tab changes none of it.                                              *)
LEMMA TabSpent == ASSUME BooksOK, SpentOK, TabStep PROVE SpentOK'
  <1> SUFFICES ASSUME ~overlap PROVE SpentOK'
    BY DEF SpentOK, TabStep, ghosts
  <1>1. /\ UNCHANGED <<votes, overlap>> /\ temp' \in {temp, NoTemp} /\ CodesOK /\ CallsOK
        /\ \A e \in calls' : Examined(e) => \E d \in calls : Kept(d, e) /\ Examined(d)
        /\ Numbered(calls', moves') /\ Numbered(calls, moves)
    BY DEF TabStep, TabKeeps, ghosts, Fresh, Kept, Examined, Submission, BooksOK, CallsOK
  <1>2. \A k : Unspent(k) => Unspent(k)'
    BY <1>1 DEF Unspent
  <1>3. ASSUME NEW a \in calls', NEW b \in calls', Examined(a), Examined(b) PROVE a = b
    <2>1. PICK c \in calls : Kept(c, a) /\ Examined(c)
      BY <1>1, <1>3
    <2>2. PICK d \in calls : Kept(d, b) /\ Examined(d)
      BY <1>1, <1>3
    <2>3. c = d
      BY <2>1, <2>2 DEF SpentOK
    <2> QED BY <1>1, <2>1, <2>2, <2>3 DEF Numbered, Kept
  <1>4. ASSUME NEW e \in calls', Examined(e)
        PROVE  /\ e.step # "count" => Unspent(e.seen.code)'
               /\ e.step = "vote" => temp'.code # e.seen.code
    <2>1. PICK c \in calls : Kept(c, e) /\ Examined(c)
      BY <1>1, <1>4
    <2>2. /\ e.step = c.step /\ e.seen = c.seen
          /\ c.step # "count" => Unspent(c.seen.code) /\ c.seen.code \in 1 .. codes
          /\ c.step = "vote" => temp.code # c.seen.code
      BY <1>1, <2>1 DEF SpentOK, Kept, CodesOK
    <2>3. codes \in Nat
      BY <1>1 DEF CallsOK, TypeOK
    <2> QED BY <1>1, <1>2, <2>2, <2>3, NoneType
  <1>5. temp' # NoTemp => Unspent(temp.code)'
    BY <1>1, <1>2 DEF SpentOK, Unspent
  <1>6. CodeUsedOnce'
    BY <1>1 DEF SpentOK, CodeUsedOnce
  <1> QED BY <1>3, <1>4, <1>5, <1>6 DEF SpentOK

(* Nor does the server: a submission that is examined is alone.             *)
LEMMA ServerSpent == ASSUME BooksOK, SpentOK, NEW c \in calls, ServerStep(c) PROVE SpentOK'
  <1> SUFFICES ASSUME ~overlap' PROVE SpentOK'
    BY DEF SpentOK
  <1>1. /\ ~overlap /\ CodesOK /\ CallsOK /\ (Begins(c) \/ GoesOn(c))
        /\ c.step = "sent" /\ Submission(c) => \A d \in calls : ~Examined(d)
    BY DEF ServerStep, Begins, GoesOn, ghosts, BooksOK
  <1>2. /\ \A a, b \in calls : Examined(a) /\ Examined(b) => a = b
        /\ temp # NoTemp => Unspent(temp.code)
        /\ \A d \in calls : Examined(d) /\ d.step # "count" => Unspent(d.seen.code)
        /\ \A d \in calls : Examined(d) /\ d.step = "vote" => temp.code # d.seen.code
        /\ CodeUsedOnce
    BY <1>1 DEF SpentOK
  <1>3. /\ codes \in Nat /\ NoTemp.code = 0
        /\ temp # NoTemp => temp.code \in 1 .. codes
        /\ \A d \in calls : Examined(d) /\ d.step # "count" => d.seen.code \in 1 .. codes
        /\ \A i \in DOMAIN votes : votes[i].code \in 1 .. codes
    BY <1>1, ServedType, NoneType DEF CodesOK
  <1>4. \A e \in calls' : Examined(e) /\ e \notin calls \ {c} =>
          /\ \A d \in calls \ {c} : ~Examined(d)
          /\ \/ Examines(c) /\ e.step # "vote" /\ e.seen = temp
             \/ Spends(c) /\ e.step = "vote" /\ e.seen = c.seen
             \/ Records(c) /\ e.step = "count"
    <2> SUFFICES ASSUME NEW e \in calls', Examined(e), e \notin calls \ {c}
                 PROVE  /\ \A d \in calls \ {c} : ~Examined(d)
                        /\ \/ Examines(c) /\ e.step # "vote" /\ e.seen = temp
                           \/ Spends(c) /\ e.step = "vote" /\ e.seen = c.seen
                           \/ Records(c) /\ e.step = "count"
      OBVIOUS
    <2>1. \/ Examines(c) /\ e.step # "vote" /\ e.seen = temp
          \/ Spends(c) /\ e.step = "vote" /\ e.seen = c.seen
          \/ Records(c) /\ e.step = "count"
      BY ServedSubmission DEF Examined
    <2>2. Submission(c) /\ (c.step = "sent" \/ Examined(c))
      BY <2>1 DEF Examines, Spends, Records, Examined
    <2> QED BY <1>1, <1>2, <2>1, <2>2
  <1>5. \A a, b \in calls' : Examined(a) /\ Examined(b) => a = b
    <2>1. ASSUME NEW a \in calls', NEW b \in calls', Examined(a), Examined(b) PROVE a = b
      <3>1. CASE a \in calls \ {c} /\ b \in calls \ {c}
        BY <1>2, <2>1, <3>1
      <3>2. CASE a \notin calls \ {c} /\ b \notin calls \ {c}
        BY <3>2, ServerKeeps DEF Moved, CallsOK, Numbered
      <3> QED BY <1>4, <2>1, <3>1, <3>2
    <2> QED BY <2>1
  <1>6. ASSUME NEW k, Unspent(k), Records(c) => k # c.seen.code PROVE Unspent(k)'
    <2>1. CASE Records(c)
      <3> DEFINE last == Used + 1
      <3>1. /\ DOMAIN votes' = DOMAIN votes \cup {last}
            /\ \A i \in DOMAIN votes : votes'[i] = votes[i]
            /\ votes'[last] = [candidate |-> c.seen.candidate, code |-> c.seen.code,
                              shown |-> c.shown]
        BY <1>1, <2>1, VotesGrow
      <3> HIDE DEF last
      <3> QED BY <1>6, <2>1, <3>1 DEF Unspent
    <2>2. CASE votes' = votes
      BY <1>6, <2>2 DEF Unspent
    <2> QED BY <1>1, <2>1, <2>2, ServedState
  <1>7. Records(c) => /\ Examined(c) /\ c.step = "vote" /\ Unspent(c.seen.code)
                      /\ temp' = temp /\ temp.code # c.seen.code
    BY <1>2 DEF Records, Examined
  <1>8. temp' # NoTemp => Unspent(temp.code)'
    <2>1. CASE temp' = temp /\ temp # NoTemp
      BY <1>2, <1>6, <1>7, <2>1 DEF Unspent
    <2>2. CASE MakesCode(c)
      BY <1>3, <2>2 DEF MakesCode, Unspent
    <2>3. CASE Counts(c) /\ temp'.code = c.seen.code
      BY <1>2, <2>3 DEF Counts, Examined, Unspent
    <2> QED BY <1>1, <2>1, <2>2, <2>3, ServedState
  <1>9. ASSUME NEW e \in calls', Examined(e)
        PROVE  /\ e.step # "count" => Unspent(e.seen.code)'
               /\ e.step = "vote" => temp'.code # e.seen.code
    <2>1. CASE e \in calls \ {c}
      <3>1. ~Examined(c)
        BY <1>2, <1>9, <2>1
      <3>2. ~Records(c) /\ ~Counts(c)
        BY <3>1 DEF Records, Counts, Examined
      <3>3. e.step # "count" => Unspent(e.seen.code)'
        BY <1>2, <1>6, <1>9, <2>1, <3>2
      <3>4. ASSUME e.step = "vote" PROVE temp'.code # e.seen.code
        <4>1. temp.code # e.seen.code /\ e.seen.code \in 1 .. codes
          BY <1>2, <1>3, <1>9, <2>1, <3>4
        <4>2. temp'.code \in {temp.code, 0, codes + 1}
          BY <1>1, <1>3, <3>2, ServedState DEF MakesCode
        <4> QED BY <1>3, <4>1, <4>2
      <3> QED BY <3>3, <3>4
    <2>2. CASE e \notin calls \ {c}
      <3>1. CASE Examines(c) /\ e.step # "vote" /\ e.seen = temp
        BY <1>2, <1>6, <3>1 DEF Examines, Records
      <3>2. CASE Spends(c) /\ e.step = "vote" /\ e.seen = c.seen
        <4>1. Examined(c) /\ c.step = "forget" /\ temp' = NoTemp
          BY <3>2 DEF Spends, Examined
        <4>2. Unspent(c.seen.code) /\ c.seen.code \in 1 .. codes /\ ~Records(c)
          BY <1>2, <1>3, <4>1 DEF Records
        <4> QED BY <1>3, <1>6, <3>2, <4>1, <4>2
      <3> QED BY <1>4, <1>9, <2>2, <3>1, <3>2
    <2> QED BY <2>1, <2>2
  <1>10. CodeUsedOnce'
    <2>1. CASE Records(c)
      <3> DEFINE last == Used + 1
      <3>1. /\ DOMAIN votes' = DOMAIN votes \cup {last}
            /\ \A i \in DOMAIN votes : votes'[i] = votes[i]
            /\ votes'[last] = [candidate |-> c.seen.candidate, code |-> c.seen.code,
                              shown |-> c.shown]
        BY <1>1, <2>1, VotesGrow
      <3> HIDE DEF last
      <3>2. \A i, j \in DOMAIN votes : votes[i].code = votes[j].code => i = j
        BY <1>1, <1>2 DEF CodeUsedOnce
      <3>3. \A i \in DOMAIN votes : votes[i].code # c.seen.code
        BY <1>7, <2>1 DEF Unspent
      <3>4. votes'[last].code = c.seen.code
        BY <3>1
      <3>5. \A i, j \in DOMAIN votes' : votes'[i].code = votes'[j].code => i = j
        BY <3>1, <3>2, <3>3, <3>4
      <3> QED BY <3>5 DEF CodeUsedOnce
    <2>2. CASE votes' = votes
      BY <1>1, <1>2, <2>2 DEF CodeUsedOnce
    <2> QED BY <1>1, <2>1, <2>2, ServedState
  <1> QED BY <1>5, <1>8, <1>9, <1>10 DEF SpentOK

-----------------------------------------------------------------------------
(* The inductive invariant.                                                *)
IInv == BooksOK /\ OrderOK /\ SpentOK

(* Nothing is in flight at first.                                           *)
LEMMA InitInv == Init => IInv
  <1> SUFFICES ASSUME Init PROVE IInv
    OBVIOUS
  <1>1. /\ temp = NoTemp /\ votes = <<>> /\ calls = {} /\ moves = 0 /\ form = FreshForm
        /\ codes \in Nat /\ mailed = 1 .. codes /\ stored \in Nat /\ access \in Seq(Entry)
        /\ page \in Page /\ page.name \in {"access", "candidates"}
    <2>1. <<>> \in Seq(Entry) /\ <<NoEntry>> \in Seq(Entry)
      BY NoneType
    <2>2. /\ AccesScrutin \in Page /\ AccesScrutin.name = "access"
          /\ At("candidates", 1, None, "confirmAccess") \in Page
          /\ At("candidates", 1, None, "confirmAccess").name = "candidates"
      BY NoneType, AtType DEF Names
    <2>3. /\ page = AccesScrutin \/ page = At("candidates", 1, None, "confirmAccess")
          /\ access = <<>> \/ access = <<NoEntry>>
          /\ codes \in {0, 1} /\ stored \in {0, 1}
          /\ temp = NoTemp /\ votes = <<>> /\ calls = {} /\ moves = 0 /\ form = FreshForm
          /\ mailed = 1 .. codes
      BY DEF Init
    <2>4. access \in Seq(Entry)
      BY <2>1, <2>3
    <2>5. page \in Page /\ page.name \in {"access", "candidates"}
      BY ONLY <2>2, <2>3
    <2> QED BY <2>3, <2>4, <2>5
  <1>2. votes \in Seq(Vote) /\ Used = 0 /\ DOMAIN votes = {} /\ MaxVotes \in Nat
    BY <1>1, PrivateConstants DEF Used
  <1>3. CallsOK
    BY <1>1, <1>2, NoneType DEF CallsOK, TypeOK, Numbered
  <1>4. BooksOK
    BY <1>1, <1>2, <1>3 DEF BooksOK, AccessOK, AloneOK, CodesOK, DoneOK, FirstOK, ResendOK
  <1>5. OrderOK
    BY <1>1, <1>2 DEF OrderOK, InTurn, PageOK, FirstSentOK, SubmittedOK, RecordedOK, VoteIsForThePage
  <1>6. SpentOK
    BY <1>1, <1>2 DEF SpentOK, CodeUsedOnce
  <1> QED BY <1>4, <1>5, <1>6 DEF IInv

(* The steps of the tab and those of the server keep it.                    *)
LEMMA NextInv == IInv /\ [Next]_vars => IInv'
  <1> SUFFICES ASSUME IInv, [Next]_vars PROVE IInv'
    OBVIOUS
  <1>1. BooksOK /\ OrderOK /\ SpentOK /\ CallsOK /\ AccessOK /\ AloneOK
    BY DEF IInv, BooksOK
  <1>2. CASE TabStep
    BY <1>1, <1>2, TabBooks, TabOrder, TabSpent DEF IInv
  <1>3. ASSUME NEW c \in calls, ServerStep(c) PROVE IInv'
    BY <1>1, <1>3, ServerBooks, ServerOrder, ServerSpent DEF IInv
  <1>4. CASE Elector
    BY <1>1, <1>2, <1>4, ElectorStep
  <1>5. CASE \E c \in calls : Serve(c)
    BY <1>1, <1>3, <1>5, ServeStep
  <1>6. CASE \E c \in calls, s \in Status : Hear(c, s)
    BY <1>1, <1>2, <1>6, HearStep
  <1>7. CASE ResendTimer \/ Expire \/ Reload
    BY <1>1, <1>2, <1>7, ChanceStep
  <1>8. CASE UNCHANGED vars
    <2>1. UNCHANGED <<access, live, temp, requests, votes, codes, mailed, page, form, stored,
                      calls, moves, ordered, overlap>>
      BY <1>8 DEF vars, server, tab, ghosts
    <2>2. CallsOK'
      BY <1>1, <2>1 DEF CallsOK, TypeOK, Numbered, Used
    <2>3. AccessOK'
      BY <1>1, <2>1 DEF AccessOK, Known
    <2>4. (AloneOK /\ CodesOK /\ DoneOK /\ FirstOK /\ ResendOK)'
      BY <1>1, <2>1 DEF BooksOK, AloneOK, CodesOK, DoneOK, FirstOK, ResendOK, Resendable, Used
    <2>5. OrderOK'
      BY <1>1, <2>1 DEF OrderOK, InTurn, PageOK, FirstSentOK, SubmittedOK, RecordedOK,
                        VoteIsForThePage, CodeSent, Clear, Holds, Voted
    <2>6. SpentOK'
      BY <1>1, <2>1 DEF SpentOK, CodeUsedOnce, Unspent
    <2> QED BY <2>2, <2>3, <2>4, <2>5, <2>6 DEF IInv, BooksOK
  <1> QED BY <1>4, <1>5, <1>6, <1>7, <1>8 DEF Next

(* The variables have their types, and the calls their numbers, in every   *)
(* state.                                                                  *)
THEOREM InvHolds == Spec => []IInv
  <1>1. Init => IInv
    BY InitInv
  <1>2. IInv /\ [Next]_vars => IInv'
    BY NextInv
  <1> QED BY <1>1, <1>2, PTL DEF Spec

(* A vote made with the calls taken in the order of the clicks goes to the *)
(* candidate of the page where its code was typed, and the success page    *)
(* names one voted for (VoteController::submitPrivate, VoteValidation).    *)
THEOREM VotesAreForTheirPage == Spec => []VoteIsForThePage
  <1>1. IInv => VoteIsForThePage
    BY DEF IInv, OrderOK, VoteIsForThePage
  <1> QED BY <1>1, InvHolds, PTL

(* A code that is never examined by two submissions at once records one    *)
(* vote (submitPrivate forgets the choice before it makes the vote).       *)
THEOREM CodesAreSpent == Spec => []CodeUsedOnce
  <1>1. IInv => CodeUsedOnce
    BY DEF IInv, SpentOK, CodeUsedOnce
  <1> QED BY <1>1, InvHolds, PTL

(* The success page is shown to an elector who has no vote left            *)
(* (VoteValidation navigates to it when none remains).                     *)
THEOREM SuccessIsTheEnd == Spec => []SuccessMeansDone
  <1>1. IInv => SuccessMeansDone
    BY DEF IInv, BooksOK, DoneOK, SuccessMeansDone
  <1> QED BY <1>1, InvHolds, PTL

(* The page that confirms a vote offers another code, or will: the 30      *)
(* seconds run or a call that starts them is heard (VoteValidation).       *)
THEOREM ResendIsOffered == Spec => []ResendComesBack
  <1>1. IInv => ResendComesBack
    BY DEF IInv, BooksOK, ResendOK, Resendable, ResendComesBack
  <1> QED BY <1>1, InvHolds, PTL
=============================================================================
