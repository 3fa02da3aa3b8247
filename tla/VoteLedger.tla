----------------------------- MODULE VoteLedger -----------------------------
(***************************************************************************)
(* What the public ballot of one election promises: a ledger of votes, to  *)
(* which each vote is added in one step, under the next number of its      *)
(* voter and an idempotency key used once.  An entry is never taken back:  *)
(* a vote that is to be paid becomes completed, a free one may be flagged. *)
(* Nothing is said of workers, transactions, retries or crashes.           *)
(***************************************************************************)
EXTENDS Naturals

CONSTANTS Ballot,   \* what may become a vote
          Elector,  \* who votes
          Key,      \* idempotency keys
          Free      \* an entry not used

VARIABLES
  paid,    \* the votes of the election are to be paid
  ledger,  \* ledger[b]: the vote that b became
  total    \* votes completed on the spot, in a free election

vars == <<paid, ledger, total>>

Entry == [state : {"pending", "completed", "fraud_suspected"},
          elector : Elector, seq : Nat \ {0}, key : Key]

Entries == {b \in Ballot : ledger[b] # Free}

Init == paid \in BOOLEAN /\ ledger = [b \in Ballot |-> Free] /\ total = 0

(* Number n is the next of elector e: those below it are used, it is not.  *)
IsNext(e, n) ==
  /\ \A m \in 1 .. (n - 1) : \E b \in Entries : ledger[b].elector = e /\ ledger[b].seq = m
  /\ \A b \in Entries : ledger[b].elector = e => ledger[b].seq # n

(* The entry of b is any one that the ledger admits.                       *)
Cast(b) ==
  LET entry == ledger'[b] IN
  /\ ledger[b] = Free
  /\ entry \in Entry /\ entry.state = IF paid THEN "pending" ELSE "completed"
  /\ IsNext(entry.elector, entry.seq)
  /\ \A c \in Entries : ledger[c].key # entry.key
  /\ ledger' = [ledger EXCEPT ![b] = entry]
  /\ total' = IF paid THEN total ELSE total + 1
  /\ UNCHANGED paid

Restate(b, from, to) ==
  /\ b \in Entries /\ ledger[b].state = from
  /\ ledger' = [ledger EXCEPT ![b].state = to]
  /\ UNCHANGED <<paid, total>>

Pay(b)  == paid /\ Restate(b, "pending", "completed")
Flag(b) == ~paid /\ Restate(b, "completed", "fraud_suspected")

Next == \E b \in Ballot : Cast(b) \/ Pay(b) \/ Flag(b)

Spec == Init /\ [][Next]_vars
=============================================================================
