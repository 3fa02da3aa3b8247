-------------------------- MODULE MoneyProofs --------------------------
(***************************************************************************)
(* The money.  For any votes, transactions and workers, of VotePayment:    *)
(* what the payment of votes keeps although nothing of it is in a          *)
(* transaction: a counted vote is paid (with any provider), a completed    *)
(* transaction stays completed and a failed one is free (with a provider   *)
(* that answers "pending" of what it does not know); unless a worker dies, *)
(* the counters agree; and whoever dies, they exceed the votes no more     *)
(* often than there are workers.  One inductive invariant, and above it    *)
(* two about the counters, which are sums.                                 *)
(*                                                                         *)
(* For any number of requests and reviewers and any amounts, of            *)
(* Withdrawal: what the lock of createRequest and the locks of the reviews *)
(* guarantee, from one inductive invariant, and from a second one about    *)
(* the sum reserved.                                                       *)
(***************************************************************************)
EXTENDS VotePayment, Payouts, FiniteSetTheorems, WellFoundedInduction, TLAPS

-----------------------------------------------------------------------------
(* Sums of naturals over a finite set, as the community module Functions     *)
(* defines them: a recursive function that takes the elements in an order    *)
(* of its own.  The lemmas say that the function is defined, and that the    *)
(* order does not matter.  Induction over a finite set is stated with a set  *)
(* of good subsets, not with an operator, so that it can be instantiated.    *)

(* A set of subsets that holds T whenever it holds what is smaller than T    *)
(* holds every subset.                                                       *)
LEMMA SubsetInduction ==
  ASSUME NEW S, IsFiniteSet(S), NEW Good,
         \A T \in SUBSET S : (\A U \in SUBSET T : U # T => U \in Good) => T \in Good
  PROVE  \A T \in SUBSET S : T \in Good
<1> DEFINE Bad == {T \in SUBSET S : T \notin Good}
<1> SUFFICES ASSUME Bad # {} PROVE FALSE
  OBVIOUS
<1>1. IsWellFoundedOn(StrictSubsetOrdering(S), SUBSET S)
  <2>1. FiniteSubsetsOf(S) = SUBSET S
    BY FS_FiniteSubsetsOfFinite
  <2>2. IsWellFoundedOn(StrictSubsetOrdering(S), FiniteSubsetsOf(S))
    BY FS_StrictSubsetOrderingWellFounded
  <2> QED
    BY <2>1, <2>2
<1>2. PICK T \in Bad : \A U \in Bad : <<U, T>> \notin StrictSubsetOrdering(S)
  <2> HIDE DEF Bad
  <2>1. Bad \subseteq SUBSET S
    BY DEF Bad
  <2> QED
    BY <1>1, <2>1, WFMin
<1>3. \A U \in SUBSET T : U # T => U \in Good
  BY <1>2 DEF StrictSubsetOrdering
<1> QED
  BY <1>2, <1>3

-----------------------------------------------------------------------------
Pick(s) == CHOOSE x \in s : TRUE

(* g sums f over every subset of S.                                          *)
Sums(g, f, S) ==
  g = [s \in SUBSET S |-> IF s = {} THEN 0 ELSE f[Pick(s)] + g[s \ {Pick(s)}]]

Sum(f, S) == (CHOOSE g : Sums(g, f, S))[S]

(* The sum of the community modules.                                         *)
LEMMA SumIsFold == ASSUME NEW f, NEW S PROVE FoldFunctionOnSet(+, 0, f, S) = Sum(f, S)
  BY DEF FoldFunctionOnSet, MapThenFoldSet, Sum, Sums, Pick

(* Two such functions agree where both are defined.                          *)
LEMMA SumsAgree ==
  ASSUME NEW S, IsFiniteSet(S), NEW f, NEW A \in SUBSET S, NEW B \in SUBSET S,
         NEW g, NEW h, Sums(g, f, A), Sums(h, f, B)
  PROVE  \A s \in SUBSET (A \cap B) : g[s] = h[s]
<1> DEFINE Good == {s \in SUBSET S : s \subseteq A \cap B => g[s] = h[s]}
<1>1. ASSUME NEW T \in SUBSET S, \A U \in SUBSET T : U # T => U \in Good
      PROVE  T \in Good
  <2> SUFFICES ASSUME T \subseteq A \cap B, T # {} PROVE g[T] = h[T]
    BY DEF Sums
  <2> DEFINE U == T \ {Pick(T)}
  <2>1. Pick(T) \in T
    BY DEF Pick
  <2>2. g[U] = h[U]
    BY <1>1, <2>1
  <2>3. g[T] = f[Pick(T)] + g[U]
    BY DEF Sums
  <2>4. h[T] = f[Pick(T)] + h[U]
    BY DEF Sums
  <2> QED
    BY <2>2, <2>3, <2>4
<1> HIDE DEF Good
<1>2. \A T \in SUBSET S : T \in Good
  BY <1>1, SubsetInduction
<1> QED
  BY <1>2 DEF Good

(* There is one over every finite set: it is put together from those over    *)
(* smaller sets.                                                             *)
LEMMA SumsExist ==
  ASSUME NEW S, IsFiniteSet(S), NEW f
  PROVE  \A T \in SUBSET S : \E g : Sums(g, f, T)
<1> DEFINE Good == {T \in SUBSET S : \E g : Sums(g, f, T)}
<1>1. ASSUME NEW T \in SUBSET S, \A U \in SUBSET T : U # T => U \in Good
      PROVE  T \in Good
  <2> DEFINE part(U) == CHOOSE g : Sums(g, f, U)
             whole == [s \in SUBSET T |->
                         IF s = {} THEN 0 ELSE f[Pick(s)] + part(s \ {Pick(s)})[s \ {Pick(s)}]]
  <2>1. ASSUME NEW s \in SUBSET T, s # {}
        PROVE  /\ s \ {Pick(s)} \in SUBSET T /\ s \ {Pick(s)} # T
               /\ Pick(s) \in s
    BY <2>1 DEF Pick
  <2>2. \A U \in SUBSET T : U # T => Sums(part(U), f, U)
    BY <1>1
  <2>3. ASSUME NEW U \in SUBSET T, U # T
        PROVE  part(U)[U] = whole[U]
    <3>1. Sums(part(U), f, U)
      BY <2>2, <2>3
    <3>2. CASE U = {}
      BY <3>1, <3>2 DEF Sums
    <3>3. CASE U # {}
      <4> DEFINE V == U \ {Pick(U)}
      <4>1. V \in SUBSET U /\ V \in SUBSET T /\ V # T
        BY <2>1, <3>3
      <4>2. Sums(part(V), f, V)
        BY <2>2, <4>1
      <4>3. part(U)[V] = part(V)[V]
        <5>1. U \in SUBSET S /\ V \in SUBSET S /\ V \in SUBSET (U \cap V)
          BY <4>1
        <5> HIDE DEF part, V
        <5> QED
          BY <3>1, <4>2, <5>1, SumsAgree
      <4>4. part(U)[U] = f[Pick(U)] + part(U)[V]
        BY <3>1, <3>3 DEF Sums
      <4>5. whole[U] = f[Pick(U)] + part(V)[V]
        BY <3>3
      <4> QED
        BY <4>3, <4>4, <4>5
    <3> QED
      BY <3>2, <3>3
  <2>4. whole = [s \in SUBSET T |-> IF s = {} THEN 0 ELSE f[Pick(s)] + whole[s \ {Pick(s)}]]
    <3> HIDE DEF part
    <3>1. ASSUME NEW s \in SUBSET T
          PROVE  whole[s] = IF s = {} THEN 0 ELSE f[Pick(s)] + whole[s \ {Pick(s)}]
      <4>1. CASE s = {}
        BY <4>1
      <4>2. CASE s # {}
        BY <2>1, <2>3, <4>2
      <4> QED
        BY <4>1, <4>2
    <3> HIDE DEF whole
    <3>2. whole = [s \in SUBSET T |-> whole[s]]
      BY DEF whole
    <3> QED
      BY <3>1, <3>2
  <2> HIDE DEF whole
  <2> QED
    BY <2>4 DEF Sums
<1> HIDE DEF Good
<1>2. \A T \in SUBSET S : T \in Good
  BY <1>1, SubsetInduction
<1> QED
  BY <1>2 DEF Good

(* What the definition says.                                                 *)
LEMMA SumUnfold ==
  ASSUME NEW S, IsFiniteSet(S), NEW f
  PROVE  /\ Sum(f, {}) = 0
         /\ S # {} => Pick(S) \in S /\ Sum(f, S) = f[Pick(S)] + Sum(f, S \ {Pick(S)})
<1> DEFINE sums(T) == CHOOSE g : Sums(g, f, T)
<1>1. \A T \in SUBSET S : Sums(sums(T), f, T)
  BY SumsExist
<1>2. \A T \in SUBSET S : Sum(f, T) = sums(T)[T]
  BY DEF Sum
<1> HIDE DEF sums
<1>3. Sum(f, {}) = 0
  <2>1. Sums(sums({}), f, {})
    BY <1>1
  <2> QED
    BY <1>2, <2>1 DEF Sums
<1>4. ASSUME S # {}
      PROVE  Pick(S) \in S /\ Sum(f, S) = f[Pick(S)] + Sum(f, S \ {Pick(S)})
  <2> DEFINE T == S \ {Pick(S)}
  <2>1. Pick(S) \in S
    BY <1>4 DEF Pick
  <2>2. Sums(sums(S), f, S) /\ Sums(sums(T), f, T)
    BY <1>1
  <2>3. sums(S)[S] = f[Pick(S)] + sums(S)[T]
    BY <1>4, <2>2 DEF Sums
  <2>4. sums(S)[T] = sums(T)[T]
    <3>1. S \in SUBSET S /\ T \in SUBSET S /\ T \in SUBSET (S \cap T)
      OBVIOUS
    <3> HIDE DEF T
    <3> QED
      BY <2>2, <3>1, SumsAgree
  <2> QED
    BY <1>2, <2>1, <2>3, <2>4
<1> QED
  BY <1>3, <1>4

-----------------------------------------------------------------------------
(* A sum of naturals is a natural.                                           *)
LEMMA SumType ==
  ASSUME NEW S, IsFiniteSet(S), NEW f, \A x \in S : f[x] \in Nat
  PROVE  Sum(f, S) \in Nat
<1> DEFINE Good == {T \in SUBSET S : Sum(f, T) \in Nat}
<1>1. ASSUME NEW T \in SUBSET S, \A U \in SUBSET T : U # T => U \in Good
      PROVE  T \in Good
  <2>1. IsFiniteSet(T)
    BY FS_Subset
  <2>2. Sum(f, {}) = 0
    BY SumUnfold, FS_EmptySet
  <2>3. CASE T # {}
    <3>1. Pick(T) \in T /\ Sum(f, T) = f[Pick(T)] + Sum(f, T \ {Pick(T)})
      BY <2>1, <2>3, SumUnfold
    <3>2. T \ {Pick(T)} \in Good
      BY <1>1, <3>1
    <3> QED
      BY <3>1, <3>2
  <2> QED
    BY <2>2, <2>3
<1> HIDE DEF Good
<1>2. \A T \in SUBSET S : T \in Good
  BY <1>1, SubsetInduction
<1> QED
  BY <1>2 DEF Good

(* Whichever element is taken out first, the sum is the same.                *)
LEMMA SumRemove ==
  ASSUME NEW S, IsFiniteSet(S), NEW f, \A x \in S : f[x] \in Nat
  PROVE  \A x \in S : Sum(f, S) = f[x] + Sum(f, S \ {x})
<1> DEFINE Good == {T \in SUBSET S : \A x \in T : Sum(f, T) = f[x] + Sum(f, T \ {x})}
<1>1. ASSUME NEW T \in SUBSET S, \A U \in SUBSET T : U # T => U \in Good
      PROVE  T \in Good
  <2> SUFFICES ASSUME NEW x \in T PROVE Sum(f, T) = f[x] + Sum(f, T \ {x})
    OBVIOUS
  <2> DEFINE p == Pick(T)
  <2>1. IsFiniteSet(T) /\ \A y : IsFiniteSet(T \ {y}) /\ IsFiniteSet((T \ {x}) \ {y})
    BY FS_Subset, FS_RemoveElement
  <2>2. p \in T /\ Sum(f, T) = f[p] + Sum(f, T \ {p})
    BY <2>1, SumUnfold
  <2>3. CASE x # p
    <3>1. T \ {p} \in Good /\ T \ {x} \in Good
      BY <1>1, <2>2
    <3> HIDE DEF p
    <3>2. Sum(f, T \ {p}) = f[x] + Sum(f, (T \ {p}) \ {x})
      BY <2>3, <3>1
    <3>3. Sum(f, T \ {x}) = f[p] + Sum(f, (T \ {x}) \ {p})
      BY <2>2, <2>3, <3>1
    <3>4. (T \ {p}) \ {x} = (T \ {x}) \ {p}
      OBVIOUS
    <3>5. Sum(f, (T \ {x}) \ {p}) \in Nat
      BY <2>1, SumType
    <3>6. f[x] \in Nat /\ f[p] \in Nat
      BY <2>2
    <3> HIDE DEF Good
    <3> QED
      BY <2>2, <3>2, <3>3, <3>4, <3>5, <3>6
  <2> QED
    BY <2>2, <2>3
<1> HIDE DEF Good
<1>2. \A T \in SUBSET S : T \in Good
  BY <1>1, SubsetInduction
<1> QED
  BY <1>2 DEF Good

(* It depends only on the values that it adds.                               *)
LEMMA SumCongruent ==
  ASSUME NEW S, IsFiniteSet(S), NEW f, NEW g, \A x \in S : f[x] = g[x]
  PROVE  Sum(f, S) = Sum(g, S)
<1> DEFINE Good == {T \in SUBSET S : Sum(f, T) = Sum(g, T)}
<1>1. ASSUME NEW T \in SUBSET S, \A U \in SUBSET T : U # T => U \in Good
      PROVE  T \in Good
  <2>1. IsFiniteSet(T)
    BY FS_Subset
  <2>2. Sum(f, {}) = 0 /\ Sum(g, {}) = 0
    BY SumUnfold, FS_EmptySet
  <2>3. CASE T # {}
    <3>1. /\ Pick(T) \in T
          /\ Sum(f, T) = f[Pick(T)] + Sum(f, T \ {Pick(T)})
          /\ Sum(g, T) = g[Pick(T)] + Sum(g, T \ {Pick(T)})
      BY <2>1, <2>3, SumUnfold
    <3>2. T \ {Pick(T)} \in Good
      BY <1>1, <3>1
    <3> QED
      BY <3>1, <3>2
  <2> QED
    BY <2>2, <2>3
<1> HIDE DEF Good
<1>2. \A T \in SUBSET S : T \in Good
  BY <1>1, SubsetInduction
<1> QED
  BY <1>2 DEF Good

(* One more element, under a function that gives the others what they had.   *)
LEMMA SumAdd ==
  ASSUME NEW S, IsFiniteSet(S), NEW x, x \notin S, NEW f, NEW g,
         \A y \in S : g[y] = f[y], \A y \in S \cup {x} : g[y] \in Nat
  PROVE  Sum(g, S \cup {x}) = Sum(f, S) + g[x]
<1>1. IsFiniteSet(S \cup {x}) /\ (S \cup {x}) \ {x} = S
  BY FS_AddElement
<1>2. Sum(g, S \cup {x}) = g[x] + Sum(g, S)
  BY <1>1, SumRemove
<1>3. Sum(g, S) = Sum(f, S) /\ Sum(g, S) \in Nat
  BY SumCongruent, SumType
<1> QED
  BY <1>2, <1>3

(* Fewer elements, a smaller sum.                                            *)
LEMMA SumMonotone ==
  ASSUME NEW B, IsFiniteSet(B), NEW A \in SUBSET B, NEW f, \A x \in B : f[x] \in Nat
  PROVE  Sum(f, A) <= Sum(f, B)
<1> DEFINE Rest == B \ A
           Good == {T \in SUBSET Rest : Sum(f, A) <= Sum(f, A \cup T)}
<1>1. ASSUME NEW T \in SUBSET Rest, \A U \in SUBSET T : U # T => U \in Good
      PROVE  T \in Good
  <2>1. CASE T = {}
    <3>1. A \cup T = A /\ Sum(f, A) \in Nat
      BY <2>1, FS_Subset, SumType
    <3> QED
      BY <3>1
  <2>2. ASSUME NEW x \in T PROVE T \in Good
    <3>1. IsFiniteSet(A \cup T) /\ IsFiniteSet(A) /\ IsFiniteSet(A \cup (T \ {x}))
      BY FS_Subset
    <3>2. (A \cup T) \ {x} = A \cup (T \ {x})
      OBVIOUS
    <3>3. Sum(f, A \cup T) = f[x] + Sum(f, A \cup (T \ {x}))
      BY <3>1, <3>2, SumRemove
    <3>4. Sum(f, A) <= Sum(f, A \cup (T \ {x}))
      BY <1>1
    <3>5. Sum(f, A) \in Nat /\ Sum(f, A \cup (T \ {x})) \in Nat /\ f[x] \in Nat
      BY <3>1, SumType
    <3> QED
      BY <3>3, <3>4, <3>5
  <2> QED
    BY <2>1, <2>2
<1> HIDE DEF Good
<1>2. \A T \in SUBSET Rest : T \in Good
  <2>1. IsFiniteSet(Rest)
    BY FS_Subset
  <2> HIDE DEF Rest
  <2> QED
    BY <1>1, <2>1, SubsetInduction
<1>3. Rest \in Good /\ A \cup Rest = B
  BY <1>2
<1> QED
  BY <1>3 DEF Good

(* A sum over more elements, none of which adds more than q.                 *)
LEMMA SumGrows ==
  ASSUME NEW A, IsFiniteSet(A), NEW T, IsFiniteSet(T), NEW f, \A x \in A \cup T : f[x] \in Nat,
         NEW q \in Nat, \A x \in T : f[x] <= q
  PROVE  Sum(f, A \cup T) <= Sum(f, A) + Cardinality(T) * q
<1> DEFINE Good == {U \in SUBSET T : Sum(f, A \cup U) <= Sum(f, A) + Cardinality(U) * q}
<1>1. ASSUME NEW U \in SUBSET T, \A V \in SUBSET U : V # U => V \in Good
      PROVE  U \in Good
  <2>0. Sum(f, A) \in Nat
    BY SumType
  <2>1. CASE U = {}
    <3>1. A \cup U = A /\ Cardinality(U) = 0
      BY <2>1, FS_EmptySet
    <3> QED
      BY <2>0, <3>1
  <2>2. ASSUME NEW x \in U PROVE U \in Good
    <3> DEFINE V == U \ {x}
    <3>1. IsFiniteSet(U) /\ IsFiniteSet(V) /\ IsFiniteSet(A \cup U) /\ IsFiniteSet(A \cup V)
      BY FS_Subset, FS_Union
    <3>2. V \in Good
      BY <1>1, <2>2
    <3>3. Cardinality(U) = Cardinality(V) + 1 /\ Cardinality(V) \in Nat
      <4>1. Cardinality(V) = Cardinality(U) - 1 /\ Cardinality(U) \in Nat /\ Cardinality(V) \in Nat
        BY <3>1, FS_RemoveElement, FS_CardinalityType
      <4> QED
        BY <4>1
    <3>4. Sum(f, A \cup V) \in Nat /\ f[x] \in Nat /\ f[x] <= q
      BY <3>1, SumType
    <3>5. Sum(f, A \cup U) = Sum(f, A \cup V) \/ Sum(f, A \cup U) = f[x] + Sum(f, A \cup V)
      <4>1. CASE x \in A
        <5>1. A \cup U = A \cup V
          BY <4>1
        <5> QED
          BY <5>1
      <4>2. CASE x \notin A
        <5>1. (A \cup U) \ {x} = A \cup V /\ x \in A \cup U
          BY <4>2
        <5> QED
          BY <3>1, <5>1, SumRemove
      <4> QED
        BY <4>1, <4>2
    <3>6. Sum(f, A \cup V) <= Sum(f, A) + Cardinality(V) * q
      BY <3>2
    <3>7. (Cardinality(V) + 1) * q = Cardinality(V) * q + q /\ Cardinality(V) * q \in Nat
      BY <3>3
    <3> HIDE DEF V
    <3>8. Sum(f, A \cup U) <= Sum(f, A) + Cardinality(U) * q
      BY <2>0, <3>3, <3>4, <3>5, <3>6, <3>7
    <3> QED
      BY <3>8
  <2> QED
    BY <2>1, <2>2
<1> HIDE DEF Good
<1>2. \A U \in SUBSET T : U \in Good
  BY <1>1, SubsetInduction
<1> QED
  BY <1>2 DEF Good

-----------------------------------------------------------------------------
(* A provider that does not call a payment failed before it is (CamPay).     *)
Patient == ErrorStatus = "pending" /\ WaitingStatus = "pending"

(* A worker that initiates a transaction, and one that verifies it.          *)
Initiating(w) == pc[w] \in {"call", "saveRef", "failed"}
Confirming(w) == pc[w] \in {"load", "complete", "total", "revenue", "tally"}
Verifying(w) == pc[w] \in {"ask", "save", "record"} \/ Confirming(w)

(* A row has its vote before the provider knows of it, and its reference     *)
(* after.                                                                    *)
RowsOK == \A t \in Tx :
  /\ tx[t].state # "none" => tx[t].vote \in Vote
  /\ charge[t] # "none" => tx[t].state # "none"
  /\ tx[t].ref => charge[t] # "none"
  /\ tx[t].state = "completed" => tx[t].ref /\ charge[t] = "success"

(* A worker at work has the transaction it works on.                         *)
WorkOK(w) == IF pc[w] = "idle" THEN mem[w] = NoModels
                               ELSE mem[w].tx \in Tx /\ tx[mem[w].tx].state # "none"

(* A transaction is initiated by one worker, and until that ends it has no   *)
(* reference and, before the provider is called, no other worker on it.      *)
InitiationOK(w) == Initiating(w) =>
  /\ ~tx[mem[w].tx].ref /\ mem[w].answer = "pending"
  /\ pc[w] = "call" => charge[mem[w].tx] = "none" /\ tx[mem[w].tx].state = "processing"
  /\ pc[w] = "saveRef" => charge[mem[w].tx] # "none"
  /\ \A u \in Worker : u # w /\ Initiating(u) => mem[u].tx # mem[w].tx

(* A worker that verifies has seen a reference that stays; the answer that   *)
(* it holds was true and is final.                                           *)
VerificationOK(w) ==
  /\ Verifying(w) => /\ charge[mem[w].tx] # "none"
                     /\ mem[w].ref => tx[mem[w].tx].ref
  /\ mem[w].answer = "completed" => mem[w].ref /\ charge[mem[w].tx] = "success"
  /\ Confirming(w) => mem[w].answer = "completed"

(* With a patient provider, a payment called failed was refused.             *)
RefusalOK(w) == Patient /\ mem[w].answer = "failed" => charge[mem[w].tx] = "refused"

(* If moreover no answer is lost, an initiation that fails took nothing.     *)
FreeOK == Patient /\ ~HttpErrors =>
  /\ FailedIsFree
  /\ \A w \in Worker : pc[w] = "failed" => charge[mem[w].tx] = "none"

IInv == /\ TypeOK
        /\ RowsOK
        /\ \A w \in Worker : WorkOK(w) /\ InitiationOK(w) /\ VerificationOK(w) /\ RefusalOK(w)
        /\ FreeOK
        /\ CountedIsPaid

USE QuantityAssumption, ProviderAssumption, FaultAssumption, NoneAssumption
USE DEF counters, Initiating, Confirming, Verifying

-----------------------------------------------------------------------------
(* A worker with nothing in memory.                                          *)
LEMMA NoModelsType == NoModels \in Models /\ NoModels.answer = "pending"
  BY DEF NoModels, Models

(* Before the first request nothing is paid, and nobody works.               *)
LEMMA InitIInv == Init => IInv
<1> SUFFICES ASSUME Init PROVE IInv
  OBVIOUS
<1>1. TypeOK
  BY NoModelsType DEF Init, TypeOK, NoTransaction, Transaction, Steps
<1>2. RowsOK /\ CountedIsPaid /\ FreeOK
  BY DEF Init, RowsOK, CountedIsPaid, FreeOK, FailedIsFree, NoTransaction
<1>3. ASSUME NEW w \in Worker
      PROVE  WorkOK(w) /\ InitiationOK(w) /\ VerificationOK(w) /\ RefusalOK(w)
  BY NoModelsType DEF Init, WorkOK, InitiationOK, VerificationOK, RefusalOK
<1> QED
  BY <1>1, <1>2, <1>3 DEF IInv

(* A step of one worker that writes no vote, transaction or charge: only the *)
(* worker itself, which initiates nothing, is to be looked at.               *)
LEMMA MoveStep ==
  ASSUME IInv, NEW w \in Worker, UNCHANGED <<vote, tx, charge>>, TypeOK',
         \A u \in Worker : u # w => pc'[u] = pc[u] /\ mem'[u] = mem[u],
         ~Initiating(w)', WorkOK(w)', VerificationOK(w)', RefusalOK(w)'
  PROVE  IInv'
<1>1. RowsOK' /\ CountedIsPaid'
  BY DEF IInv, RowsOK, CountedIsPaid
<1>2. FreeOK'
  BY DEF IInv, FreeOK, FailedIsFree
<1>3. ASSUME NEW u \in Worker
      PROVE  (WorkOK(u) /\ InitiationOK(u) /\ VerificationOK(u) /\ RefusalOK(u))'
  <2>1. WorkOK(u)'
    BY DEF IInv, WorkOK
  <2>2. InitiationOK(u)'
    BY DEF IInv, InitiationOK
  <2>3. VerificationOK(u)' /\ RefusalOK(u)'
    BY DEF IInv, VerificationOK, RefusalOK
  <2> QED
    BY <2>1, <2>2, <2>3
<1> QED
  BY <1>1, <1>2, <1>3 DEF IInv

(* A worker that has nothing more to do.                                     *)
LEMMA RestStep ==
  ASSUME IInv, NEW w \in Worker, UNCHANGED <<vote, tx, charge>>, TypeOK', Finish(w)
  PROVE  IInv'
<1>1. /\ pc'[w] = "idle" /\ mem'[w] = NoModels
      /\ \A u \in Worker : u # w => pc'[u] = pc[u] /\ mem'[u] = mem[u]
  BY DEF IInv, TypeOK, Finish, Goto
<1>2. ~Initiating(w)' /\ WorkOK(w)' /\ VerificationOK(w)' /\ RefusalOK(w)'
  BY <1>1, NoModelsType DEF WorkOK, VerificationOK, RefusalOK
<1> QED
  BY <1>1, <1>2, MoveStep

(* A verification is over: its webhook is still to be recorded, or nothing.  *)
LEMMA ReturnStep ==
  ASSUME IInv, NEW w \in Worker, UNCHANGED <<vote, tx, charge>>, TypeOK', Verifying(w), Return(w)
  PROVE  IInv'
<1>1. CASE ~mem[w].webhook
  BY <1>1, RestStep DEF Return
<1>2. CASE mem[w].webhook
  <2>1. /\ pc'[w] = "record" /\ mem'[w] = mem[w]
        /\ \A u \in Worker : u # w => pc'[u] = pc[u] /\ mem'[u] = mem[u]
    BY <1>2 DEF IInv, TypeOK, Return, Goto
  <2>2. ~Initiating(w)' /\ WorkOK(w)' /\ VerificationOK(w)' /\ RefusalOK(w)'
    BY <2>1 DEF IInv, WorkOK, VerificationOK, RefusalOK
  <2> QED
    BY <2>1, <2>2, MoveStep
<1> QED
  BY <1>1, <1>2

-----------------------------------------------------------------------------
(* A new transaction: its worker is the only one on it.                      *)
LEMMA InitiateStep ==
  ASSUME IInv, NEW w \in Worker, Initiate(w)
  PROVE  IInv'
<1>1. PICK v \in Vote, t \in Tx :
        /\ tx[t].state = "none"
        /\ tx' = [tx EXCEPT ![t] = [state |-> "processing", vote |-> v, ref |-> FALSE]]
        /\ mem' = [mem EXCEPT ![w].tx = t, ![w].state = "processing"]
  BY DEF Initiate
<1>2. /\ pc[w] = "idle" /\ pc' = [pc EXCEPT ![w] = "call"]
      /\ UNCHANGED <<vote, charge, hooked, total, revenue, tally>>
      /\ mem[w] = NoModels /\ charge[t] = "none" /\ ~tx[t].ref
  BY <1>1 DEF Initiate, Goto, IInv, RowsOK, WorkOK, TypeOK
<1>3. TypeOK'
  <2>1. tx' \in [Tx -> Transaction]
    BY <1>1 DEF IInv, TypeOK, Transaction
  <2>2. mem'[w] \in Models
    <3>1. mem'[w] = [mem[w] EXCEPT !.tx = t, !.state = "processing"]
      BY <1>1 DEF IInv, TypeOK
    <3>2. mem[w] \in Models
      BY DEF IInv, TypeOK
    <3> QED
      BY <3>1, <3>2 DEF Models
  <2>3. mem' \in [Worker -> Models]
    BY <1>1, <2>2 DEF IInv, TypeOK
  <2> QED
    BY <1>2, <2>1, <2>3 DEF IInv, TypeOK, Steps
<1>4. RowsOK' /\ CountedIsPaid'
  BY <1>1, <1>2 DEF IInv, TypeOK, RowsOK, CountedIsPaid, Transaction
<1>5. FreeOK'
  BY <1>1, <1>2 DEF IInv, TypeOK, FreeOK, FailedIsFree
<1>6. ASSUME NEW u \in Worker
      PROVE  (WorkOK(u) /\ InitiationOK(u) /\ VerificationOK(u) /\ RefusalOK(u))'
  <2>1. CASE u = w
    <3>1. /\ pc'[u] = "call" /\ mem'[u].tx = t /\ mem'[u].answer = "pending"
          /\ tx'[t].state = "processing" /\ ~tx'[t].ref /\ charge'[t] = "none"
      BY <1>1, <1>2, <2>1, NoModelsType DEF IInv, TypeOK, Models
    <3>2. \A x \in Worker : x # u /\ Initiating(x)' => mem'[x].tx # t
      BY <1>1, <1>2, <2>1 DEF IInv, TypeOK, WorkOK
    <3> QED
      BY <3>1, <3>2 DEF WorkOK, InitiationOK, VerificationOK, RefusalOK
  <2>2. CASE u # w
    <3>1. pc'[u] = pc[u] /\ mem'[u] = mem[u]
      BY <1>1, <1>2, <2>2 DEF IInv, TypeOK
    <3>2. pc[u] # "idle" => mem[u].tx # t /\ tx'[mem[u].tx] = tx[mem[u].tx]
      BY <1>1 DEF IInv, TypeOK, WorkOK
    <3>3. WorkOK(u)' /\ VerificationOK(u)' /\ RefusalOK(u)'
      BY <1>2, <3>1, <3>2 DEF IInv, WorkOK, VerificationOK, RefusalOK
    <3>4. InitiationOK(u)'
      BY <1>1, <1>2, <3>1, <3>2 DEF IInv, TypeOK, Models, InitiationOK
    <3> QED
      BY <3>3, <3>4
  <2> QED
    BY <2>1, <2>2
<1> QED
  BY <1>3, <1>4, <1>5, <1>6 DEF IInv

(* The call to the provider: no other worker has its transaction in hand.    *)
LEMMA CallStep ==
  ASSUME IInv, NEW w \in Worker, CallProvider(w)
  PROVE  IInv'
<1>1. /\ pc[w] = "call" /\ mem' = mem /\ tx' = tx
      /\ UNCHANGED <<vote, hooked, total, revenue, tally>>
      /\ mem[w].tx \in Tx /\ charge[mem[w].tx] = "none" /\ tx[mem[w].tx].state = "processing"
  BY DEF CallProvider, IInv, WorkOK, InitiationOK
<1>2. \/ charge' = [charge EXCEPT ![mem[w].tx] = "waiting"] /\ pc' = [pc EXCEPT ![w] = "saveRef"]
      \/ /\ charge' = [charge EXCEPT ![mem[w].tx] = "waiting"] /\ pc' = [pc EXCEPT ![w] = "failed"]
         /\ HttpErrors
      \/ charge' = charge /\ pc' = [pc EXCEPT ![w] = "failed"]
  BY DEF CallProvider, Goto
<1>3. TypeOK'
  BY <1>1, <1>2 DEF IInv, TypeOK, Steps
<1>4. RowsOK' /\ CountedIsPaid'
  BY <1>1, <1>2 DEF IInv, TypeOK, RowsOK, CountedIsPaid
<1>5. FreeOK'
  <2> SUFFICES ASSUME Patient, ~HttpErrors PROVE FreeOK'
    BY DEF FreeOK
  <2>1. FailedIsFree'
    BY <1>1, <1>2 DEF IInv, TypeOK, FreeOK, FailedIsFree
  <2>2. ASSUME NEW u \in Worker, pc'[u] = "failed" PROVE charge'[mem'[u].tx] = "none"
    BY <1>1, <1>2, <2>2 DEF IInv, TypeOK, FreeOK, InitiationOK, WorkOK
  <2> QED
    BY <2>1, <2>2 DEF FreeOK
<1>6. ASSUME NEW u \in Worker
      PROVE  (WorkOK(u) /\ InitiationOK(u) /\ VerificationOK(u) /\ RefusalOK(u))'
  <2>1. WorkOK(u)'
    BY <1>1, <1>2 DEF IInv, TypeOK, WorkOK
  <2>2. InitiationOK(u)'
    BY <1>1, <1>2 DEF IInv, TypeOK, WorkOK, InitiationOK
  <2>3. VerificationOK(u)' /\ RefusalOK(u)'
    <3>1. CASE u = w
      BY <1>1, <1>2, <3>1 DEF IInv, TypeOK, WorkOK, VerificationOK, RefusalOK, InitiationOK
    <3>2. CASE u # w
      <4>1. pc'[u] = pc[u] /\ mem'[u] = mem[u]
        BY <1>1, <1>2, <3>2 DEF IInv, TypeOK
      <4>2. mem[u].tx = mem[w].tx => ~Verifying(u) /\ mem[u].answer = "pending"
        BY <1>1, NoModelsType DEF IInv, TypeOK, Steps, WorkOK, VerificationOK, InitiationOK
      <4>3. mem[u].tx \in Tx \/ (~Verifying(u) /\ mem[u].answer = "pending")
        BY NoModelsType DEF IInv, WorkOK
      <4>4. CASE mem[u].tx \in Tx /\ mem[u].tx # mem[w].tx
        <5>1. charge'[mem[u].tx] = charge[mem[u].tx]
          BY <1>2, <4>4 DEF IInv, TypeOK
        <5> QED
          BY <1>1, <4>1, <5>1 DEF IInv, VerificationOK, RefusalOK
      <4> QED
        BY <1>1, <4>1, <4>2, <4>3, <4>4 DEF VerificationOK, RefusalOK
    <3> QED
      BY <3>1, <3>2
  <2> QED
    BY <2>1, <2>2, <2>3
<1> QED
  BY <1>3, <1>4, <1>5, <1>6 DEF IInv

(* The end of an initiation: the reference is saved, or the transaction has  *)
(* failed.                                                                   *)
LEMMA InitiatedStep ==
  ASSUME IInv, NEW w \in Worker, SaveReference(w) \/ FailInitiation(w)
  PROVE  IInv'
<1> DEFINE t == mem[w].tx
<1>1. /\ pc' = [pc EXCEPT ![w] = "idle"] /\ mem' = [mem EXCEPT ![w] = NoModels]
      /\ UNCHANGED <<vote, charge, hooked, total, revenue, tally>>
      /\ t \in Tx /\ tx[t].state # "none" /\ ~tx[t].ref
  BY DEF SaveReference, FailInitiation, Finish, Goto, IInv, WorkOK, InitiationOK
<1>2. \/ pc[w] = "saveRef" /\ tx' = [tx EXCEPT ![t].ref = TRUE] /\ charge[t] # "none"
      \/ pc[w] = "failed" /\ tx' = [tx EXCEPT ![t].state = "failed"]
  BY DEF SaveReference, FailInitiation, IInv, InitiationOK
<1>3. TypeOK'
  <2>1. tx'[t] \in Transaction
    <3>1. tx \in [Tx -> Transaction] /\ t \in Tx
      BY <1>1 DEF IInv, TypeOK
    <3>2. /\ [tx[t] EXCEPT !.ref = TRUE] \in Transaction
          /\ [tx[t] EXCEPT !.state = "failed"] \in Transaction
      BY <3>1 DEF Transaction
    <3>3. tx'[t] = [tx[t] EXCEPT !.ref = TRUE] \/ tx'[t] = [tx[t] EXCEPT !.state = "failed"]
      BY <1>2, <3>1
    <3> QED
      BY <3>2, <3>3
  <2>2. tx' \in [Tx -> Transaction]
    BY <1>1, <1>2, <2>1 DEF IInv, TypeOK
  <2> QED
    BY <1>1, <2>2, NoModelsType DEF IInv, TypeOK, Steps
<1>4. RowsOK' /\ CountedIsPaid'
  BY <1>1, <1>2, SMTT(30) DEF IInv, TypeOK, Transaction, RowsOK, CountedIsPaid
<1>5. FreeOK'
  <2> SUFFICES ASSUME Patient, ~HttpErrors PROVE FreeOK'
    BY DEF FreeOK
  <2>1. tx \in [Tx -> Transaction]
    BY DEF IInv, TypeOK
  <2>2. ASSUME NEW x \in Tx, tx'[x].state = "failed" PROVE charge'[x] \in {"none", "refused"}
    <3>1. tx[x].state = "failed" \/ (x = t /\ pc[w] = "failed")
      BY <1>1, <1>2, <2>1, <2>2 DEF Transaction
    <3> QED
      BY <1>1, <3>1 DEF IInv, FreeOK, FailedIsFree
  <2>3. ASSUME NEW u \in Worker, pc'[u] = "failed" PROVE charge'[mem'[u].tx] = "none"
    <3>1. pc[u] = "failed" /\ mem'[u] = mem[u]
      BY <1>1, <2>3 DEF IInv, TypeOK
    <3> QED
      BY <1>1, <3>1 DEF IInv, FreeOK
  <2> QED
    BY <2>2, <2>3 DEF FreeOK, FailedIsFree
<1>6. ASSUME NEW u \in Worker
      PROVE  (WorkOK(u) /\ InitiationOK(u) /\ VerificationOK(u) /\ RefusalOK(u))'
  <2>1. CASE u = w
    BY <1>1, <2>1, NoModelsType DEF IInv, TypeOK, WorkOK, InitiationOK, VerificationOK,
         RefusalOK
  <2>2. CASE u # w
    <3>1. pc'[u] = pc[u] /\ mem'[u] = mem[u]
      BY <1>1, <2>2 DEF IInv, TypeOK
    <3>2. WorkOK(u)'
      BY <1>1, <1>2, <3>1 DEF IInv, TypeOK, Transaction, WorkOK
    <3>3. InitiationOK(u)'
      <4>1. Initiating(u) => mem[u].tx # t
        BY <1>2, <2>2 DEF IInv, InitiationOK
      <4>2. Initiating(u) => tx'[mem[u].tx] = tx[mem[u].tx]
        BY <1>2, <4>1 DEF IInv, TypeOK, WorkOK
      <4> QED
        BY <1>1, <3>1, <4>2 DEF IInv, TypeOK, InitiationOK
    <3>4. VerificationOK(u)' /\ RefusalOK(u)'
      BY <1>1, <1>2, <3>1 DEF IInv, TypeOK, Transaction, WorkOK, VerificationOK, RefusalOK
    <3> QED
      BY <3>2, <3>3, <3>4
  <2> QED
    BY <2>1, <2>2
<1> QED
  BY <1>3, <1>4, <1>5, <1>6 DEF IInv

(* The customer decides, once.                                               *)
LEMMA SettleStep ==
  ASSUME IInv, NEW t \in Tx, Settle(t)
  PROVE  IInv'
<1>1. /\ UNCHANGED <<vote, tx, hooked, total, revenue, tally, pc, mem>>
      /\ charge[t] = "waiting"
      /\ \E outcome \in {"success", "refused"} : charge' = [charge EXCEPT ![t] = outcome]
  BY DEF Settle
<1>2. TypeOK'
  BY <1>1 DEF IInv, TypeOK
<1>3. RowsOK' /\ CountedIsPaid'
  BY <1>1 DEF IInv, TypeOK, RowsOK, CountedIsPaid
<1>4. FreeOK'
  BY <1>1 DEF IInv, TypeOK, FreeOK, FailedIsFree, WorkOK
<1>5. ASSUME NEW u \in Worker
      PROVE  (WorkOK(u) /\ InitiationOK(u) /\ VerificationOK(u) /\ RefusalOK(u))'
  BY <1>1, NoModelsType DEF IInv, TypeOK, WorkOK, InitiationOK, VerificationOK, RefusalOK
<1> QED
  BY <1>2, <1>3, <1>4, <1>5 DEF IInv

-----------------------------------------------------------------------------
(* A verification begins: the provider knows of the transaction.             *)
LEMMA StartStep ==
  ASSUME IInv, NEW w \in Worker, NEW t \in Tx, StartVerify(w, t) \/ StartWebhook(w, t)
  PROVE  IInv'
<1>1. /\ UNCHANGED <<vote, tx, charge, hooked, total, revenue, tally>>
      /\ mem[w] = NoModels
      /\ charge[t] # "none" /\ tx[t].state # "none"
  BY DEF StartVerify, StartWebhook, IInv, RowsOK, WorkOK
<1>2. /\ pc'[w] \in {"ask", "record"} /\ pc' = [pc EXCEPT ![w] = pc'[w]]
      /\ mem' = [mem EXCEPT ![w] = mem'[w]]
      /\ mem'[w] \in Models /\ mem'[w].tx = t /\ mem'[w].answer = "pending"
      /\ mem'[w].ref = tx[t].ref
  <2>1. CASE StartVerify(w, t)
    BY <1>1, <2>1, NoModelsType DEF StartVerify, Goto, IInv, TypeOK, Models, Transaction
  <2>2. CASE StartWebhook(w, t)
    BY <2>2 DEF StartWebhook, Goto, IInv, TypeOK, Models, Transaction
  <2> QED
    BY <2>1, <2>2
<1>3. TypeOK'
  BY <1>1, <1>2 DEF IInv, TypeOK, Steps
<1>4. ~Initiating(w)' /\ WorkOK(w)' /\ VerificationOK(w)' /\ RefusalOK(w)'
  BY <1>1, <1>2 DEF WorkOK, VerificationOK, RefusalOK
<1>5. \A u \in Worker : u # w => pc'[u] = pc[u] /\ mem'[u] = mem[u]
  BY <1>2 DEF IInv, TypeOK
<1> QED
  BY <1>1, <1>3, <1>4, <1>5, MoveStep

(* The provider answers: what it says of a settled payment stays true.       *)
LEMMA AskStep ==
  ASSUME IInv, NEW w \in Worker, Ask(w)
  PROVE  IInv'
<1> DEFINE t == mem[w].tx
<1>1. /\ pc[w] = "ask" /\ pc' = [pc EXCEPT ![w] = "save"]
      /\ UNCHANGED <<vote, tx, charge, hooked, total, revenue, tally>>
      /\ t \in Tx /\ tx[t].state # "none" /\ charge[t] # "none"
  BY DEF Ask, Goto, IInv, WorkOK, VerificationOK
<1>2. PICK answer \in {"pending", "completed", "failed"} :
        /\ mem' = [mem EXCEPT ![w].answer = answer]
        /\ answer = "completed" => mem[w].ref /\ charge[t] = "success"
        /\ Patient /\ answer = "failed" => charge[t] = "refused"
  <2>1. PICK answer \in (IF mem[w].ref THEN {ProviderStatus(t)} ELSE {})
                        \cup (IF HttpErrors \/ ~mem[w].ref THEN {ErrorStatus} ELSE {}) :
          mem' = [mem EXCEPT ![w].answer = answer]
    BY DEF Ask
  <2>2. \/ answer = ErrorStatus
        \/ mem[w].ref /\ answer = ProviderStatus(t)
    BY <2>1
  <2>3. /\ answer \in {"pending", "completed", "failed"}
        /\ answer = "completed" => mem[w].ref /\ charge[t] = "success"
        /\ Patient /\ answer = "failed" => charge[t] = "refused"
    BY <2>2 DEF ProviderStatus, Patient
  <2> QED
    BY <2>1, <2>3
<1>3. /\ mem'[w] \in Models /\ mem'[w].tx = t /\ mem'[w].ref = mem[w].ref
      /\ mem'[w].answer = answer /\ mem' = [mem EXCEPT ![w] = mem'[w]]
  BY <1>2 DEF IInv, TypeOK, Models
<1>4. TypeOK'
  BY <1>1, <1>3 DEF IInv, TypeOK, Steps
<1>5. ~Initiating(w)' /\ WorkOK(w)' /\ VerificationOK(w)' /\ RefusalOK(w)'
  BY <1>1, <1>2, <1>3 DEF IInv, TypeOK, WorkOK, VerificationOK, RefusalOK
<1>6. \A u \in Worker : u # w => pc'[u] = pc[u] /\ mem'[u] = mem[u]
  BY <1>1, <1>3 DEF IInv, TypeOK
<1> QED
  BY <1>1, <1>4, <1>5, <1>6, MoveStep

(* What a save writes: nothing, or a final status that the provider gave.    *)
LEMMA WritesAnswer ==
  ASSUME IInv, NEW w \in Worker, SaveTransaction(w)
  PROVE  /\ mem[w].tx \in Tx /\ charge[mem[w].tx] # "none"
         /\ \/ tx' = tx
            \/ /\ tx' = [tx EXCEPT ![mem[w].tx].state = "completed"]
               /\ tx[mem[w].tx].ref /\ charge[mem[w].tx] = "success"
            \/ /\ tx' = [tx EXCEPT ![mem[w].tx].state = "failed"]
               /\ Patient => charge[mem[w].tx] = "refused"
<1>1. /\ pc[w] = "save" /\ mem[w].tx \in Tx /\ charge[mem[w].tx] # "none"
      /\ mem[w].answer \in {"pending", "completed", "failed"}
  BY DEF SaveTransaction, IInv, TypeOK, Models, WorkOK, VerificationOK
<1>2. mem[w].answer = "completed" => tx[mem[w].tx].ref /\ charge[mem[w].tx] = "success"
  BY <1>1 DEF IInv, VerificationOK
<1>3. Patient /\ mem[w].answer = "failed" => charge[mem[w].tx] = "refused"
  BY DEF IInv, RefusalOK
<1> QED
  BY <1>1, <1>2, <1>3 DEF SaveTransaction, NewState

(* The status is saved, of a row that no worker initiates any more.          *)
LEMMA SaveStep ==
  ASSUME IInv, NEW w \in Worker, SaveTransaction(w)
  PROVE  IInv'
<1> DEFINE t == mem[w].tx
<1>1. /\ pc[w] = "save" /\ t \in Tx /\ tx[t].state # "none" /\ charge[t] # "none"
      /\ UNCHANGED <<vote, charge, hooked, total, revenue, tally>>
  BY DEF SaveTransaction, IInv, WorkOK, VerificationOK
<1>2. /\ tx'[t].state # "none" /\ tx'[t].vote = tx[t].vote /\ tx'[t].ref = tx[t].ref
      /\ tx' = [tx EXCEPT ![t] = tx'[t]] /\ tx'[t] \in Transaction
      /\ tx'[t].state = "completed" => tx[t].ref /\ charge[t] = "success"
      /\ Patient /\ ~HttpErrors /\ tx'[t].state = "failed" => charge[t] \in {"none", "refused"}
  <2>1. tx \in [Tx -> Transaction]
    BY DEF IInv, TypeOK
  <2>2. CASE tx' = tx
    <3>1. tx[t].state = "completed" => tx[t].ref /\ charge[t] = "success"
      BY <1>1 DEF IInv, RowsOK
    <3>2. Patient /\ ~HttpErrors /\ tx[t].state = "failed" => charge[t] \in {"none", "refused"}
      BY <1>1 DEF IInv, FreeOK, FailedIsFree
    <3> QED
      BY <1>1, <2>1, <2>2, <3>1, <3>2
  <2>3. CASE /\ tx' = [tx EXCEPT ![t].state = "completed"]
             /\ tx[t].ref /\ charge[t] = "success"
    BY <1>1, <2>1, <2>3 DEF Transaction
  <2>4. CASE /\ tx' = [tx EXCEPT ![t].state = "failed"]
             /\ Patient => charge[t] = "refused"
    BY <1>1, <2>1, <2>4 DEF Transaction
  <2> QED
    BY <2>2, <2>3, <2>4, WritesAnswer
<1>3. \/ /\ mem[w].answer = "completed"
         /\ pc' = [pc EXCEPT ![w] = "load"] /\ mem' = mem
      \/ /\ mem[w].webhook
         /\ pc' = [pc EXCEPT ![w] = "record"] /\ mem' = mem
      \/ pc' = [pc EXCEPT ![w] = "idle"] /\ mem' = [mem EXCEPT ![w] = NoModels]
  BY DEF SaveTransaction, Return, Finish, Goto
<1>4. TypeOK'
  <2>1. tx' \in [Tx -> Transaction]
    BY <1>2 DEF IInv, TypeOK
  <2> QED
    BY <1>1, <1>3, <2>1, NoModelsType DEF IInv, TypeOK, Steps
<1>5. RowsOK' /\ CountedIsPaid'
  BY <1>1, <1>2 DEF IInv, TypeOK, RowsOK, CountedIsPaid
<1>6. FreeOK'
  <2>1. FailedIsFree \/ ~(Patient /\ ~HttpErrors) => (Patient /\ ~HttpErrors => FailedIsFree')
    BY <1>1, <1>2 DEF IInv, TypeOK, FailedIsFree
  <2>2. \A u \in Worker : pc'[u] = "failed" => pc[u] = "failed" /\ mem'[u] = mem[u]
    BY <1>1, <1>3 DEF IInv, TypeOK
  <2> QED
    BY <1>1, <2>1, <2>2 DEF IInv, FreeOK
<1>7. ASSUME NEW u \in Worker
      PROVE  (WorkOK(u) /\ InitiationOK(u) /\ VerificationOK(u) /\ RefusalOK(u))'
  <2>1. CASE u = w
    <3>1. ~Initiating(w)' /\ WorkOK(w)'
      BY <1>1, <1>2, <1>3 DEF IInv, TypeOK, WorkOK
    <3>2. VerificationOK(w)' /\ RefusalOK(w)'
      BY <1>1, <1>2, <1>3, NoModelsType DEF IInv, TypeOK, VerificationOK, RefusalOK
    <3> QED
      BY <2>1, <3>1, <3>2 DEF InitiationOK
  <2>2. CASE u # w
    <3>1. pc'[u] = pc[u] /\ mem'[u] = mem[u]
      BY <1>3, <2>2 DEF IInv, TypeOK
    <3>2. WorkOK(u)'
      BY <1>2, <3>1 DEF IInv, TypeOK, WorkOK
    <3>3. InitiationOK(u)'
      <4>1. \A x \in Worker : Initiating(x)' => Initiating(x) /\ mem'[x] = mem[x]
        BY <1>1, <1>3 DEF IInv, TypeOK
      <4>2. pc[u] = "call" => mem[u].tx # t
        BY <1>1 DEF IInv, InitiationOK
      <4> QED
        BY <1>1, <1>2, <3>1, <4>1, <4>2 DEF IInv, TypeOK, WorkOK, InitiationOK
    <3>4. VerificationOK(u)' /\ RefusalOK(u)'
      BY <1>1, <1>2, <3>1 DEF IInv, TypeOK, WorkOK, VerificationOK, RefusalOK
    <3> QED
      BY <3>2, <3>3, <3>4
  <2> QED
    BY <2>1, <2>2
<1> QED
  BY <1>4, <1>5, <1>6, <1>7 DEF IInv

(* A worker that may complete the vote of its transaction.                   *)
LEMMA ConfirmingHasVote ==
  ASSUME IInv, NEW w \in Worker, Confirming(w)
  PROVE  /\ mem[w].tx \in Tx /\ VoteOf(w) \in Vote /\ charge[mem[w].tx] = "success"
         /\ Quantity[VoteOf(w)] \in Nat
  BY DEF IInv, RowsOK, WorkOK, VerificationOK, VoteOf

(* The vote is counted, and was paid with this very transaction.             *)
LEMMA CompleteStep ==
  ASSUME IInv, NEW w \in Worker, CompleteVote(w)
  PROVE  IInv'
<1>1. /\ pc[w] = "complete" /\ pc' = [pc EXCEPT ![w] = "total"]
      /\ vote' = [vote EXCEPT ![VoteOf(w)] = "completed"]
      /\ UNCHANGED <<tx, charge, hooked, total, revenue, tally, mem>>
  BY DEF CompleteVote, Goto
<1>2. TypeOK'
  BY <1>1, ConfirmingHasVote DEF IInv, TypeOK, Steps
<1>3. CountedIsPaid'
  BY <1>1, ConfirmingHasVote DEF IInv, TypeOK, CountedIsPaid, VoteOf
<1>4. RowsOK' /\ FreeOK'
  BY <1>1 DEF IInv, TypeOK, RowsOK, FreeOK, FailedIsFree
<1>5. ASSUME NEW u \in Worker
      PROVE  (WorkOK(u) /\ InitiationOK(u) /\ VerificationOK(u) /\ RefusalOK(u))'
  BY <1>1 DEF IInv, TypeOK, WorkOK, InitiationOK, VerificationOK, RefusalOK
<1> QED
  BY <1>2, <1>3, <1>4, <1>5 DEF IInv

(* The model of the vote is loaded, or the counters incremented.             *)
LEMMA CountStep ==
  ASSUME IInv, NEW w \in Worker, LoadVote(w) \/ IncrementTotal(w) \/ IncrementRevenue(w)
  PROVE  IInv'
<1>1. Confirming(w) /\ UNCHANGED <<vote, tx, charge, hooked, tally>>
  BY DEF LoadVote, IncrementTotal, IncrementRevenue
<1>2. total' \in Nat /\ revenue' \in Nat
  BY <1>1, ConfirmingHasVote DEF IInv, TypeOK, LoadVote, IncrementTotal, IncrementRevenue
<1>3. CASE LoadVote(w) /\ vote[VoteOf(w)] = "completed"
  <2>1. TypeOK'
    BY <1>1, <1>2, <1>3, NoModelsType DEF IInv, TypeOK, LoadVote, Return, Finish, Goto, Steps
  <2> QED
    BY <1>1, <1>3, <2>1, ReturnStep DEF LoadVote
<1>4. CASE ~(LoadVote(w) /\ vote[VoteOf(w)] = "completed")
  <2>1. mem' = mem /\ \E step \in {"complete", "revenue", "tally"} : pc' = [pc EXCEPT ![w] = step]
    BY <1>4 DEF LoadVote, IncrementTotal, IncrementRevenue, Goto
  <2>2. TypeOK'
    BY <1>1, <1>2, <2>1 DEF IInv, TypeOK, Steps
  <2>3. ~Initiating(w)' /\ WorkOK(w)' /\ VerificationOK(w)' /\ RefusalOK(w)'
    BY <1>1, <2>1 DEF IInv, TypeOK, WorkOK, VerificationOK, RefusalOK
  <2>4. \A u \in Worker : u # w => pc'[u] = pc[u] /\ mem'[u] = mem[u]
    BY <2>1 DEF IInv, TypeOK
  <2> QED
    BY <1>1, <2>2, <2>3, <2>4, MoveStep
<1> QED
  BY <1>3, <1>4

(* A worker ends: with its last increment, its webhook, or its life.         *)
LEMMA EndStep ==
  ASSUME IInv, NEW w \in Worker, IncrementCandidates(w) \/ RecordWebhook(w) \/ Crash(w)
  PROVE  IInv'
<1>1. CASE IncrementCandidates(w)
  <2>1. Confirming(w) /\ tally' \in Nat
    BY <1>1, ConfirmingHasVote DEF IInv, TypeOK, IncrementCandidates
  <2>2. TypeOK'
    BY <1>1, <2>1, NoModelsType
    DEF IInv, TypeOK, IncrementCandidates, Return, Finish, Goto, Steps
  <2> QED
    BY <1>1, <2>1, <2>2, ReturnStep DEF IncrementCandidates
<1>2. CASE RecordWebhook(w)
  <2>1. TypeOK'
    BY <1>2, NoModelsType DEF IInv, TypeOK, RecordWebhook, WorkOK, Finish, Goto, Steps
  <2> QED
    BY <1>2, <2>1, RestStep DEF RecordWebhook
<1>3. CASE Crash(w)
  <2>1. TypeOK'
    BY <1>3, NoModelsType DEF IInv, TypeOK, Crash, Finish, Goto, Steps
  <2> QED
    BY <1>3, <2>1, RestStep DEF Crash
<1> QED
  BY <1>1, <1>2, <1>3

-----------------------------------------------------------------------------
(* Every step keeps the invariant.                                           *)
LEMMA NextIInv == IInv /\ [Next]_vars => IInv'
<1> SUFFICES ASSUME IInv, [Next]_vars PROVE IInv'
  OBVIOUS
<1>1. ASSUME NEW w \in Worker, Initiate(w) \/ Execute(w) \/ Crash(w) PROVE IInv'
  BY <1>1, InitiateStep, CallStep, InitiatedStep, AskStep, SaveStep, CompleteStep, CountStep,
     EndStep DEF Execute
<1>2. ASSUME NEW w \in Worker, NEW t \in Tx, StartVerify(w, t) \/ StartWebhook(w, t) PROVE IInv'
  BY <1>2, StartStep
<1>3. ASSUME NEW t \in Tx, Settle(t) PROVE IInv'
  BY <1>3, SettleStep
<1>4. CASE UNCHANGED vars
  <2>1. TypeOK' /\ RowsOK' /\ FreeOK' /\ CountedIsPaid'
    BY <1>4 DEF IInv, vars, TypeOK, RowsOK, FreeOK, FailedIsFree, CountedIsPaid
  <2>2. ASSUME NEW u \in Worker
        PROVE  (WorkOK(u) /\ InitiationOK(u) /\ VerificationOK(u) /\ RefusalOK(u))'
    BY <1>4 DEF IInv, vars, WorkOK, InitiationOK, VerificationOK, RefusalOK
  <2> QED
    BY <2>1, <2>2 DEF IInv
<1> QED
  BY <1>1, <1>2, <1>3, <1>4 DEF Next

(* The invariant holds of every behaviour.                                   *)
LEMMA Invariance == Spec => []IInv
  BY InitIInv, NextIInv, PTL DEF Spec

(* Every variable keeps its type.                                            *)
THEOREM TypeCorrect == Spec => []TypeOK
<1>1. IInv => TypeOK
  BY DEF IInv
<1> QED
  BY <1>1, Invariance, PTL

(* Whatever provider, and whatever is lost, repeated or dies: a vote that is *)
(* counted is one for which the provider has taken the money.                *)
THEOREM CountedVotesArePaid == Spec => []CountedIsPaid
<1>1. IInv => CountedIsPaid
  BY DEF IInv
<1> QED
  BY <1>1, Invariance, PTL

(* With a patient provider a completed transaction stays completed: neither  *)
(* a worker that still initiates it, nor a verification that was answered    *)
(* before, makes it failed.                                                  *)
THEOREM CompletedStaysCompleted == ASSUME Patient PROVE Spec => CompletedIsFinal
<1>1. IInv /\ [Next]_vars => [\A t \in Tx : tx[t].state = "completed" => tx'[t].state = "completed"]_vars
  <2> SUFFICES ASSUME IInv, Next, NEW t \in Tx, tx[t].state = "completed"
               PROVE  tx'[t].state = "completed"
    OBVIOUS
  <2>1. tx[t].ref /\ charge[t] = "success"
    BY DEF IInv, RowsOK
  <2>2. ASSUME NEW w \in Worker, Initiate(w) PROVE tx'[t].state = "completed"
    BY <2>2 DEF Initiate, IInv, TypeOK
  <2>3. ASSUME NEW w \in Worker, SaveReference(w) PROVE tx'[t].state = "completed"
    <3>1. tx \in [Tx -> Transaction] /\ tx' = [tx EXCEPT ![mem[w].tx].ref = TRUE]
      BY <2>3 DEF SaveReference, IInv, TypeOK
    <3>2. CASE t = mem[w].tx
      BY <3>1, <3>2 DEF Transaction
    <3>3. CASE t # mem[w].tx
      BY <3>1, <3>3
    <3> QED
      BY <3>2, <3>3
  <2>4. ASSUME NEW w \in Worker, FailInitiation(w) PROVE tx'[t].state = "completed"
    BY <2>1, <2>4 DEF FailInitiation, IInv, TypeOK, InitiationOK
  <2>5. ASSUME NEW w \in Worker, SaveTransaction(w) PROVE tx'[t].state = "completed"
    <3>1. tx \in [Tx -> Transaction] /\ mem[w].tx \in Tx
      BY <2>5, WritesAnswer DEF IInv, TypeOK
    <3>2. \/ tx' = tx
          \/ tx' = [tx EXCEPT ![mem[w].tx].state = "completed"]
          \/ tx' = [tx EXCEPT ![mem[w].tx].state = "failed"] /\ charge[mem[w].tx] = "refused"
      BY <2>5, WritesAnswer
    <3>3. CASE t = mem[w].tx
      BY <2>1, <3>1, <3>2, <3>3 DEF Transaction
    <3>4. CASE t # mem[w].tx
      BY <3>1, <3>2, <3>4
    <3> QED
      BY <3>3, <3>4
  <2>6. ASSUME NEW w \in Worker,
               \/ CallProvider(w) \/ Ask(w) \/ LoadVote(w) \/ CompleteVote(w)
               \/ IncrementTotal(w) \/ IncrementRevenue(w) \/ IncrementCandidates(w)
               \/ RecordWebhook(w) \/ Crash(w)
        PROVE  tx'[t].state = "completed"
    BY <2>6 DEF CallProvider, Ask, LoadVote, CompleteVote, IncrementTotal, IncrementRevenue,
                IncrementCandidates, RecordWebhook, Crash
  <2>7. ASSUME NEW w \in Worker, NEW x \in Tx,
               StartVerify(w, x) \/ StartWebhook(w, x)
        PROVE  tx'[t].state = "completed"
    BY <2>7 DEF StartVerify, StartWebhook
  <2>8. ASSUME NEW x \in Tx, Settle(x) PROVE tx'[t].state = "completed"
    BY <2>8 DEF Settle
  <2> QED
    BY <2>2, <2>3, <2>4, <2>5, <2>6, <2>7, <2>8 DEF Next, Execute
<1> QED
  BY <1>1, Invariance, PTL DEF Spec, CompletedIsFinal

(* With a patient provider whose answers are not lost, a transaction shown   *)
(* as failed took no money.                                                  *)
THEOREM FailedTransactionsAreFree == ASSUME Patient, ~HttpErrors PROVE Spec => []FailedIsFree
<1>1. IInv => FailedIsFree
  BY DEF IInv, FreeOK
<1> QED
  BY <1>1, Invariance, PTL

-----------------------------------------------------------------------------
(* The workers that have completed a vote, by what they still have to count, *)
(* and the voices that each of them counts.                                  *)
Untotalled == {w \in Worker : pc[w] = "total"}
Unearned == {w \in Worker : pc[w] \in {"total", "revenue"}}
Untallied == {w \in Worker : pc[w] = "tally"}
Bought == [w \in Worker |-> Quantity[VoteOf(w)]]

(* What the counters lack is in the hands of workers.                        *)
CountingOK ==
  /\ revenue = tally + Sum(Bought, Untallied)
  /\ total + Cardinality(Untotalled) >= Cardinality(Completed)
  /\ revenue + Sum(Bought, Unearned) >= Sum(Quantity, Completed)

(* They are finitely many, and what they count is a number.                  *)
LEMMA CountingTypes ==
  ASSUME IInv
  PROVE  /\ IsFiniteSet(Untotalled) /\ IsFiniteSet(Unearned) /\ IsFiniteSet(Untallied)
         /\ IsFiniteSet(Completed)
         /\ \A w \in Untotalled \cup Unearned \cup Untallied :
              Confirming(w) /\ Bought[w] \in Nat /\ Bought[w] = Quantity[VoteOf(w)]
         /\ \A v \in Vote : Quantity[v] \in Nat
         /\ Sum(Bought, Unearned) \in Nat /\ Sum(Bought, Untallied) \in Nat
         /\ Sum(Quantity, Completed) \in Nat
         /\ Cardinality(Untotalled) \in Nat /\ Cardinality(Completed) \in Nat
         /\ total \in Nat /\ revenue \in Nat /\ tally \in Nat
<1>1. /\ IsFiniteSet(Untotalled) /\ IsFiniteSet(Unearned) /\ IsFiniteSet(Untallied)
      /\ IsFiniteSet(Completed)
  BY FiniteAssumption, FS_Subset DEF Untotalled, Unearned, Untallied, Completed
<1>2. \A w \in Untotalled \cup Unearned \cup Untallied :
        Confirming(w) /\ Bought[w] \in Nat /\ Bought[w] = Quantity[VoteOf(w)]
  BY ConfirmingHasVote DEF Untotalled, Unearned, Untallied, Bought
<1>3. \A v \in Completed : Quantity[v] \in Nat
  BY DEF Completed
<1>4. /\ Sum(Bought, Unearned) \in Nat /\ Sum(Bought, Untallied) \in Nat
      /\ Sum(Quantity, Completed) \in Nat
  BY <1>1, <1>2, <1>3, SumType
<1>5. Cardinality(Untotalled) \in Nat /\ Cardinality(Completed) \in Nat
  BY <1>1, FS_CardinalityType
<1> QED
  BY <1>1, <1>2, <1>4, <1>5 DEF IInv, TypeOK

(* The vote of a transaction never changes.                                  *)
LEMMA VoteKept ==
  ASSUME IInv, Next, NEW t \in Tx, tx[t].state # "none"
  PROVE  tx'[t].vote = tx[t].vote
<1>1. ASSUME NEW w \in Worker, Initiate(w) PROVE tx'[t].vote = tx[t].vote
  BY <1>1 DEF Initiate, IInv, TypeOK
<1>2. ASSUME NEW w \in Worker, SaveReference(w) \/ FailInitiation(w) \/ SaveTransaction(w)
      PROVE  tx'[t].vote = tx[t].vote
  <2>1. tx \in [Tx -> Transaction]
    BY DEF IInv, TypeOK
  <2>2. \/ tx' = tx
        \/ tx' = [tx EXCEPT ![mem[w].tx].ref = TRUE]
        \/ \E s : tx' = [tx EXCEPT ![mem[w].tx].state = s]
    BY <1>2 DEF SaveReference, FailInitiation, SaveTransaction
  <2>3. \/ tx'[t] = tx[t]
        \/ tx'[t] = [tx[t] EXCEPT !.ref = TRUE]
        \/ \E s : tx'[t] = [tx[t] EXCEPT !.state = s]
    <3>1. CASE tx' = tx
      BY <3>1
    <3>2. CASE tx' = [tx EXCEPT ![mem[w].tx].ref = TRUE]
      BY <2>1, <3>2
    <3>3. CASE \E s : tx' = [tx EXCEPT ![mem[w].tx].state = s]
      BY <2>1, <3>3
    <3> QED
      BY <2>2, <3>1, <3>2, <3>3
  <2>4. tx[t] \in Transaction
    BY <2>1
  <2> QED
    BY <2>3, <2>4 DEF Transaction
<1>3. \/ \E w \in Worker : Initiate(w) \/ SaveReference(w) \/ FailInitiation(w) \/ SaveTransaction(w)
      \/ tx' = tx
  BY DEF Next, Execute, CallProvider, Ask, LoadVote, CompleteVote, IncrementTotal,
         IncrementRevenue, IncrementCandidates, RecordWebhook, Crash, StartVerify, StartWebhook,
         Settle
<1> QED
  BY <1>1, <1>2, <1>3

(* A worker that still confirms after a step confirms the same vote.         *)
LEMMA BoughtKept ==
  ASSUME IInv, Next, NEW w \in Worker, Confirming(w), mem'[w] = mem[w]
  PROVE  Bought'[w] = Bought[w]
<1>1. mem[w].tx \in Tx /\ tx[mem[w].tx].state # "none"
  BY DEF IInv, WorkOK
<1> QED
  BY <1>1, VoteKept DEF Bought, VoteOf

(* A step that completes no vote and after which the same workers have to    *)
(* count.                                                                    *)
LEMMA NothingCounted ==
  ASSUME IInv, Next, CountingOK, UNCHANGED counters, UNCHANGED vote,
         \A w \in Worker : \/ pc'[w] = pc[w] /\ mem'[w] = mem[w]
                           \/ /\ pc[w] \notin {"total", "revenue", "tally"}
                              /\ pc'[w] \notin {"total", "revenue", "tally"}
  PROVE  CountingOK'
<1>1. Untotalled' = Untotalled /\ Unearned' = Unearned /\ Untallied' = Untallied
  BY DEF Untotalled, Unearned, Untallied
<1>2. \A w \in Unearned \cup Untallied : Bought'[w] = Bought[w]
  BY BoughtKept DEF Unearned, Untallied
<1>3. Sum(Bought', Unearned) = Sum(Bought, Unearned) /\ Sum(Bought', Untallied) = Sum(Bought, Untallied)
  BY <1>2, CountingTypes, SumCongruent
<1>4. Completed' = Completed
  BY DEF Completed
<1> QED
  BY <1>1, <1>3, <1>4 DEF CountingOK

(* A step of one worker that is between the completion of its vote and the   *)
(* end: it alone moves on, and what the workers count stays.                 *)
LEMMA WorkerMoves ==
  ASSUME IInv, NEW w \in Worker, NEW step \in Steps, pc' = [pc EXCEPT ![w] = step],
         UNCHANGED <<tx, mem>>
  PROVE  /\ Bought' = Bought
         /\ Untotalled' = IF step = "total" THEN Untotalled \cup {w} ELSE Untotalled \ {w}
         /\ Unearned' = IF step \in {"total", "revenue"} THEN Unearned \cup {w} ELSE Unearned \ {w}
         /\ Untallied' = IF step = "tally" THEN Untallied \cup {w} ELSE Untallied \ {w}
  BY DEF IInv, TypeOK, Bought, VoteOf, Untotalled, Unearned, Untallied

(* A vote is completed, once more perhaps, and its worker is to count it.    *)
LEMMA CompleteCounts ==
  ASSUME IInv, CountingOK, NEW w \in Worker, CompleteVote(w)
  PROVE  CountingOK'
<1> DEFINE v == VoteOf(w)
<1>1. /\ pc[w] = "complete" /\ pc' = [pc EXCEPT ![w] = "total"] /\ v \in Vote
      /\ vote' = [vote EXCEPT ![v] = "completed"] /\ UNCHANGED <<tx, mem, total, revenue, tally>>
  BY ConfirmingHasVote DEF CompleteVote, Goto
<1>2. /\ Bought' = Bought /\ Untotalled' = Untotalled \cup {w}
      /\ Unearned' = Unearned \cup {w} /\ Untallied' = Untallied
      /\ w \notin Untotalled /\ w \notin Unearned
  BY <1>1, WorkerMoves DEF Steps, Untotalled, Unearned, Untallied
<1>3. Bought[w] = Quantity[v] /\ Quantity[v] \in Nat
  BY <1>1 DEF Bought
<1>4. Sum(Bought, Unearned') = Sum(Bought, Unearned) + Quantity[v]
  <2>1. IsFiniteSet(Unearned) /\ \A u \in Unearned \cup {w} : Bought[u] \in Nat
    BY <1>3, CountingTypes
  <2> HIDE DEF v
  <2>2. Sum(Bought, Unearned \cup {w}) = Sum(Bought, Unearned) + Bought[w]
    BY <1>2, <2>1, SumAdd
  <2> QED
    BY <1>2, <1>3, <2>2
<1>5. Cardinality(Untotalled') = Cardinality(Untotalled) + 1
  BY <1>2, CountingTypes, FS_AddElement
<1>6. Completed' = Completed \cup {v}
  BY <1>1 DEF IInv, TypeOK, Completed
<1>7. /\ Sum(Quantity, Completed') <= Sum(Quantity, Completed) + Quantity[v]
      /\ Cardinality(Completed') <= Cardinality(Completed) + 1
      /\ Sum(Quantity, Completed') \in Nat /\ Cardinality(Completed') \in Nat
  <2> HIDE DEF v
  <2>1. CASE v \in Completed
    <3>1. Completed' = Completed
      BY <1>6, <2>1
    <3> QED
      BY <1>3, <3>1, CountingTypes
  <2>2. CASE v \notin Completed
    <3>1. IsFiniteSet(Completed) /\ \A x \in Completed \cup {v} : Quantity[x] \in Nat
      BY <1>1, CountingTypes DEF Completed
    <3>2. Sum(Quantity, Completed') = Sum(Quantity, Completed) + Quantity[v]
      BY <1>6, <2>2, <3>1, SumAdd
    <3>3. Cardinality(Completed') = Cardinality(Completed) + 1
      BY <1>6, <2>2, CountingTypes, FS_AddElement
    <3> QED
      BY <1>3, <3>2, <3>3, CountingTypes
  <2> QED
    BY <2>1, <2>2
<1> HIDE DEF v
<1> QED
  BY <1>1, <1>2, <1>3, <1>4, <1>5, <1>7, CountingTypes DEF CountingOK

(* The vote is added to the votes of the election.                           *)
LEMMA TotalCounts ==
  ASSUME IInv, CountingOK, NEW w \in Worker, IncrementTotal(w)
  PROVE  CountingOK'
<1>1. /\ pc[w] = "total" /\ pc' = [pc EXCEPT ![w] = "revenue"] /\ total' = total + 1
      /\ UNCHANGED <<vote, tx, mem, revenue, tally>>
  BY DEF IncrementTotal, Goto
<1>2. /\ Bought' = Bought /\ Untotalled' = Untotalled \ {w} /\ w \in Untotalled
      /\ Unearned' = Unearned /\ Untallied' = Untallied
  BY <1>1, WorkerMoves DEF Steps, Untotalled, Unearned, Untallied
<1>3. Cardinality(Untotalled') = Cardinality(Untotalled) - 1
  BY <1>2, CountingTypes, FS_RemoveElement
<1>4. Completed' = Completed
  BY <1>1 DEF Completed
<1> QED
  BY <1>1, <1>2, <1>3, <1>4, CountingTypes DEF CountingOK

(* Its price is added to the revenue; the candidates are still to get it.    *)
LEMMA RevenueCounts ==
  ASSUME IInv, CountingOK, NEW w \in Worker, IncrementRevenue(w)
  PROVE  CountingOK'
<1>1. /\ pc[w] = "revenue" /\ pc' = [pc EXCEPT ![w] = "tally"]
      /\ revenue' = revenue + Bought[w]
      /\ UNCHANGED <<vote, tx, mem, total, tally>>
  BY DEF IncrementRevenue, Goto, Bought
<1>2. /\ Bought' = Bought /\ Untotalled' = Untotalled
      /\ Unearned' = Unearned \ {w} /\ w \in Unearned
      /\ Untallied' = Untallied \cup {w} /\ w \notin Untallied
  BY <1>1, WorkerMoves DEF Steps, Untotalled, Unearned, Untallied
<1>3. Bought[w] \in Nat /\ Sum(Bought, Unearned') \in Nat
  <2>1. IsFiniteSet(Unearned') /\ \A x \in Unearned' : Bought[x] \in Nat
    BY <1>2, CountingTypes, FS_RemoveElement
  <2> QED
    BY <1>2, <2>1, CountingTypes, SumType
<1>4. Sum(Bought, Unearned) = Bought[w] + Sum(Bought, Unearned')
  BY <1>2, CountingTypes, SumRemove
<1>5. Sum(Bought, Untallied') = Sum(Bought, Untallied) + Bought[w]
  BY <1>2, <1>3, CountingTypes, SumAdd
<1>6. Completed' = Completed
  BY <1>1 DEF Completed
<1> QED
  BY <1>1, <1>2, <1>3, <1>4, <1>5, <1>6, CountingTypes DEF CountingOK

(* Its voices are added to those of the candidates.                          *)
LEMMA CandidatesCount ==
  ASSUME IInv, CountingOK, NEW w \in Worker, IncrementCandidates(w)
  PROVE  CountingOK'
<1>1. /\ pc[w] = "tally" /\ tally' = tally + Bought[w]
      /\ UNCHANGED <<vote, tx, total, revenue>>
  BY DEF IncrementCandidates, Bought
<1>2. /\ pc'[w] \in {"record", "idle"}
      /\ \A u \in Worker : u # w => pc'[u] = pc[u] /\ mem'[u] = mem[u]
  BY DEF IInv, TypeOK, IncrementCandidates, Return, Finish, Goto
<1>3. /\ Untotalled' = Untotalled /\ Unearned' = Unearned
      /\ Untallied' = Untallied \ {w} /\ w \in Untallied
  BY <1>1, <1>2 DEF Untotalled, Unearned, Untallied
<1>4. \A u \in Unearned' \cup Untallied' : Bought'[u] = Bought[u]
  BY <1>1, <1>2 DEF Unearned, Untallied, Bought, VoteOf
<1>5. /\ Sum(Bought', Unearned') = Sum(Bought, Unearned)
      /\ Sum(Bought', Untallied') = Sum(Bought, Untallied')
  <2>1. IsFiniteSet(Unearned') /\ IsFiniteSet(Untallied')
    BY <1>3, CountingTypes, FS_RemoveElement
  <2> QED
    BY <1>3, <1>4, <2>1, SumCongruent
<1>6. Sum(Bought, Untallied) = Bought[w] + Sum(Bought, Untallied')
  BY <1>3, CountingTypes, SumRemove
<1>7. Bought[w] \in Nat /\ Sum(Bought, Untallied') \in Nat
  <2>1. IsFiniteSet(Untallied') /\ \A x \in Untallied' : Bought[x] \in Nat
    BY <1>3, CountingTypes, FS_RemoveElement
  <2> QED
    BY <1>3, <2>1, CountingTypes, SumType
<1>8. Completed' = Completed
  BY <1>1 DEF Completed
<1> QED
  BY <1>1, <1>3, <1>5, <1>6, <1>7, <1>8, CountingTypes DEF CountingOK

(* Every step of workers that do not die keeps account.                      *)
LEMMA CountingStep ==
  ASSUME ~Crashes, IInv, CountingOK, [Next]_vars
  PROVE  CountingOK'
<1>1. CASE \E w \in Worker : \/ CompleteVote(w) \/ IncrementTotal(w) \/ IncrementRevenue(w)
                             \/ IncrementCandidates(w)
  BY <1>1, CompleteCounts, TotalCounts, RevenueCounts, CandidatesCount
<1>2. ASSUME Next,
             NEW w \in Worker,
             \/ Initiate(w) \/ CallProvider(w) \/ SaveReference(w) \/ FailInitiation(w) \/ Ask(w)
             \/ SaveTransaction(w) \/ LoadVote(w) \/ RecordWebhook(w)
             \/ \E t \in Tx : StartVerify(w, t) \/ StartWebhook(w, t)
      PROVE  CountingOK'
  <2>1. UNCHANGED counters /\ UNCHANGED vote
    BY <1>2 DEF Initiate, CallProvider, SaveReference, FailInitiation, Ask, SaveTransaction,
                LoadVote, RecordWebhook, StartVerify, StartWebhook
  <2>2. /\ pc[w] \notin {"total", "revenue", "tally"}
        /\ \E step \in Steps \ {"total", "revenue", "tally"} : pc' = [pc EXCEPT ![w] = step]
        /\ \/ mem' = mem
           \/ \E m : mem' = [mem EXCEPT ![w] = m]
    <3>1. CASE \/ Initiate(w) \/ CallProvider(w) \/ SaveReference(w) \/ FailInitiation(w)
               \/ RecordWebhook(w)
      BY <3>1 DEF Initiate, CallProvider, SaveReference, FailInitiation, RecordWebhook, Finish,
                  Goto, Steps
    <3>2. CASE Ask(w) \/ \E t \in Tx : StartVerify(w, t) \/ StartWebhook(w, t)
      BY <3>2 DEF Ask, StartVerify, StartWebhook, Goto, Steps
    <3>3. CASE SaveTransaction(w) \/ LoadVote(w)
      BY <3>3 DEF SaveTransaction, LoadVote, Return, Finish, Goto, Steps
    <3> QED
      BY <1>2, <3>1, <3>2, <3>3
  <2>3. \A u \in Worker : \/ pc'[u] = pc[u] /\ mem'[u] = mem[u]
                          \/ /\ pc[u] \notin {"total", "revenue", "tally"}
                             /\ pc'[u] \notin {"total", "revenue", "tally"}
    BY <2>2 DEF IInv, TypeOK
  <2> QED
    BY <1>2, <2>1, <2>3, NothingCounted
<1>3. CASE Next /\ \E t \in Tx : Settle(t)
  BY <1>3, NothingCounted DEF Settle, counters
<1>4. CASE UNCHANGED vars
  BY <1>4 DEF vars, CountingOK, Bought, VoteOf, Untotalled, Unearned, Untallied, Completed
<1> QED
  BY <1>1, <1>2, <1>3, <1>4 DEF Next, Execute, Crash

(* Unless a worker dies, nothing that was counted is lost: however many      *)
(* workers confirm the same vote at once, with whatever provider, when none  *)
(* is at work the candidates have the voices that the revenue counts, and    *)
(* every completed vote is in every counter.                                 *)
THEOREM CountersMatch == ASSUME ~Crashes PROVE Spec => []CountersAgree
<1>1. Init => CountingOK
  <2> SUFFICES ASSUME Init PROVE CountingOK
    OBVIOUS
  <2>1. Untotalled = {} /\ Unearned = {} /\ Untallied = {} /\ Completed = {}
    BY DEF Init, Untotalled, Unearned, Untallied, Completed
  <2>2. Sum(Bought, {}) = 0 /\ Sum(Quantity, {}) = 0 /\ Cardinality({}) = 0
    BY SumUnfold, FS_EmptySet
  <2>3. total = 0 /\ revenue = 0 /\ tally = 0
    BY DEF Init
  <2> QED
    BY <2>1, <2>2, <2>3 DEF CountingOK
<1>2. IInv /\ CountingOK /\ [Next]_vars => CountingOK'
  BY CountingStep
<1>3. IInv /\ CountingOK => CountersAgree
  <2> SUFFICES ASSUME IInv, CountingOK, Quiet
               PROVE  /\ tally = revenue /\ total >= Cardinality(Completed)
                      /\ revenue >= FoldFunctionOnSet(+, 0, Quantity, Completed)
    BY DEF CountersAgree
  <2>1. Untotalled = {} /\ Unearned = {} /\ Untallied = {}
    BY DEF Quiet, Untotalled, Unearned, Untallied
  <2>2. Sum(Bought, {}) = 0 /\ Cardinality({}) = 0
    BY SumUnfold, FS_EmptySet
  <2>3. FoldFunctionOnSet(+, 0, Quantity, Completed) = Sum(Quantity, Completed)
    BY SumIsFold
  <2>4. /\ total \in Nat /\ revenue \in Nat /\ tally \in Nat
        /\ Cardinality(Completed) \in Nat /\ Sum(Quantity, Completed) \in Nat
    BY CountingTypes
  <2>5. tally = revenue /\ total >= Cardinality(Completed) /\ revenue >= Sum(Quantity, Completed)
    <3>1. /\ revenue = tally + 0 /\ total + 0 >= Cardinality(Completed)
          /\ revenue + 0 >= Sum(Quantity, Completed)
      BY <2>1, <2>2 DEF CountingOK
    <3> QED
      BY <2>4, <3>1
  <2> QED
    BY <2>3, <2>5, Zenon
<1> QED
  BY Invariance, <1>1, <1>2, <1>3, PTL DEF Spec

-----------------------------------------------------------------------------
(* The workers that confirm a vote that is completed, and have not added it  *)
(* to the votes, or to the revenue: no other joins them, since a worker that *)
(* loads the vote now finds it completed.                                    *)
Late == {w \in Worker : pc[w] = "complete" /\ vote[VoteOf(w)] = "completed"}
Totalling == Untotalled \cup Late
Earning == Unearned \cup Late

Together == Cardinality(Worker)

(* What a counter has and will have is at most once from each worker.        *)
OvercountOK ==
  /\ tally + Sum(Bought, Untallied) <= revenue
  /\ total + Cardinality(Totalling) <= Together * Cardinality(Completed)
  /\ revenue + Sum(Bought, Earning) <= Together * Sum(Quantity, Completed)

LEMMA OvercountTypes ==
  ASSUME IInv
  PROVE  /\ IsFiniteSet(Totalling) /\ IsFiniteSet(Earning)
         /\ \A w \in Earning : Confirming(w) /\ Bought[w] \in Nat
         /\ Sum(Bought, Earning) \in Nat /\ Cardinality(Totalling) \in Nat
         /\ Together \in Nat
         /\ Together * Cardinality(Completed) \in Nat
         /\ Together * Sum(Quantity, Completed) \in Nat
<1>1. Late \subseteq Worker /\ IsFiniteSet(Late)
  BY FiniteAssumption, FS_Subset DEF Late
<1>2. IsFiniteSet(Totalling) /\ IsFiniteSet(Earning)
  BY <1>1, CountingTypes, FS_Union DEF Totalling, Earning
<1>3. \A w \in Earning : Confirming(w) /\ Bought[w] \in Nat
  BY ConfirmingHasVote DEF Earning, Unearned, Late, Bought, Confirming
<1>4. Sum(Bought, Earning) \in Nat /\ Cardinality(Totalling) \in Nat /\ Together \in Nat
  BY <1>2, <1>3, SumType, FS_CardinalityType, FiniteAssumption DEF Together
<1>5. /\ Together * Cardinality(Completed) \in Nat
      /\ Together * Sum(Quantity, Completed) \in Nat
  BY <1>4, CountingTypes
<1> QED
  BY <1>2, <1>3, <1>4, <1>5

(* A step after which fewer have to count, or as many.                       *)
LEMMA FewerCount ==
  ASSUME IInv, OvercountOK, UNCHANGED counters, UNCHANGED vote,
         Untallied' \subseteq Untallied, Totalling' \subseteq Totalling, Earning' \subseteq Earning,
         \A w \in Untallied' \cup Earning' : Bought'[w] = Bought[w]
  PROVE  OvercountOK'
<1>1. /\ IsFiniteSet(Untallied') /\ IsFiniteSet(Earning') /\ IsFiniteSet(Totalling')
      /\ Cardinality(Totalling') <= Cardinality(Totalling)
  BY CountingTypes, OvercountTypes, FS_Subset
<1>2. /\ Sum(Bought, Untallied') <= Sum(Bought, Untallied)
      /\ Sum(Bought, Earning') <= Sum(Bought, Earning)
  BY CountingTypes, OvercountTypes, SumMonotone
<1>3. /\ Sum(Bought', Untallied') = Sum(Bought, Untallied')
      /\ Sum(Bought', Earning') = Sum(Bought, Earning')
  BY <1>1, SumCongruent
<1>4. /\ Sum(Bought, Untallied') \in Nat /\ Sum(Bought, Earning') \in Nat
      /\ Cardinality(Totalling') \in Nat
  BY <1>1, CountingTypes, OvercountTypes, SumType, FS_CardinalityType
<1>5. Completed' = Completed /\ Together' = Together
  BY DEF Completed, Together
<1>6. total' = total /\ revenue' = revenue /\ tally' = tally
  BY DEF counters
<1>7. tally + Sum(Bought, Untallied') <= revenue
  BY <1>2, <1>4, CountingTypes DEF OvercountOK
<1>8. total + Cardinality(Totalling') <= Together * Cardinality(Completed)
  BY <1>1, <1>4, CountingTypes, OvercountTypes DEF OvercountOK
<1>9. revenue + Sum(Bought, Earning') <= Together * Sum(Quantity, Completed)
  BY <1>2, <1>4, CountingTypes, OvercountTypes DEF OvercountOK
<1> QED
  BY <1>3, <1>5, <1>6, <1>7, <1>8, <1>9 DEF OvercountOK

(* Workers that start, end, die or load a vote do not count more.            *)
LEMMA OthersCount ==
  ASSUME IInv, Next, OvercountOK, UNCHANGED counters, UNCHANGED vote,
         \A w \in Worker : \/ pc'[w] = pc[w] /\ mem'[w] = mem[w]
                           \/ pc'[w] \notin {"complete", "total", "revenue", "tally"}
                           \/ /\ pc'[w] = "complete" /\ vote[VoteOf(w)] # "completed"
                              /\ tx' = tx /\ mem' = mem
  PROVE  OvercountOK'
<1>1. \A w \in Worker : Confirming(w) /\ mem'[w] = mem[w] => Bought'[w] = Bought[w] /\ VoteOf(w)' = VoteOf(w)
  <2> SUFFICES ASSUME NEW w \in Worker, Confirming(w), mem'[w] = mem[w]
               PROVE  Bought'[w] = Bought[w] /\ VoteOf(w)' = VoteOf(w)
    OBVIOUS
  <2>1. mem[w].tx \in Tx /\ tx[mem[w].tx].state # "none"
    BY DEF IInv, WorkOK, Confirming
  <2> QED
    BY <2>1, VoteKept DEF Bought, VoteOf
<1>2. ASSUME NEW w \in Late'
      PROVE  w \in Late /\ mem'[w] = mem[w]
  <2>1. w \in Worker /\ pc'[w] = "complete" /\ vote[VoteOf(w)'] = "completed"
    BY DEF Late
  <2>2. ~(vote[VoteOf(w)] # "completed" /\ tx' = tx /\ mem' = mem)
    BY <2>1 DEF VoteOf
  <2>3. pc[w] = "complete" /\ mem'[w] = mem[w]
    BY <2>1, <2>2
  <2> QED
    BY <1>1, <2>1, <2>3 DEF Late, Confirming
<1>3. \A w \in Untotalled' \cup Unearned' \cup Untallied' : pc[w] = pc'[w] /\ mem'[w] = mem[w]
  BY DEF Untotalled, Unearned, Untallied
<1>4. Untallied' \subseteq Untallied /\ Unearned' \subseteq Unearned /\ Untotalled' \subseteq Untotalled
  BY <1>3 DEF Untotalled, Unearned, Untallied
<1>5. Totalling' \subseteq Totalling /\ Earning' \subseteq Earning
  BY <1>2, <1>4 DEF Totalling, Earning
<1>6. \A w \in Untallied' \cup Earning' : Confirming(w) /\ w \in Worker /\ mem'[w] = mem[w]
  BY <1>2, <1>3, <1>4 DEF Earning, Untallied, Unearned, Late, Confirming
<1> QED
  BY <1>1, <1>4, <1>5, <1>6, FewerCount

(* A vote is completed.  If for the first time, those confirming it are late *)
(* from now on; there are no more of them than workers.                      *)
LEMMA CompleteOvercount ==
  ASSUME IInv, OvercountOK, NEW w \in Worker, CompleteVote(w)
  PROVE  OvercountOK'
<1>1. PICK v \in Vote :
         /\ v = VoteOf(w) /\ pc[w] = "complete" /\ pc' = [pc EXCEPT ![w] = "total"]
         /\ vote' = [vote EXCEPT ![v] = "completed"] /\ UNCHANGED <<tx, mem, total, revenue, tally>>
  BY ConfirmingHasVote DEF CompleteVote, Goto, Confirming
<1>2. /\ Bought' = Bought /\ Untotalled' = Untotalled \cup {w}
      /\ Unearned' = Unearned \cup {w} /\ Untallied' = Untallied
  BY <1>1, WorkerMoves DEF Steps, Untotalled, Unearned, Untallied
<1>3. Together' = Together
  BY DEF Together
<1>4. \A u : VoteOf(u)' = VoteOf(u)
  BY <1>1 DEF VoteOf
<1>5. CASE v \in Completed
  <2>1. vote' = vote /\ Completed' = Completed
    BY <1>1, <1>5 DEF Completed, IInv, TypeOK
  <2>2. w \in Late
    BY <1>1, <1>5 DEF Late, Completed
  <2>3. Late' = Late \ {w}
    BY <1>1, <1>4, <2>1 DEF Late, IInv, TypeOK
  <2>4. Totalling' = Totalling /\ Earning' = Earning
    BY <1>2, <2>2, <2>3 DEF Totalling, Earning
  <2> QED
    BY <1>1, <1>2, <1>3, <2>1, <2>4 DEF OvercountOK
<1>6. CASE v \notin Completed
  <2> DEFINE New == {u \in Worker : Confirming(u) /\ VoteOf(u) = v}
             q == Quantity[v]
  <2>1. Completed' = Completed \cup {v}
    BY <1>1 DEF Completed, IInv, TypeOK
  <2>2. q \in Nat /\ \A u \in New : Bought[u] = q
    BY CountingTypes DEF Bought
  <2>3. Late' \subseteq Late \cup New
    BY <1>1, <1>4 DEF Late, Confirming, IInv, TypeOK
  <2>4. w \in New
    BY <1>1 DEF Confirming
  <2>5. New \subseteq Worker /\ IsFiniteSet(New) /\ Cardinality(New) \in Nat /\ Cardinality(New) <= Together
    BY FiniteAssumption, FS_Subset, FS_CardinalityType DEF Together
  <2> HIDE DEF New, q
  <2>6. Totalling' \subseteq Totalling \cup New /\ Earning' \subseteq Earning \cup New
    BY <1>2, <2>3, <2>4 DEF Totalling, Earning
  <2>7. /\ Cardinality(Completed') = Cardinality(Completed) + 1
        /\ Sum(Quantity, Completed') = Sum(Quantity, Completed) + q
    <3>1. IsFiniteSet(Completed) /\ \A x \in Completed \cup {v} : Quantity[x] \in Nat
      BY CountingTypes DEF Completed
    <3>2. Sum(Quantity, Completed \cup {v}) = Sum(Quantity, Completed) + Quantity[v]
      BY <1>6, <3>1, SumAdd
    <3> QED
      BY <1>6, <2>1, <3>1, <3>2, FS_AddElement DEF q
  <2>8. /\ Together * (Cardinality(Completed) + 1) = Together * Cardinality(Completed) + Together
        /\ Together * (Sum(Quantity, Completed) + q) = Together * Sum(Quantity, Completed) + Together * q
        /\ Together * q \in Nat
    BY <2>2, CountingTypes, OvercountTypes
  <2>9. Cardinality(Totalling') <= Cardinality(Totalling) + Together /\ Cardinality(Totalling') \in Nat
    <3>1. IsFiniteSet(Totalling \cup New) /\ IsFiniteSet(Totalling \cap New)
      BY <2>5, OvercountTypes, FS_Union, FS_Intersection
    <3>2. Cardinality(Totalling \cup New) =
            Cardinality(Totalling) + Cardinality(New) - Cardinality(Totalling \cap New)
      BY <2>5, OvercountTypes, FS_Union
    <3>3. Cardinality(Totalling \cap New) \in Nat /\ Cardinality(Totalling \cup New) \in Nat
      BY <3>1, FS_CardinalityType
    <3>4. IsFiniteSet(Totalling') /\ Cardinality(Totalling') <= Cardinality(Totalling \cup New)
      BY <2>6, <3>1, FS_Subset
    <3>5. Cardinality(Totalling') \in Nat
      BY <3>4, FS_CardinalityType
    <3> QED
      BY <2>5, <3>2, <3>3, <3>4, <3>5, OvercountTypes
  <2>10. Sum(Bought, Earning') <= Sum(Bought, Earning) + Together * q /\ Sum(Bought, Earning') \in Nat
    <3>1. IsFiniteSet(Earning \cup New) /\ \A u \in Earning \cup New : Bought[u] \in Nat
      BY <2>2, <2>5, OvercountTypes, FS_Union
    <3>2. Sum(Bought, Earning \cup New) <= Sum(Bought, Earning) + Cardinality(New) * q
      BY <2>2, <2>5, <3>1, OvercountTypes, SumGrows
    <3>3. Sum(Bought, Earning') <= Sum(Bought, Earning \cup New)
      BY <2>6, <3>1, SumMonotone
    <3>4. Cardinality(New) * q <= Together * q /\ Cardinality(New) * q \in Nat
      <4>1. \A a, b, c \in Nat : a <= b => a * c <= b * c /\ a * c \in Nat
        OBVIOUS
      <4> QED
        BY <2>2, <2>5, <4>1, OvercountTypes
    <3>5. Sum(Bought, Earning') \in Nat /\ Sum(Bought, Earning \cup New) \in Nat
      BY <2>6, <3>1, SumType, FS_Subset
    <3> QED
      BY <2>8, <3>2, <3>3, <3>4, <3>5, OvercountTypes
  <2>11. total + Cardinality(Totalling') <= Together * Cardinality(Completed')
    BY <2>7, <2>8, <2>9, CountingTypes, OvercountTypes DEF OvercountOK
  <2>12. revenue + Sum(Bought, Earning') <= Together * Sum(Quantity, Completed')
    BY <2>7, <2>8, <2>10, CountingTypes, OvercountTypes DEF OvercountOK
  <2> QED
    BY <1>1, <1>2, <1>3, <2>11, <2>12 DEF OvercountOK
<1> QED
  BY <1>5, <1>6

(* Each of the three additions takes its worker off the list.                *)
LEMMA TotalOvercount ==
  ASSUME IInv, OvercountOK, NEW w \in Worker, IncrementTotal(w)
  PROVE  OvercountOK'
<1>1. /\ pc[w] = "total" /\ pc' = [pc EXCEPT ![w] = "revenue"] /\ total' = total + 1
      /\ UNCHANGED <<vote, tx, mem, revenue, tally>>
  BY DEF IncrementTotal, Goto
<1>2. /\ Bought' = Bought /\ Untotalled' = Untotalled \ {w} /\ w \in Untotalled
      /\ Unearned' = Unearned /\ Untallied' = Untallied
  BY <1>1, WorkerMoves DEF Steps, Untotalled, Unearned, Untallied
<1>3. Late' = Late /\ w \notin Late
  BY <1>1 DEF Late, VoteOf, IInv, TypeOK
<1>4. Totalling' = Totalling \ {w} /\ w \in Totalling /\ Earning' = Earning
  BY <1>2, <1>3 DEF Totalling, Earning
<1>5. Cardinality(Totalling') = Cardinality(Totalling) - 1
  BY <1>4, OvercountTypes, FS_RemoveElement
<1>6. Completed' = Completed /\ Together' = Together
  BY <1>1 DEF Completed, Together
<1>7. (total + 1) + (Cardinality(Totalling) - 1) = total + Cardinality(Totalling)
  BY CountingTypes, OvercountTypes
<1> QED
  BY <1>1, <1>2, <1>4, <1>5, <1>6, <1>7 DEF OvercountOK

LEMMA RevenueOvercount ==
  ASSUME IInv, OvercountOK, NEW w \in Worker, IncrementRevenue(w)
  PROVE  OvercountOK'
<1>1. /\ pc[w] = "revenue" /\ pc' = [pc EXCEPT ![w] = "tally"]
      /\ revenue' = revenue + Bought[w]
      /\ UNCHANGED <<vote, tx, mem, total, tally>>
  BY DEF IncrementRevenue, Goto, Bought
<1>2. /\ Bought' = Bought /\ Untotalled' = Untotalled
      /\ Unearned' = Unearned \ {w} /\ w \in Unearned
      /\ Untallied' = Untallied \cup {w} /\ w \notin Untallied
  BY <1>1, WorkerMoves DEF Steps, Untotalled, Unearned, Untallied
<1>3. Late' = Late /\ w \notin Late
  BY <1>1 DEF Late, VoteOf, IInv, TypeOK
<1>4. Totalling' = Totalling /\ Earning' = Earning \ {w} /\ w \in Earning
  BY <1>2, <1>3 DEF Totalling, Earning
<1>5. Bought[w] \in Nat /\ Sum(Bought, Earning') \in Nat
  <2>1. IsFiniteSet(Earning') /\ \A x \in Earning' : Bought[x] \in Nat
    BY <1>4, OvercountTypes, FS_RemoveElement
  <2> QED
    BY <1>2, <2>1, CountingTypes, SumType
<1>6. Sum(Bought, Earning) = Bought[w] + Sum(Bought, Earning')
  BY <1>4, OvercountTypes, SumRemove
<1>7. Sum(Bought, Untallied') = Sum(Bought, Untallied) + Bought[w]
  BY <1>2, <1>5, CountingTypes, SumAdd
<1>8. Completed' = Completed /\ Together' = Together
  BY <1>1 DEF Completed, Together
<1>9. tally + Sum(Bought, Untallied') <= revenue + Bought[w]
  BY <1>5, <1>7, CountingTypes DEF OvercountOK
<1>10. (revenue + Bought[w]) + Sum(Bought, Earning') = revenue + Sum(Bought, Earning)
  BY <1>5, <1>6, CountingTypes
<1> QED
  BY <1>1, <1>2, <1>4, <1>8, <1>9, <1>10 DEF OvercountOK

LEMMA CandidatesOvercount ==
  ASSUME IInv, OvercountOK, NEW w \in Worker, IncrementCandidates(w)
  PROVE  OvercountOK'
<1>1. /\ pc[w] = "tally" /\ tally' = tally + Bought[w]
      /\ UNCHANGED <<vote, tx, total, revenue>>
  BY DEF IncrementCandidates, Bought
<1>2. /\ pc'[w] \in {"record", "idle"}
      /\ \A u \in Worker : u # w => pc'[u] = pc[u] /\ mem'[u] = mem[u]
  BY DEF IInv, TypeOK, IncrementCandidates, Return, Finish, Goto
<1>3. /\ Untotalled' = Untotalled /\ Unearned' = Unearned /\ Late' = Late
      /\ Untallied' = Untallied \ {w} /\ w \in Untallied
  BY <1>1, <1>2 DEF Untotalled, Unearned, Untallied, Late, VoteOf
<1>4. Totalling' = Totalling /\ Earning' = Earning
  BY <1>3 DEF Totalling, Earning
<1>5. \A u \in Earning \cup Untallied' : Bought'[u] = Bought[u]
  BY <1>1, <1>2 DEF Earning, Unearned, Late, Untallied, Bought, VoteOf
<1>6. /\ Sum(Bought', Earning) = Sum(Bought, Earning)
      /\ Sum(Bought', Untallied') = Sum(Bought, Untallied')
  <2>1. IsFiniteSet(Earning) /\ IsFiniteSet(Untallied')
    BY <1>3, CountingTypes, OvercountTypes, FS_RemoveElement
  <2> QED
    BY <1>5, <2>1, SumCongruent
<1>7. Sum(Bought, Untallied) = Bought[w] + Sum(Bought, Untallied')
  BY <1>3, CountingTypes, SumRemove
<1>8. Bought[w] \in Nat /\ Sum(Bought, Untallied') \in Nat
  <2>1. IsFiniteSet(Untallied') /\ \A x \in Untallied' : Bought[x] \in Nat
    BY <1>3, CountingTypes, FS_RemoveElement
  <2> QED
    BY <1>3, <2>1, CountingTypes, SumType
<1>9. Completed' = Completed /\ Together' = Together
  BY <1>1 DEF Completed, Together
<1>10. (tally + Bought[w]) + Sum(Bought, Untallied') = tally + Sum(Bought, Untallied)
  BY <1>7, <1>8, CountingTypes
<1> QED
  BY <1>1, <1>4, <1>6, <1>9, <1>10 DEF OvercountOK

LEMMA OvercountStep ==
  ASSUME IInv, OvercountOK, [Next]_vars
  PROVE  OvercountOK'
<1>1. CASE \E w \in Worker : \/ CompleteVote(w) \/ IncrementTotal(w) \/ IncrementRevenue(w)
                             \/ IncrementCandidates(w)
  BY <1>1, CompleteOvercount, TotalOvercount, RevenueOvercount, CandidatesOvercount
<1>2. ASSUME Next,
             NEW w \in Worker,
             \/ Initiate(w) \/ CallProvider(w) \/ SaveReference(w) \/ FailInitiation(w) \/ Ask(w)
             \/ SaveTransaction(w) \/ LoadVote(w) \/ RecordWebhook(w) \/ Crash(w)
             \/ \E t \in Tx : StartVerify(w, t) \/ StartWebhook(w, t)
      PROVE  OvercountOK'
  <2>1. UNCHANGED counters /\ UNCHANGED vote
    BY <1>2 DEF Initiate, CallProvider, SaveReference, FailInitiation, Ask, SaveTransaction,
                LoadVote, RecordWebhook, Crash, StartVerify, StartWebhook
  <2> DEFINE later == {"complete", "total", "revenue", "tally"}
  <2>2. /\ \A u \in Worker : u # w => pc'[u] = pc[u] /\ mem'[u] = mem[u]
        /\ \/ pc'[w] \notin later
           \/ pc'[w] = "complete" /\ vote[VoteOf(w)] # "completed" /\ tx' = tx /\ mem' = mem
    <3>1. CASE \/ Initiate(w) \/ CallProvider(w) \/ SaveReference(w) \/ FailInitiation(w)
               \/ RecordWebhook(w) \/ Crash(w)
      BY <3>1 DEF IInv, TypeOK, Initiate, CallProvider, SaveReference, FailInitiation,
                  RecordWebhook, Crash, Finish, Goto
    <3>2. CASE Ask(w)
      BY <3>2 DEF IInv, TypeOK, Ask, Goto
    <3>3. CASE \E t \in Tx : StartVerify(w, t)
      BY <3>3 DEF IInv, TypeOK, StartVerify, Goto
    <3>4. CASE \E t \in Tx : StartWebhook(w, t)
      <4>1. PICK t \in Tx : StartWebhook(w, t)
        BY <3>4
      <4>2. pc' = [pc EXCEPT ![w] = IF tx[t].state = "processing" THEN "ask" ELSE "record"]
        BY <4>1 DEF StartWebhook, Goto
      <4>3. /\ \A u \in Worker : u # w => pc'[u] = pc[u] /\ mem'[u] = mem[u]
            /\ pc'[w] \in {"ask", "record"}
        BY <4>1, <4>2 DEF IInv, TypeOK, StartWebhook
      <4> QED
        BY <4>3
    <3>5. CASE SaveTransaction(w)
      BY <3>5 DEF IInv, TypeOK, SaveTransaction, Return, Finish, Goto
    <3>6. CASE LoadVote(w)
      BY <3>6 DEF IInv, TypeOK, LoadVote, Return, Finish, Goto
    <3> QED
      BY <1>2, <3>1, <3>2, <3>3, <3>4, <3>5, <3>6
  <2>3. \A u \in Worker : \/ pc'[u] = pc[u] /\ mem'[u] = mem[u]
                          \/ pc'[u] \notin later
                          \/ /\ pc'[u] = "complete" /\ vote[VoteOf(u)] # "completed"
                             /\ tx' = tx /\ mem' = mem
    BY <2>2
  <2> QED
    BY <1>2, <2>1, <2>3, OthersCount
<1>3. CASE Next /\ \E t \in Tx : Settle(t)
  BY <1>3, OthersCount DEF Settle, counters
<1>4. CASE UNCHANGED vars
  BY <1>4 DEF vars, counters, OvercountOK, Bought, VoteOf, Untotalled, Unearned, Untallied, Late,
              Totalling, Earning, Together, Completed
<1> QED
  BY <1>1, <1>2, <1>3, <1>4 DEF Next, Execute

(* OvercountBounded: whichever workers die, and however often a payment is   *)
(* notified, polled and paid again, a completed vote is counted once at most *)
(* by each of the workers there are, and the candidates have no voice that   *)
(* the revenue does not count.                                               *)
THEOREM OvercountIsBounded == Spec => []OvercountBounded
<1>1. Init => OvercountOK
  <2> SUFFICES ASSUME Init PROVE OvercountOK
    OBVIOUS
  <2>1. /\ Untotalled = {} /\ Unearned = {} /\ Untallied = {} /\ Late = {} /\ Completed = {}
        /\ Totalling = {} /\ Earning = {}
    BY DEF Init, Untotalled, Unearned, Untallied, Late, Completed, Totalling, Earning
  <2>2. Sum(Bought, {}) = 0 /\ Sum(Quantity, {}) = 0 /\ Cardinality({}) = 0
    BY SumUnfold, FS_EmptySet
  <2>3. total = 0 /\ revenue = 0 /\ tally = 0 /\ Together * 0 = 0
    BY FiniteAssumption, FS_CardinalityType DEF Init, Together
  <2> QED
    BY <2>1, <2>2, <2>3 DEF OvercountOK
<1>2. IInv /\ OvercountOK /\ [Next]_vars => OvercountOK'
  BY OvercountStep
<1>3. IInv /\ OvercountOK => OvercountBounded
  <2> SUFFICES ASSUME IInv, OvercountOK
               PROVE  /\ total <= Together * Cardinality(Completed)
                      /\ revenue <= Together * FoldFunctionOnSet(+, 0, Quantity, Completed)
                      /\ tally <= revenue
    BY DEF OvercountBounded, Together
  <2>1. FoldFunctionOnSet(+, 0, Quantity, Completed) = Sum(Quantity, Completed)
    BY SumIsFold
  <2>2. /\ total <= Together * Cardinality(Completed)
        /\ revenue <= Together * Sum(Quantity, Completed)
        /\ tally <= revenue
    BY CountingTypes, OvercountTypes DEF OvercountOK
  <2> QED
    BY <2>1, <2>2, Zenon
<1> QED
  BY Invariance, <1>1, <1>2, <1>3, PTL DEF Spec

-----------------------------------------------------------------------------
(* The withdrawals of one organisation: Withdrawal, whose requests are at    *)
(* the step stage.                                                           *)
VARIABLES org_lock, row_lock, stage, loc, review

Bank == INSTANCE Withdrawal WITH pc <- stage

(* A request is inside its transaction exactly while it holds the lock.      *)
LockHeld == \A r \in Request : stage[r] \in Bank!InTransaction <=> org_lock = r

(* What a transaction has tested stays true until it ends.                   *)
TestedVerified == \A r \in Request : stage[r] \in Bank!InTransaction => kyc = "verified"

TestedNoneOutstanding ==
  \A r \in Request : stage[r] \in {"revenue", "reserved", "insert"} =>
    \A q \in Request : row[q].status \notin Outstanding

(* The row of a request does not exist before its transaction has ended.     *)
RowAfterCommit == \A r \in Request : stage[r] # "done" => row[r].status = "none"

BankInv == /\ Bank!TypeOK
           /\ LockHeld
           /\ TestedVerified
           /\ TestedNoneOutstanding
           /\ RowAfterCommit
           /\ OneOutstanding

USE RequestAssumption, AmountAssumption, NobodyAssumption
    DEF Bank!revenues, Outstanding, Bank!Outstanding, Bank!Revenue

-----------------------------------------------------------------------------
(* Nothing is outstanding, and nothing is locked, at the start.              *)
LEMMA InitBank == Bank!Init => BankInv
  BY DEF Bank!Init, BankInv, Bank!TypeOK, LockHeld, TestedVerified, TestedNoneOutstanding,
         RowAfterCommit, OneOutstanding, Bank!InTransaction, Outstanding, Bank!Row,
         Bank!Status, Bank!Local,
         Bank!NoLocal, Bank!Review, Bank!NoReview, Bank!Steps

(* The PHP variables of a request that has answered.                         *)
LEMMA NoLocalType == Bank!NoLocal \in Bank!Local
  BY DEF Bank!NoLocal, Bank!Local

(* A step of a transaction that only moves on, or ends it without a row.     *)
LEMMA LockStep ==
  ASSUME BankInv, NEW r \in Request, Bank!LockOrganization(r)
  PROVE  BankInv'
<1>1. Bank!TypeOK'
  BY NoLocalType DEF BankInv, Bank!TypeOK, Bank!LockOrganization, Bank!Goto, Bank!Finish,
       Bank!Steps
<1>2. LockHeld' /\ TestedVerified' /\ TestedNoneOutstanding' /\ RowAfterCommit'
  BY DEF BankInv, Bank!TypeOK, LockHeld, TestedVerified, TestedNoneOutstanding, RowAfterCommit,
         Bank!LockOrganization, Bank!Goto, Bank!Finish, Bank!InTransaction, Bank!Steps
<1>3. OneOutstanding'
  BY DEF BankInv, OneOutstanding, Bank!LockOrganization
<1> QED
  BY <1>1, <1>2, <1>3 DEF BankInv

(* The test of the outstanding withdrawals is what the later steps rely on.  *)
LEMMA OutstandingStep ==
  ASSUME BankInv, NEW r \in Request, Bank!CheckOutstanding(r)
  PROVE  BankInv'
<1>1. Bank!TypeOK'
  BY NoLocalType DEF BankInv, Bank!TypeOK, Bank!CheckOutstanding, Bank!Goto, Bank!Finish,
       Bank!Steps
<1>2. LockHeld' /\ TestedVerified' /\ TestedNoneOutstanding' /\ RowAfterCommit'
  BY DEF BankInv, Bank!TypeOK, LockHeld, TestedVerified, TestedNoneOutstanding, RowAfterCommit,
         Bank!CheckOutstanding, Bank!Goto, Bank!Finish, Bank!InTransaction, Bank!Steps
<1>3. OneOutstanding'
  BY DEF BankInv, OneOutstanding, Bank!CheckOutstanding
<1> QED
  BY <1>1, <1>2, <1>3 DEF BankInv

(* Reading the two sums changes only the variables of the request.           *)
LEMMA SumStep ==
  ASSUME BankInv, NEW r \in Request, Bank!SumRevenue(r) \/ Bank!SumReserved(r)
  PROVE  BankInv'
<1>1. Bank!TypeOK'
  <2>1. CASE Bank!SumRevenue(r)
    BY <2>1 DEF BankInv, Bank!TypeOK, Bank!SumRevenue, Revenue, Bank!Goto, Bank!Local,
         Bank!Steps
  <2>2. CASE Bank!SumReserved(r)
    BY <2>2, NoLocalType DEF BankInv, Bank!TypeOK, Bank!SumReserved, Bank!Goto, Bank!Finish,
         Bank!Steps
  <2> QED
    BY <2>1, <2>2
<1>2. LockHeld' /\ TestedVerified' /\ TestedNoneOutstanding' /\ RowAfterCommit'
  BY DEF BankInv, Bank!TypeOK, LockHeld, TestedVerified, TestedNoneOutstanding, RowAfterCommit,
         Bank!SumRevenue, Bank!SumReserved, Bank!Goto, Bank!Finish, Bank!InTransaction,
         Bank!Steps
<1>3. OneOutstanding'
  BY DEF BankInv, OneOutstanding, Bank!SumRevenue, Bank!SumReserved
<1> QED
  BY <1>1, <1>2, <1>3 DEF BankInv

(* The new row is the only outstanding one; no other request is inside its   *)
(* transaction to have tested the contrary.                                  *)
LEMMA InsertStep ==
  ASSUME BankInv, NEW r \in Request, Bank!Insert(r)
  PROVE  BankInv'
<1>1. Bank!TypeOK'
  BY DEF BankInv, Bank!TypeOK, Bank!Insert, Bank!Goto, Bank!Finish, Bank!Row, Bank!Status,
       Bank!Local, Bank!NoLocal, Bank!Steps
<1>2. LockHeld' /\ TestedVerified'
  BY DEF BankInv, Bank!TypeOK, LockHeld, TestedVerified, Bank!Insert, Bank!Goto, Bank!Finish,
       Bank!InTransaction, Bank!Steps
<1>3. \A q \in Request : stage'[q] \notin Bank!InTransaction
  BY <1>2 DEF BankInv, Bank!TypeOK, LockHeld, Bank!Insert, Bank!Finish
<1>4. TestedNoneOutstanding'
  BY <1>3 DEF TestedNoneOutstanding, Bank!InTransaction
<1>5. RowAfterCommit'
  BY DEF BankInv, Bank!TypeOK, RowAfterCommit, Bank!Insert, Bank!Goto, Bank!Finish
<1>6. OneOutstanding'
  BY DEF BankInv, Bank!TypeOK, TestedNoneOutstanding, OneOutstanding, Bank!Insert, Outstanding
<1> QED
  BY <1>1, <1>2, <1>4, <1>5, <1>6 DEF BankInv

(* The request arrives, or its worker dies.                                  *)
LEMMA EdgeStep ==
  ASSUME BankInv, NEW r \in Request, Bank!Receive(r) \/ Bank!Crash(r)
  PROVE  BankInv'
<1>1. Bank!TypeOK'
  <2>1. CASE Bank!Receive(r)
    BY <2>1 DEF BankInv, Bank!TypeOK, Bank!Receive, Bank!Goto, Bank!Local, Bank!Steps
  <2>2. CASE Bank!Crash(r)
    BY <2>2, NoLocalType DEF BankInv, Bank!TypeOK, Bank!Crash, Bank!Goto, Bank!Finish,
         Bank!Steps
  <2> QED
    BY <2>1, <2>2
<1>2. LockHeld' /\ TestedVerified' /\ TestedNoneOutstanding' /\ RowAfterCommit'
  BY DEF BankInv, Bank!TypeOK, LockHeld, TestedVerified, TestedNoneOutstanding, RowAfterCommit,
         Bank!Receive, Bank!Crash, Bank!Goto, Bank!Finish, Bank!InTransaction, Bank!Steps
<1>3. OneOutstanding'
  BY DEF BankInv, OneOutstanding, Bank!Receive, Bank!Crash
<1> QED
  BY <1>1, <1>2, <1>3 DEF BankInv

(* A review makes no withdrawal outstanding that was not.                    *)
LEMMA ReviewStep ==
  ASSUME BankInv, NEW a \in Reviewer, NEW r \in Request,
         \/ Bank!ReceiveReview(a, r) \/ Bank!LockRow(a, r) \/ Bank!Abandon(a, r)
         \/ Bank!Approve(a, r) \/ Bank!Reject(a, r) \/ Bank!Cancel(a, r) \/ Bank!MarkPaid(a, r)
  PROVE  BankInv'
<1>1. /\ UNCHANGED <<kyc, org_lock, stage>>
      /\ \A q \in Request : /\ row'[q].status \in Outstanding => row[q].status \in Outstanding
                            /\ row[q].status = "none" => row'[q].status = "none"
  BY DEF BankInv, Bank!TypeOK, Bank!Row, Bank!ReceiveReview, Bank!LockRow, Bank!Abandon,
       Bank!Approve, Bank!Reject, Bank!Cancel,
         Bank!MarkPaid, Bank!Decide, Outstanding
<1>2. Bank!TypeOK'
  <2>1. CASE Bank!ReceiveReview(a, r) \/ Bank!LockRow(a, r) \/ Bank!Abandon(a, r)
    <3>1. review' \in [Reviewer -> Bank!Review]
      BY <2>1 DEF BankInv, Bank!TypeOK, Bank!ReceiveReview, Bank!LockRow, Bank!Abandon,
           Bank!Review, Bank!NoReview
    <3>2. row_lock' \in [Request -> Reviewer \cup {Nobody}]
      BY <2>1 DEF BankInv, Bank!TypeOK, Bank!ReceiveReview, Bank!LockRow, Bank!Abandon
    <3> QED
      BY <2>1, <3>1, <3>2 DEF BankInv, Bank!TypeOK, Bank!ReceiveReview, Bank!LockRow,
           Bank!Abandon
  <2>2. CASE Bank!Approve(a, r) \/ Bank!Reject(a, r) \/ Bank!Cancel(a, r) \/ Bank!MarkPaid(a, r)
    <3>1. row' \in [Request -> Bank!Row]
      <4>1. PICK from \in Bank!Status, to \in Bank!Status : Bank!Decide(a, r, from, to)
        BY <2>2 DEF Bank!Approve, Bank!Reject, Bank!Cancel, Bank!MarkPaid, Bank!Status
      <4>2. \A q \in Request : row[q] \in Bank!Row
        BY DEF BankInv, Bank!TypeOK
      <4>3. [row[r] EXCEPT !.status = IF @ = from THEN to ELSE @] \in Bank!Row
        BY <4>2 DEF Bank!Row
      <4> QED
        BY <4>1, <4>2, <4>3 DEF BankInv, Bank!TypeOK, Bank!Decide
    <3>2. review' \in [Reviewer -> Bank!Review] /\ row_lock' \in [Request -> Reviewer \cup {Nobody}]
      BY <2>2 DEF BankInv, Bank!TypeOK, Bank!Approve, Bank!Reject, Bank!Cancel, Bank!MarkPaid,
           Bank!Decide, Bank!Review, Bank!NoReview
    <3> QED
      BY <2>2, <3>1, <3>2 DEF BankInv, Bank!TypeOK, Bank!Approve, Bank!Reject, Bank!Cancel,
           Bank!MarkPaid, Bank!Decide
  <2> QED
    BY <2>1, <2>2
<1>3. LockHeld' /\ TestedVerified' /\ TestedNoneOutstanding' /\ RowAfterCommit' /\ OneOutstanding'
  BY <1>1 DEF BankInv, LockHeld, TestedVerified, TestedNoneOutstanding, RowAfterCommit,
              OneOutstanding
<1> QED
  BY <1>2, <1>3 DEF BankInv

(* The KYC waits for the lock; the revenue is in no test that must last.     *)
LEMMA EnvironmentStep ==
  ASSUME BankInv, Bank!UpdateKyc \/ Bank!Earn \/ Bank!Reverse \/ UNCHANGED Bank!vars
  PROVE  BankInv'
<1>1. Bank!TypeOK'
  BY DEF BankInv, Bank!TypeOK, Bank!UpdateKyc, Bank!Earn, Bank!Reverse, Bank!vars
<1>2. LockHeld' /\ TestedVerified' /\ TestedNoneOutstanding' /\ RowAfterCommit' /\ OneOutstanding'
  BY DEF BankInv, Bank!TypeOK, LockHeld, TestedVerified, TestedNoneOutstanding, RowAfterCommit,
         OneOutstanding, Bank!UpdateKyc, Bank!Earn, Bank!Reverse, Bank!vars
<1> QED
  BY <1>1, <1>2 DEF BankInv

(* The invariant is inductive.                                               *)
LEMMA BankInvariance == Bank!Spec => []BankInv
<1>1. BankInv /\ [Bank!Next]_Bank!vars => BankInv'
  BY LockStep, OutstandingStep, SumStep, InsertStep, EdgeStep, ReviewStep, EnvironmentStep
     DEF Bank!Next, Bank!Create
<1> QED
  BY InitBank, <1>1, PTL DEF Bank!Spec

(* Every variable keeps its type.                                            *)
THEOREM WithdrawalsTypeCorrect == Bank!Spec => []Bank!TypeOK
<1>1. BankInv => Bank!TypeOK
  BY DEF BankInv
<1> QED
  BY BankInvariance, <1>1, PTL

(* WithdrawalService::createRequest never lets two withdrawals of the        *)
(* organisation be under way together, whoever asks at the same time.        *)
THEOREM AtMostOneOutstanding == Bank!Spec => []OneOutstanding
<1>1. BankInv => OneOutstanding
  BY DEF BankInv
<1> QED
  BY BankInvariance, <1>1, PTL

(* No withdrawal is created after its organisation lost its verification.    *)
THEOREM KycHoldsAtCreation == Bank!Spec => CreatedIfVerified
<1> DEFINE Created == \A r \in Request :
             (row[r].status = "none" /\ row'[r].status # "none") => kyc = "verified"
<1>1. BankInv /\ [Bank!Next]_Bank!vars => [Created]_<<kyc, row>>
  <2> SUFFICES ASSUME BankInv, Bank!Next
               PROVE  Created
    BY DEF Bank!vars
  <2>1. ASSUME NEW q \in Request, Bank!Insert(q)
        PROVE  Created
    BY <2>1 DEF BankInv, TestedVerified, Bank!InTransaction, Bank!Insert
  <2>2. ASSUME NEW q \in Request, Bank!Receive(q) \/ Bank!LockOrganization(q) \/ Bank!CheckOutstanding(q)
                 \/ Bank!SumRevenue(q) \/ Bank!SumReserved(q) \/ Bank!Crash(q)
        PROVE  Created
    BY <2>2 DEF Bank!Receive, Bank!LockOrganization, Bank!CheckOutstanding, Bank!SumRevenue,
         Bank!SumReserved, Bank!Crash
  <2>3. ASSUME NEW a \in Reviewer, NEW q \in Request,
               \/ Bank!ReceiveReview(a, q) \/ Bank!LockRow(a, q) \/ Bank!Abandon(a, q)
               \/ Bank!Approve(a, q) \/ Bank!Reject(a, q) \/ Bank!Cancel(a, q) \/ Bank!MarkPaid(a, q)
        PROVE  Created
    BY <2>3 DEF BankInv, Bank!TypeOK, Bank!Row, Bank!ReceiveReview, Bank!LockRow, Bank!Abandon,
         Bank!Approve, Bank!Reject,
                Bank!Cancel, Bank!MarkPaid, Bank!Decide
  <2>4. CASE Bank!UpdateKyc \/ Bank!Earn \/ Bank!Reverse
    BY <2>4 DEF Bank!UpdateKyc, Bank!Earn, Bank!Reverse
  <2> QED
    BY <2>1, <2>2, <2>3, <2>4 DEF Bank!Next, Bank!Create
<1> QED
  BY BankInvariance, <1>1, PTL DEF Bank!Spec, CreatedIfVerified

(* A rejected, cancelled or paid withdrawal stays so, and no amount changes. *)
THEOREM DecisionsAreFinal == Bank!Spec => FinalIsFinal
<1> DEFINE Kept == \A r \in Request : /\ row[r].status \in IsFinal => row'[r] = row[r]
                                      /\ row[r].status # "none" => row'[r].amount = row[r].amount
<1>1. BankInv /\ [Bank!Next]_Bank!vars => [Kept]_<<kyc, row>>
  <2> SUFFICES ASSUME BankInv, Bank!Next
               PROVE  Kept
    BY DEF Bank!vars
  <2>1. ASSUME NEW q \in Request, Bank!Insert(q)
        PROVE  Kept
    <3>1. row[q].status = "none"
      BY <2>1 DEF BankInv, RowAfterCommit, Bank!Insert
    <3> QED
      BY <2>1, <3>1 DEF BankInv, Bank!TypeOK, Bank!Insert, IsFinal
  <2>2. ASSUME NEW q \in Request, Bank!Receive(q) \/ Bank!LockOrganization(q) \/ Bank!CheckOutstanding(q)
                 \/ Bank!SumRevenue(q) \/ Bank!SumReserved(q) \/ Bank!Crash(q)
        PROVE  Kept
    BY <2>2 DEF Bank!Receive, Bank!LockOrganization, Bank!CheckOutstanding, Bank!SumRevenue,
         Bank!SumReserved, Bank!Crash
  <2>3. ASSUME NEW a \in Reviewer, NEW q \in Request,
               \/ Bank!ReceiveReview(a, q) \/ Bank!LockRow(a, q) \/ Bank!Abandon(a, q)
               \/ Bank!Approve(a, q) \/ Bank!Reject(a, q) \/ Bank!Cancel(a, q) \/ Bank!MarkPaid(a, q)
        PROVE  Kept
    BY <2>3 DEF BankInv, Bank!TypeOK, Bank!Row, Bank!Status, IsFinal, Bank!ReceiveReview,
         Bank!LockRow, Bank!Abandon,
                Bank!Approve, Bank!Reject, Bank!Cancel, Bank!MarkPaid, Bank!Decide
  <2>4. CASE Bank!UpdateKyc \/ Bank!Earn \/ Bank!Reverse
    BY <2>4 DEF Bank!UpdateKyc, Bank!Earn, Bank!Reverse
  <2> QED
    BY <2>1, <2>2, <2>3, <2>4 DEF Bank!Next, Bank!Create
<1> QED
  BY BankInvariance, <1>1, PTL DEF Bank!Spec, FinalIsFinal

-----------------------------------------------------------------------------
(* The sum that createRequest reads is the one that is promised about.       *)
LEMMA SameReserved == Bank!TotalReserved = TotalReserved
  BY DEF Bank!TotalReserved, TotalReserved, Bank!ReservesBalance, ReservesBalance,
         Bank!FoldFunctionOnSet, FoldFunctionOnSet, Bank!MapThenFoldSet, MapThenFoldSet

Amount == [r \in Request |-> row[r].amount]
Reserving == {r \in Request : row[r].status \in ReservesBalance}

(* What a transaction has read of the revenue, and tested against it, is     *)
(* still earned, and no other withdrawal has been reserved since.            *)
TestedFunded ==
  /\ \A r \in Request : stage[r] \in {"reserved", "insert"} => loc[r].revenue <= earned
  /\ \A r \in Request : stage[r] = "insert" => loc[r].amount + TotalReserved <= earned

Funded == TotalReserved <= earned /\ TestedFunded

(* What RevenueService sums, before and after a step.                        *)
LEMMA ReservedIsSum ==
  /\ TotalReserved = Sum(Amount, Reserving)
  /\ TotalReserved' = Sum(Amount', Reserving')
<1>1. TotalReserved = Sum(Amount, Reserving)
  BY SumIsFold DEF TotalReserved, Amount, Reserving
<1>2. (TotalReserved = Sum(Amount, Reserving))'
  BY <1>1, PTL
<1> QED
  BY <1>1, <1>2

(* It is a sum of finitely many naturals.                                    *)
LEMMA ReservedTypes ==
  ASSUME Bank!TypeOK
  PROVE  /\ IsFiniteSet(Reserving) /\ \A r \in Request : Amount[r] \in Nat
         /\ TotalReserved \in Nat
<1>1. IsFiniteSet(Reserving) /\ \A r \in Request : Amount[r] \in Nat
  BY FS_Subset DEF Bank!TypeOK, Bank!Row, Reserving, Amount
<1>2. Sum(Amount, Reserving) \in Nat
  BY <1>1, SumType DEF Reserving
<1> QED
  BY <1>1, <1>2, ReservedIsSum

(* The sum is over the rows.                                                 *)
LEMMA ReservedKept == ASSUME UNCHANGED row PROVE TotalReserved' = TotalReserved
<1>1. Amount' = Amount /\ Reserving' = Reserving
  BY DEF Amount, Reserving
<1> QED
  BY <1>1, ReservedIsSum

(* A decision reserves nothing that was not reserved.                        *)
LEMMA ReservedDecided ==
  ASSUME Bank!TypeOK, NEW a, NEW r \in Request, NEW from \in Bank!Status, NEW to \in Bank!Status,
         from \in ReservesBalance, Bank!Decide(a, r, from, to)
  PROVE  TotalReserved' <= TotalReserved
<1>1. Amount' = Amount /\ Reserving' \in SUBSET Reserving
  BY DEF Bank!Decide, Bank!TypeOK, Bank!Row, Amount, Reserving
<1>2. TotalReserved' = Sum(Amount, Reserving')
  BY <1>1, ReservedIsSum
<1>3. IsFiniteSet(Reserving) /\ \A q \in Reserving : Amount[q] \in Nat
  BY ReservedTypes DEF Reserving
<1> QED
  BY <1>1, <1>2, <1>3, ReservedIsSum, SumMonotone

(* A new withdrawal reserves its amount.                                     *)
LEMMA ReservedInserted ==
  ASSUME BankInv, BankInv', NEW r \in Request, Bank!Insert(r)
  PROVE  TotalReserved' = TotalReserved + loc[r].amount
<1>1. r \notin Reserving
  BY DEF BankInv, RowAfterCommit, Bank!Insert, Reserving, ReservesBalance
<1>2. Reserving' = Reserving \cup {r} /\ Amount'[r] = loc[r].amount
  BY DEF BankInv, Bank!TypeOK, Bank!Insert, Reserving, ReservesBalance, Amount
<1>3. \A q \in Reserving : Amount'[q] = Amount[q]
  BY <1>1 DEF BankInv, Bank!TypeOK, Bank!Insert, Reserving, Amount
<1>4. /\ IsFiniteSet(Reserving)
      /\ \A q \in Reserving \cup {r} : Amount'[q] \in Nat
  <2>1. IsFiniteSet(Reserving)
    BY ReservedTypes DEF BankInv
  <2> QED
    BY <2>1 DEF Reserving, Amount, BankInv, Bank!TypeOK, Bank!Row
<1>5. Sum(Amount', Reserving \cup {r}) = Sum(Amount, Reserving) + Amount'[r]
  BY <1>1, <1>3, <1>4, SumAdd
<1>6. TotalReserved' = Sum(Amount', Reserving')
  BY ReservedIsSum
<1> QED
  BY <1>2, <1>5, <1>6, ReservedIsSum

(* Every step keeps the reserved withdrawals funded: a new one passed its    *)
(* test under the lock, a decision only lowers the sum, and what was earned  *)
(* only grows.                                                               *)
LEMMA FundedStep ==
  ASSUME BankInv, BankInv', Funded, [Bank!Next]_Bank!vars
  PROVE  Funded'
<1> USE DEF Funded, TestedFunded
<1>1. /\ TotalReserved \in Nat /\ TotalReserved' \in Nat /\ earned \in Nat /\ earned' \in Nat
      /\ \A r \in Request : /\ loc[r].amount \in Nat /\ loc[r].revenue \in Nat
                             /\ loc'[r].amount \in Nat /\ loc'[r].revenue \in Nat
  <2>1. TotalReserved \in Nat /\ (Bank!TypeOK => TotalReserved \in Nat)'
    BY ReservedTypes, PTL DEF BankInv
  <2> QED
    BY <2>1 DEF BankInv, Bank!TypeOK, Bank!Local
<1>2. ASSUME NEW r \in Request, Bank!Receive(r) \/ Bank!LockOrganization(r) \/ Bank!CheckOutstanding(r) \/ Bank!Crash(r)
      PROVE  Funded'
  <2>1. UNCHANGED <<row, earned>>
    BY <1>2 DEF Bank!Receive, Bank!LockOrganization, Bank!CheckOutstanding, Bank!Crash
  <2>2. /\ stage'[r] \notin {"reserved", "insert"}
        /\ \A q \in Request : q # r => stage'[q] = stage[q] /\ loc'[q] = loc[q]
    BY <1>2 DEF BankInv, Bank!TypeOK, Bank!Receive, Bank!LockOrganization,
         Bank!CheckOutstanding, Bank!Crash, Bank!Goto, Bank!Finish
  <2> QED
    BY <2>1, <2>2, ReservedKept
<1>3. ASSUME NEW r \in Request, Bank!SumRevenue(r) PROVE Funded'
  <2>1. UNCHANGED <<row, earned>> /\ loc'[r].revenue <= earned /\ stage'[r] = "reserved"
    BY <1>3 DEF BankInv, Bank!TypeOK, Bank!SumRevenue, Bank!Goto, Revenue
  <2>2. \A q \in Request : q # r => stage'[q] = stage[q] /\ loc'[q] = loc[q]
    BY <1>3 DEF BankInv, Bank!TypeOK, Bank!SumRevenue, Bank!Goto
  <2> QED
    BY <2>1, <2>2, ReservedKept
<1>4. ASSUME NEW r \in Request, Bank!SumReserved(r) PROVE Funded'
  <2>1. UNCHANGED <<row, earned>>
        /\ \A q \in Request : q # r => stage'[q] = stage[q] /\ loc'[q] = loc[q]
    BY <1>4 DEF BankInv, Bank!TypeOK, Bank!SumReserved, Bank!Goto, Bank!Finish
  <2>2. CASE loc[r].amount + TotalReserved > loc[r].revenue
    <3>1. stage'[r] = "done"
      BY <1>4, <2>2, SameReserved DEF BankInv, Bank!TypeOK, Bank!SumReserved, Bank!Goto,
           Bank!Finish
    <3> QED
      BY <2>1, <3>1, ReservedKept
  <2>3. CASE ~(loc[r].amount + TotalReserved > loc[r].revenue)
    <3>1. loc' = loc /\ loc[r].revenue <= earned
      BY <1>4, <2>3, SameReserved DEF Bank!SumReserved
    <3>2. loc[r].amount + TotalReserved <= earned
      BY <1>1, <2>3, <3>1
    <3> QED
      BY <2>1, <3>1, <3>2, ReservedKept
  <2> QED
    BY <2>2, <2>3
<1>5. ASSUME NEW r \in Request, Bank!Insert(r) PROVE Funded'
  <2>1. TotalReserved' = TotalReserved + loc[r].amount
    BY <1>5, ReservedInserted
  <2>2. stage[r] = "insert" /\ UNCHANGED earned
    BY <1>5 DEF Bank!Insert
  <2>3. \A q \in Request : stage'[q] \notin {"reserved", "insert"}
    BY <1>5 DEF BankInv, Bank!TypeOK, LockHeld, Bank!InTransaction, Bank!Insert, Bank!Finish,
         Bank!Goto
  <2> QED
    BY <1>1, <2>1, <2>2, <2>3
<1>6. ASSUME NEW a \in Reviewer, NEW r \in Request,
             Bank!Approve(a, r) \/ Bank!Reject(a, r) \/ Bank!Cancel(a, r) \/ Bank!MarkPaid(a, r)
      PROVE  Funded'
  <2>1. TotalReserved' <= TotalReserved
    BY <1>6, ReservedDecided
       DEF Bank!Approve, Bank!Reject, Bank!Cancel, Bank!MarkPaid, BankInv, Bank!Status,
            ReservesBalance
  <2>2. UNCHANGED <<earned, stage, loc>>
    BY <1>6 DEF Bank!Approve, Bank!Reject, Bank!Cancel, Bank!MarkPaid, Bank!Decide
  <2> QED
    BY <1>1, <2>1, <2>2
<1>7. CASE \/ \E a \in Reviewer, r \in Request :
                Bank!ReceiveReview(a, r) \/ Bank!LockRow(a, r) \/ Bank!Abandon(a, r)
           \/ Bank!UpdateKyc \/ Bank!Earn \/ Bank!Reverse \/ UNCHANGED Bank!vars
  <2>1. UNCHANGED <<row, stage, loc>>
    BY <1>7 DEF Bank!ReceiveReview, Bank!LockRow, Bank!Abandon, Bank!UpdateKyc, Bank!Earn,
         Bank!Reverse, Bank!vars
  <2>3. earned' >= earned
    <3>1. CASE Bank!Earn
      BY <1>1, <3>1 DEF Bank!Earn
    <3>2. CASE \/ \E a \in Reviewer, r \in Request :
                    Bank!ReceiveReview(a, r) \/ Bank!LockRow(a, r) \/ Bank!Abandon(a, r)
               \/ Bank!UpdateKyc \/ Bank!Reverse \/ UNCHANGED Bank!vars
      <4>1. earned' = earned
        BY <3>2 DEF Bank!ReceiveReview, Bank!LockRow, Bank!Abandon, Bank!UpdateKyc,
             Bank!Reverse, Bank!vars
      <4> QED
        BY <1>1, <4>1
    <3> QED
      BY <1>7, <3>1, <3>2
  <2>2. TotalReserved' = TotalReserved
    BY <2>1, ReservedKept
  <2> QED
    BY <1>1, <2>1, <2>2, <2>3
<1> QED
  BY <1>2, <1>3, <1>4, <1>5, <1>6, <1>7 DEF Bank!Next, Bank!Create

(* The withdrawals that reserve money never exceed what was earned, although *)
(* a request reads the revenue and the sum of the others by two queries, and *)
(* payments, reversals and decisions go on meanwhile.                        *)
THEOREM ReservedIsEarned == Bank!Spec => []NeverOverdrawn
<1>1. Bank!Init => Funded
  <2> SUFFICES ASSUME Bank!Init PROVE Funded
    OBVIOUS
  <2>1. Reserving = {} /\ earned = 0 /\ \A r \in Request : stage[r] = "idle"
    BY DEF Bank!Init, Reserving, ReservesBalance
  <2>2. TotalReserved = 0
    BY <2>1, ReservedIsSum, SumUnfold, FS_EmptySet
  <2> QED
    BY <2>1, <2>2 DEF Funded, TestedFunded
<1>2. BankInv /\ BankInv' /\ Funded /\ [Bank!Next]_Bank!vars => Funded'
  BY FundedStep
<1>3. BankInv /\ Funded => NeverOverdrawn
  BY ReservedTypes DEF BankInv, Bank!TypeOK, Funded, NeverOverdrawn, Revenue
<1> QED
  BY BankInvariance, <1>1, <1>2, <1>3, PTL DEF Bank!Spec
=============================================================================
