------------------------- MODULE PrimitivesProofs --------------------------
(* Proofs about the primitives: the read/write lock for any finite set of  *)
(* tasks, contexts for any chain and any subscribers, the watches, the     *)
(* thread pool, the life cycle of a Kafka source, the indexed heap, and    *)
(* the bytes of integers.                                                  *)
EXTENDS MCPrimitives, FiniteSetTheorems, SequenceTheorems, WellFoundedInduction, TLAPS

(***************************************************************************)
(* Numbers.                                                                *)
(***************************************************************************)
(* A non-empty set of numbers has a least element. Induction enters the *)
(* proofs here, as the well-foundedness of the numbers.                 *)
LEMMA FirstOf ==
  ASSUME NEW T, T \subseteq Nat, T # {}
  PROVE  \E x \in T : \A y \in T : ~(y < x)
<1> DEFINE R == {ss \in Nat \X Nat : ss[1] < ss[2]}
<1>1. IsWellFoundedOn(R, Nat)
  BY NatLessThanWellFounded DEF OpToRel
<1> HIDE DEF R
<1>2. \E x \in T : \A y \in T : ~(<<y, x>> \in R)
  BY <1>1, WFMin
<1> QED BY <1>2 DEF R

(* A set of numbers that has 0 and each successor has every number. *)
LEMMA Counting ==
  ASSUME NEW S, 0 \in S, \A n \in Nat : n \in S => n + 1 \in S
  PROVE  Nat \subseteq S
<1> SUFFICES ASSUME Nat \ S # {} PROVE FALSE OBVIOUS
<1>1. PICK x \in Nat \ S : \A y \in Nat \ S : ~(y < x)
  BY FirstOf
<1>2. x - 1 \in Nat /\ x - 1 \in S
  BY <1>1
<1> QED BY <1>1, <1>2

(* f[n] is what n applications of F make of x. *)
Iterates(f, X, F, x) ==
  f \in [Nat -> X] /\ f[0] = x /\ \A n \in Nat : f[n + 1] = F[f[n]]

(* Every function of a set into itself can be applied any number of times:   *)
(* the finite runs agree wherever both are defined, and together they are f. *)
LEMMA Iterated ==
  ASSUME NEW X, NEW F \in [X -> X], NEW x \in X
  PROVE  \E f : Iterates(f, X, F, x)
<1> DEFINE Starts(n) == {g \in [0 .. n -> X] : g[0] = x /\ \A k \in 0 .. n - 1 : g[k + 1] = F[g[k]]}
           S == {n \in Nat : Starts(n) # {}}
           A == {k \in Nat : \A n, m \in Nat : \A g \in Starts(n), h \in Starts(m) :
                              k <= n /\ k <= m => g[k] = h[k]}
<1>1. 0 \in S
  <2>1. [k \in 0 .. 0 |-> x] \in Starts(0) OBVIOUS
  <2> QED BY <2>1
<1>2. ASSUME NEW n \in Nat, n \in S PROVE n + 1 \in S
  <2>1. PICK g : g \in Starts(n) BY <1>2
  <2>2. [k \in 0 .. n + 1 |-> IF k = n + 1 THEN F[g[n]] ELSE g[k]] \in Starts(n + 1) BY <2>1
  <2> QED BY <2>2
<1>3. Nat \subseteq S
  <2> HIDE DEF S
  <2> QED BY <1>1, <1>2, Counting
<1>4. 0 \in A OBVIOUS
<1>5. ASSUME NEW k \in Nat, k \in A PROVE k + 1 \in A
  <2> HIDE DEF Starts
  <2> SUFFICES ASSUME NEW n \in Nat, NEW m \in Nat, NEW g \in Starts(n), NEW h \in Starts(m),
                      k + 1 <= n, k + 1 <= m
               PROVE  g[k + 1] = h[k + 1]
    OBVIOUS
  <2>1. k <= n /\ k <= m
    OBVIOUS
  <2>2. g[k] = h[k]
    BY <1>5, <2>1
  <2>3. g[k + 1] = F[g[k]] /\ h[k + 1] = F[h[k]]
    BY DEF Starts
  <2> QED BY <2>2, <2>3
<1>6. Nat \subseteq A
  <2> HIDE DEF A
  <2> QED BY <1>4, <1>5, Counting
<1> DEFINE part == [n \in Nat |-> CHOOSE g : g \in Starts(n)]
           f == [n \in Nat |-> part[n][n]]
<1>7. \A n \in Nat : part[n] \in Starts(n) BY <1>3
<1>8. f \in [Nat -> X]
  <2> SUFFICES ASSUME NEW n \in Nat PROVE part[n][n] \in X OBVIOUS
  <2> HIDE DEF part
  <2> QED BY <1>7
<1>9. f[0] = x BY <1>7
<1>10. ASSUME NEW n \in Nat PROVE f[n + 1] = F[f[n]]
  <2>0. n + 1 \in Nat OBVIOUS
  <2> HIDE DEF part
  <2>1. part[n] \in Starts(n) /\ part[n + 1] \in Starts(n + 1)
    <3> HIDE DEF Starts
    <3> QED BY <1>7, <2>0
  <2>2. part[n + 1][n] = part[n][n]
    <3>1. n <= n /\ n <= n + 1 OBVIOUS
    <3>2. n \in A
      <4> HIDE DEF A
      <4> QED BY <1>6
    <3> HIDE DEF Starts
    <3> QED BY <2>0, <2>1, <3>1, <3>2
  <2>3. part[n + 1][n + 1] = F[part[n + 1][n]]
    <3>1. n \in 0 .. (n + 1) - 1 OBVIOUS
    <3>2. \A k \in 0 .. (n + 1) - 1 : part[n + 1][k + 1] = F[part[n + 1][k]]
      BY <2>1, Zenon
    <3> QED BY <3>1, <3>2, Zenon
  <2> QED BY <2>2, <2>3
<1> HIDE DEF f
<1> QED BY <1>8, <1>9, <1>10 DEF Iterates

(***************************************************************************)
(* The read/write lock.                                                    *)
(***************************************************************************)
(* A task that changes its place changes the size of two groups by one. *)
LEMMA Move ==
  ASSUME TypeOK, NEW p \in Procs, NEW w \in States, pc[p] # w,
         pc' = [pc EXCEPT ![p] = w], NEW s \in States
  PROVE  /\ In(s)' = IF s = w THEN In(s) \union {p} ELSE In(s) \ {p}
         /\ Cardinality(In(s)) \in Nat
         /\ Cardinality(In(s)') = IF s = w THEN Cardinality(In(s)) + 1
                                  ELSE IF s = pc[p] THEN Cardinality(In(s)) - 1
                                  ELSE Cardinality(In(s))
<1>1. In(s)' = IF s = w THEN In(s) \union {p} ELSE In(s) \ {p}
  BY DEF TypeOK, In
<1>2. IsFiniteSet(In(s))
  BY ProcsFinite, FS_Subset DEF In
<1>3. Cardinality(In(s)) \in Nat
  BY <1>2, FS_CardinalityType
<1>4. p \in In(s) <=> pc[p] = s
  BY DEF In
<1>5. Cardinality(In(s) \union {p}) = IF p \in In(s) THEN Cardinality(In(s)) ELSE Cardinality(In(s)) + 1
  BY <1>2, FS_AddElement
<1>6. Cardinality(In(s) \ {p}) = IF p \in In(s) THEN Cardinality(In(s)) - 1 ELSE Cardinality(In(s))
  BY <1>2, FS_RemoveElement
<1> QED
  BY <1>1, <1>3, <1>4, <1>5, <1>6

(* What the counters say about who holds the lock and who waits for it. *)
LEMMA Counters ==
  ASSUME TypeOK, CountsExact
  PROVE  /\ readers \in Nat /\ waitingWriters \in Nat
         /\ readers = 0 <=> In("reading") = {}
         /\ waitingWriters = 0 <=> In("waitWrite") = {}
<1>1. IsFiniteSet(In("reading")) /\ IsFiniteSet(In("waitWrite"))
  BY ProcsFinite, FS_Subset DEF In
<1> QED
  BY <1>1, FS_CardinalityType, FS_EmptySet DEF CountsExact

(* Every step keeps the types. *)
LEMMA StepTypeOK == TypeOK /\ [Next]_vars => TypeOK'
<1> SUFFICES ASSUME TypeOK, [Next]_vars PROVE TypeOK'
  OBVIOUS
<1> USE DEF Waiting, States
<1>1. ASSUME NEW p \in Procs, AskRead(p) \/ RetryRead(p) \/ CancelRead(p) \/ LeaveRead(p) PROVE TypeOK'
  BY <1>1 DEF TypeOK, AskRead, RetryRead, CancelRead, LeaveRead
<1>2. ASSUME NEW p \in Procs, AskWrite(p) \/ RetryWrite(p) \/ CancelWrite(p) \/ LeaveWrite(p) PROVE TypeOK'
  <2>1. writer' \in BOOLEAN
    BY <1>2, Zenon DEF TypeOK, AskWrite, RetryWrite, CancelWrite, LeaveWrite
  <2>2. pc' \in [Procs -> States] /\ readers' \in Int /\ waitingWriters' \in Int
    BY <1>2 DEF TypeOK, AskWrite, RetryWrite, CancelWrite, LeaveWrite
  <2>3. notified' \subseteq Waiting'
    BY <1>2 DEF TypeOK, AskWrite, RetryWrite, CancelWrite, LeaveWrite
  <2> QED
    BY <2>1, <2>2, <2>3, Zenon DEF TypeOK
<1>3. ASSUME UNCHANGED vars PROVE TypeOK'
  BY <1>3 DEF TypeOK, vars
<1> QED
  BY <1>1, <1>2, <1>3 DEF Next

(* The counters stay exact when they follow the move of one task. *)
LEMMA CountedMove ==
  ASSUME TypeOK, CountsExact, Exclusion,
         NEW p \in Procs, NEW w \in States, pc[p] # w, pc' = [pc EXCEPT ![p] = w],
         readers' = IF w = "reading" THEN readers + 1
                    ELSE IF pc[p] = "reading" THEN readers - 1 ELSE readers,
         waitingWriters' = IF w = "waitWrite" THEN waitingWriters + 1
                           ELSE IF pc[p] = "waitWrite" THEN waitingWriters - 1 ELSE waitingWriters,
         writer' <=> (w = "writing" \/ (pc[p] # "writing" /\ writer))
  PROVE  CountsExact'
<1>0. "reading" \in States /\ "waitWrite" \in States /\ "writing" \in States
  BY DEF States
<1>1. Cardinality(In("reading")') = IF "reading" = w THEN Cardinality(In("reading")) + 1
                                    ELSE IF "reading" = pc[p] THEN Cardinality(In("reading")) - 1
                                    ELSE Cardinality(In("reading"))
  BY <1>0, Move
<1>2. Cardinality(In("waitWrite")') = IF "waitWrite" = w THEN Cardinality(In("waitWrite")) + 1
                                      ELSE IF "waitWrite" = pc[p] THEN Cardinality(In("waitWrite")) - 1
                                      ELSE Cardinality(In("waitWrite"))
  BY <1>0, Move
<1>3. In("writing")' = IF "writing" = w THEN In("writing") \union {p} ELSE In("writing") \ {p}
  BY <1>0, Move
<1>4. readers' = Cardinality(In("reading"))' /\ waitingWriters' = Cardinality(In("waitWrite"))'
  BY <1>1, <1>2 DEF CountsExact
<1>5. pc[p] = "writing" => In("writing") = {p}
  BY DEF Exclusion, In
<1>6. p \in In("writing") <=> pc[p] = "writing"
  BY DEF In
<1>7. (In("writing")' # {}) <=> (w = "writing" \/ (pc[p] # "writing" /\ In("writing") # {}))
  BY <1>3, <1>5, <1>6
<1>8. writer' <=> In("writing")' # {}
  BY <1>7, Zenon DEF CountsExact
<1> QED
  BY <1>4, <1>8, Zenon DEF CountsExact

(* Every step keeps the counters exact. *)
LEMMA StepCounts == TypeOK /\ CountsExact /\ Exclusion /\ [Next]_vars => CountsExact'
<1> SUFFICES ASSUME TypeOK, CountsExact, Exclusion, [Next]_vars PROVE CountsExact'
  OBVIOUS
<1>0. ASSUME UNCHANGED <<readers, writer, waitingWriters, pc>> PROVE CountsExact'
  BY <1>0 DEF CountsExact, In
<1> USE DEF States
<1>1. ASSUME NEW p \in Procs, AskRead(p) PROVE CountsExact'
  <2>1. CASE CanRead
    BY <1>1, <2>1, CountedMove DEF AskRead
  <2>2. CASE ~CanRead
    BY <1>1, <2>2, CountedMove DEF AskRead
  <2> QED
    BY <2>1, <2>2
<1>2. ASSUME NEW p \in Procs, RetryRead(p) PROVE CountsExact'
  <2>1. CASE CanRead
    BY <1>2, <2>1, CountedMove DEF RetryRead
  <2>2. CASE ~CanRead
    BY <1>0, <1>2, <2>2 DEF RetryRead
  <2> QED
    BY <2>1, <2>2
<1>3. ASSUME NEW p \in Procs, CancelRead(p) PROVE CountsExact'
  BY <1>3, CountedMove DEF CancelRead
<1>4. ASSUME NEW p \in Procs, LeaveRead(p) PROVE CountsExact'
  BY <1>4, CountedMove DEF LeaveRead
<1>5. ASSUME NEW p \in Procs, AskWrite(p) PROVE CountsExact'
  <2>1. CASE CanWrite
    BY <1>5, <2>1, CountedMove DEF AskWrite
  <2>2. CASE ~CanWrite
    BY <1>5, <2>2, CountedMove DEF AskWrite
  <2> QED
    BY <2>1, <2>2
<1>6. ASSUME NEW p \in Procs, RetryWrite(p) PROVE CountsExact'
  <2>1. CASE CanWrite
    BY <1>6, <2>1, CountedMove DEF RetryWrite
  <2>2. CASE ~CanWrite
    BY <1>0, <1>6, <2>2 DEF RetryWrite
  <2> QED
    BY <2>1, <2>2
<1>7. ASSUME NEW p \in Procs, CancelWrite(p) PROVE CountsExact'
  BY <1>7, CountedMove DEF CancelWrite
<1>8. ASSUME NEW p \in Procs, LeaveWrite(p) PROVE CountsExact'
  BY <1>8, CountedMove DEF LeaveWrite
<1>9. ASSUME UNCHANGED vars PROVE CountsExact'
  BY <1>0, <1>9 DEF vars
<1> QED
  BY <1>1, <1>2, <1>3, <1>4, <1>5, <1>6, <1>7, <1>8, <1>9 DEF Next

(* Every step keeps writers alone. *)
LEMMA StepExclusion == TypeOK /\ CountsExact /\ Exclusion /\ [Next]_vars => Exclusion'
<1> SUFFICES ASSUME TypeOK, CountsExact, Exclusion, [Next]_vars PROVE Exclusion'
  OBVIOUS
<1>1. ~writer => In("writing") = {}
  BY DEF CountsExact
<1>2. readers = 0 => In("reading") = {}
  BY Counters
<1>3. ASSUME NEW p \in Procs, AskRead(p) \/ RetryRead(p) \/ CancelRead(p) \/ LeaveRead(p) PROVE Exclusion'
  BY <1>1, <1>3 DEF AskRead, RetryRead, CancelRead, LeaveRead, TypeOK, Exclusion, In, CanRead
<1>4. ASSUME NEW p \in Procs, AskWrite(p) \/ RetryWrite(p) \/ CancelWrite(p) \/ LeaveWrite(p) PROVE Exclusion'
  BY <1>1, <1>2, <1>4 DEF AskWrite, RetryWrite, CancelWrite, LeaveWrite, TypeOK, Exclusion, In, CanWrite
<1>5. ASSUME UNCHANGED vars PROVE Exclusion'
  BY <1>5 DEF Exclusion, In, vars
<1> QED
  BY <1>3, <1>4, <1>5 DEF Next

(* Whatever makes a predicate true notifies those who wait on it. *)
LEMMA StepWakeup == TypeOK /\ CountsExact /\ NoLostWakeup /\ [Next]_vars => NoLostWakeup'
<1> SUFFICES ASSUME TypeOK, CountsExact, NoLostWakeup, [Next]_vars PROVE NoLostWakeup'
  OBVIOUS
<1>0. readers \in Nat /\ waitingWriters \in Nat
  BY Counters
<1> USE DEF CanRead, CanWrite, In, Waiting
<1>1. ASSUME NEW p \in Procs, AskRead(p) PROVE NoLostWakeup'
  BY <1>0, <1>1 DEF AskRead, NoLostWakeup, TypeOK
<1>2. ASSUME NEW p \in Procs, RetryRead(p) PROVE NoLostWakeup'
  BY <1>0, <1>2 DEF RetryRead, NoLostWakeup, TypeOK
<1>3. ASSUME NEW p \in Procs, CancelRead(p) PROVE NoLostWakeup'
  BY <1>0, <1>3 DEF CancelRead, NoLostWakeup, TypeOK
<1>4. ASSUME NEW p \in Procs, LeaveRead(p) PROVE NoLostWakeup'
  BY <1>0, <1>4 DEF LeaveRead, NoLostWakeup, TypeOK
<1>5. ASSUME NEW p \in Procs, AskWrite(p) PROVE NoLostWakeup'
  BY <1>0, <1>5 DEF AskWrite, NoLostWakeup, TypeOK
<1>6. ASSUME NEW p \in Procs, RetryWrite(p) PROVE NoLostWakeup'
  BY <1>0, <1>6 DEF RetryWrite, NoLostWakeup, TypeOK
<1>7. ASSUME NEW p \in Procs, CancelWrite(p) PROVE NoLostWakeup'
  BY <1>0, <1>7 DEF CancelWrite, NoLostWakeup, TypeOK
<1>8. ASSUME NEW p \in Procs, LeaveWrite(p) PROVE NoLostWakeup'
  BY <1>0, <1>8 DEF LeaveWrite, NoLostWakeup, TypeOK
<1>9. ASSUME UNCHANGED vars PROVE NoLostWakeup'
  BY <1>9 DEF NoLostWakeup, vars
<1> QED
  BY <1>1, <1>2, <1>3, <1>4, <1>5, <1>6, <1>7, <1>8, <1>9 DEF Next

(* The types, exact counters, exclusion and wake-ups hold together. *)
THEOREM LockInvariant == Spec => []IInv
<1>1. Init => IInv
  <2> SUFFICES ASSUME Init PROVE IInv
    OBVIOUS
  <2>1. In("reading") = {} /\ In("waitWrite") = {} /\ In("writing") = {} /\ In("waitRead") = {}
    BY DEF Init, In
  <2>2. TypeOK
    <3>1. writer \in BOOLEAN
      BY Zenon DEF Init
    <3> QED
      BY <3>1 DEF Init, TypeOK, States, Waiting
  <2>3. CountsExact
    BY <2>1, FS_EmptySet DEF Init, CountsExact
  <2> QED
    BY <2>1, <2>2, <2>3 DEF IInv, Exclusion, NoLostWakeup
<1>2. IInv /\ [Next]_vars => IInv'
  BY StepTypeOK, StepCounts, StepExclusion, StepWakeup DEF IInv
<1> QED
  BY <1>1, <1>2, PTL DEF Spec

(* A writer never shares the lock, for any number of tasks and any pattern *)
(* of cancellations.                                                       *)
THEOREM WritersExclude == Spec => []Exclusion
<1>1. IInv => Exclusion
  BY DEF IInv
<1> QED
  BY <1>1, LockInvariant, PTL

(* No task sleeps on a predicate that has become true. *)
THEOREM LockWakeups == Spec => []NoLostWakeup
<1>1. IInv => NoLostWakeup
  BY DEF IInv
<1> QED
  BY <1>1, LockInvariant, PTL

(* Once a writer waits, no task begins to read. *)
THEOREM WritersFirst == Spec => WriterFirst
<1>1. IInv /\ [Next]_vars => [In("waitWrite") # {} => In("reading")' \subseteq In("reading")]_vars
  <2> SUFFICES ASSUME IInv, Next, In("waitWrite") # {} PROVE In("reading")' \subseteq In("reading")
    OBVIOUS
  <2>1. ~CanRead
    BY Counters DEF IInv, CanRead
  <2>2. TypeOK
    BY DEF IInv
  <2>3. ASSUME NEW p \in Procs, AskRead(p) \/ RetryRead(p) \/ CancelRead(p) \/ LeaveRead(p)
        PROVE  In("reading")' \subseteq In("reading")
    BY <2>1, <2>2, <2>3 DEF AskRead, RetryRead, CancelRead, LeaveRead, In, TypeOK
  <2>4. ASSUME NEW p \in Procs, AskWrite(p) \/ RetryWrite(p) \/ CancelWrite(p) \/ LeaveWrite(p)
        PROVE  In("reading")' \subseteq In("reading")
    BY <2>2, <2>4 DEF AskWrite, RetryWrite, CancelWrite, LeaveWrite, In, TypeOK
  <2> QED
    BY <2>3, <2>4 DEF Next
<1> QED
  BY <1>1, LockInvariant, PTL DEF Spec, WriterFirst

(***************************************************************************)
(* The contexts.                                                           *)
(***************************************************************************)
Places == {"new", "installing", "notifying", "checking", "cleaning", "added", "removing", "removed"}

Thread ==
  [at : {"idle", "flagged", "calling"} \union Subscribers, todo : SUBSET Subscribers, left : SUBSET Context!Chain]

ContextTypes ==
  /\ cancelled \in SUBSET Context!Chain
  /\ table \in [Context!Chain -> SUBSET Subscribers]
  /\ claim \in SUBSET Subscribers
  /\ calls \in [Subscribers -> {0, 1}]
  /\ at \in [Subscribers -> Places]
  /\ left \in [Subscribers -> SUBSET Context!Chain]
  /\ canceller \in [Context!Chain -> Thread]

(* Who cancels has set the flag, and runs a callback that it is to run;    *)
(* no two threads run the same.                                            *)
Cancellers ==
  /\ \A c \in Context!Chain : c \in cancelled <=> canceller[c].at # "idle"
  /\ \A c \in Context!Chain : canceller[c].at \in Subscribers => canceller[c].at \in canceller[c].todo
  /\ \A c, d \in Context!Chain : canceller[c].at = canceller[d].at /\ canceller[c].at \in Subscribers => c = d

(* A notification that nobody has claimed was not made; one that somebody  *)
(* has claimed was made, is being made, or was given up by its remove().   *)
ClaimTells ==
  \A s \in Subscribers :
    /\ s \in claim => calls[s] = 0 /\ ~Context!Busy(s) /\ at[s] \in {"installing", "checking", "added"}
    /\ at[s] \in {"new", "notifying"} => calls[s] = 0 /\ ~Context!Busy(s)
    /\ Context!Busy(s) => calls[s] = 0
    /\ at[s] \in {"installing", "checking", "cleaning", "added"} /\ s \notin claim
       => calls[s] = 1 \/ Context!Busy(s)

(* An unclaimed notification is in every context the thread has been to,   *)
(* and once the flags were read every cancellation will come to it.        *)
Told ==
  \A s \in claim :
    /\ at[s] = "installing" => \A c \in Context!Chain : c \in left[s] \/ s \in table[c]
    /\ at[s] \in {"checking", "added"} =>
         \A c \in Context!Chain :
           /\ s \in table[c]
           /\ c \in cancelled => canceller[c].at = "flagged" \/ s \in canceller[c].todo

(* What a context keeps for a claimed notification will be cleaned up. *)
Swept ==
  \A c \in Context!Chain : \A s \in table[c] :
    \/ s \in claim \/ at[s] \in {"installing", "checking"}
    \/ at[s] \in {"notifying", "cleaning", "removing"} /\ c \in left[s]
    \/ \E d \in Context!Chain : canceller[d].at = s /\ c \in canceller[d].left

ContextInv == ContextTypes /\ Cancellers /\ ClaimTells /\ Told /\ Swept

LEMMA InitContextInv == Context!Init => ContextInv
  BY ContextAssumption DEF Context!Init, ContextInv, ContextTypes, Thread, Places, Cancellers,
       ClaimTells, Told, Swept, Context!Busy, Context!Resting

(* A thread that cancels takes up another callback, or a list of them. *)
LEMMA ThreadAt ==
  ASSUME ContextTypes, NEW c \in Context!Chain,
         NEW a \in {"idle", "flagged", "calling"} \union Subscribers, NEW t \in SUBSET Subscribers,
         canceller' = [canceller EXCEPT ![c].at = a, ![c].todo = t]
  PROVE  /\ canceller' \in [Context!Chain -> Thread]
         /\ canceller'[c].at = a /\ canceller'[c].todo = t /\ canceller'[c].left = canceller[c].left
         /\ \A d \in Context!Chain : d # c => canceller'[d] = canceller[d]
<1> DEFINE q == [[canceller[c] EXCEPT !.at = a] EXCEPT !.todo = t]
<1>1. canceller[c] \in Thread
  BY DEF ContextTypes
<1>2. q \in Thread /\ q.at = a /\ q.todo = t /\ q.left = canceller[c].left
  BY <1>1 DEF Thread
<1>3. canceller' = [canceller EXCEPT ![c] = q]
  BY DEF ContextTypes
<1> HIDE DEF q
<1>4. canceller'[c] = q /\ \A d \in Context!Chain : d # c => canceller'[d] = canceller[d]
  BY <1>3 DEF ContextTypes
<1>5. canceller' \in [Context!Chain -> Thread]
  BY <1>2, <1>3 DEF ContextTypes
<1> QED
  BY <1>2, <1>4, <1>5

LEMMA AddStep == ASSUME ContextInv, NEW s \in Subscribers, Context!Add(s) PROVE ContextInv'
<1> USE DEF Context!Add, Context!Go
<1>0. /\ s \notin {"idle", "flagged", "calling"} /\ UNCHANGED <<cancelled, canceller>>
      /\ \A t \in Subscribers : Context!Busy(t)' <=> Context!Busy(t)
  BY ContextAssumption DEF Context!Busy
<1>1. ContextTypes'
  BY <1>0 DEF ContextInv, ContextTypes, Places, ClaimTells, Context!Without
<1>2. Cancellers'
  BY <1>0 DEF ContextInv, Cancellers
<1>3. ClaimTells'
  BY <1>0 DEF ContextInv, ContextTypes, Thread, ClaimTells
<1>4. Told'
  BY <1>0 DEF ContextInv, ContextTypes, Thread, ClaimTells, Told, Context!Without
<1>5. Swept'
  BY <1>0 DEF ContextInv, ContextTypes, Thread, ClaimTells, Swept, Context!Without
<1> QED
  BY <1>1, <1>2, <1>3, <1>4, <1>5 DEF ContextInv

LEMMA InstallStep == ASSUME ContextInv, NEW s \in Subscribers, Context!Install(s) PROVE ContextInv'
<1> USE DEF Context!Install, Context!Go
<1>0. /\ s \notin {"idle", "flagged", "calling"} /\ UNCHANGED <<cancelled, canceller>>
      /\ \A t \in Subscribers : Context!Busy(t)' <=> Context!Busy(t)
  BY ContextAssumption DEF Context!Busy
<1>1. ContextTypes'
  BY <1>0 DEF ContextInv, ContextTypes, Places, ClaimTells, Context!Without
<1>2. Cancellers'
  BY <1>0 DEF ContextInv, Cancellers
<1>3. ClaimTells'
  BY <1>0 DEF ContextInv, ContextTypes, Thread, ClaimTells
<1>4. Told'
  BY <1>0 DEF ContextInv, ContextTypes, Thread, ClaimTells, Told, Context!Without
<1>5. Swept'
  BY <1>0 DEF ContextInv, ContextTypes, Thread, ClaimTells, Swept, Context!Without
<1> QED
  BY <1>1, <1>2, <1>3, <1>4, <1>5 DEF ContextInv

LEMMA CheckStep == ASSUME ContextInv, NEW s \in Subscribers, Context!Check(s) PROVE ContextInv'
<1> USE DEF Context!Check, Context!Go
<1>0. /\ s \notin {"idle", "flagged", "calling"} /\ UNCHANGED <<cancelled, canceller>>
      /\ \A t \in Subscribers : Context!Busy(t)' <=> Context!Busy(t)
  BY ContextAssumption DEF Context!Busy
<1>1. ContextTypes'
  BY <1>0 DEF ContextInv, ContextTypes, Places, ClaimTells, Context!Without
<1>2. Cancellers'
  BY <1>0 DEF ContextInv, Cancellers
<1>3. ClaimTells'
  BY <1>0 DEF ContextInv, ContextTypes, Thread, ClaimTells
<1>4. Told'
  BY <1>0 DEF ContextInv, ContextTypes, Thread, ClaimTells, Told, Context!Without
<1>5. Swept'
  BY <1>0 DEF ContextInv, ContextTypes, Thread, ClaimTells, Swept, Context!Without
<1> QED
  BY <1>1, <1>2, <1>3, <1>4, <1>5 DEF ContextInv

LEMMA CheckLateStep == ASSUME ContextInv, NEW s \in Subscribers, Context!CheckLate(s) PROVE ContextInv'
<1> USE DEF Context!CheckLate, Context!Go
<1>0. /\ s \notin {"idle", "flagged", "calling"} /\ UNCHANGED <<cancelled, canceller>>
      /\ \A t \in Subscribers : Context!Busy(t)' <=> Context!Busy(t)
  BY ContextAssumption DEF Context!Busy
<1>1. ContextTypes'
  BY <1>0 DEF ContextInv, ContextTypes, Places, ClaimTells, Context!Without
<1>2. Cancellers'
  BY <1>0 DEF ContextInv, Cancellers
<1>3. ClaimTells'
  BY <1>0 DEF ContextInv, ContextTypes, Thread, ClaimTells
<1>4. Told'
  BY <1>0 DEF ContextInv, ContextTypes, Thread, ClaimTells, Told, Context!Without
<1>5. Swept'
  BY <1>0 DEF ContextInv, ContextTypes, Thread, ClaimTells, Swept, Context!Without
<1> QED
  BY <1>1, <1>2, <1>3, <1>4, <1>5 DEF ContextInv

LEMMA CleanStep == ASSUME ContextInv, NEW s \in Subscribers, Context!Clean(s) PROVE ContextInv'
<1> USE DEF Context!Clean, Context!Go
<1>0. /\ s \notin {"idle", "flagged", "calling"} /\ UNCHANGED <<cancelled, canceller>>
      /\ \A t \in Subscribers : Context!Busy(t)' <=> Context!Busy(t)
  BY ContextAssumption DEF Context!Busy
<1>1. ContextTypes'
  BY <1>0 DEF ContextInv, ContextTypes, Places, ClaimTells, Context!Without
<1>2. Cancellers'
  BY <1>0 DEF ContextInv, Cancellers
<1>3. ClaimTells'
  BY <1>0 DEF ContextInv, ContextTypes, Thread, ClaimTells
<1>4. Told'
  BY <1>0 DEF ContextInv, ContextTypes, Thread, ClaimTells, Told, Context!Without
<1>5. Swept'
  BY <1>0 DEF ContextInv, ContextTypes, Thread, ClaimTells, Swept, Context!Without
<1> QED
  BY <1>1, <1>2, <1>3, <1>4, <1>5 DEF ContextInv

LEMMA CleanedStep == ASSUME ContextInv, NEW s \in Subscribers, Context!Cleaned(s) PROVE ContextInv'
<1> USE DEF Context!Cleaned, Context!Go
<1>0. /\ s \notin {"idle", "flagged", "calling"} /\ UNCHANGED <<cancelled, canceller>>
      /\ \A t \in Subscribers : Context!Busy(t)' <=> Context!Busy(t)
  BY ContextAssumption DEF Context!Busy
<1>1. ContextTypes'
  BY <1>0 DEF ContextInv, ContextTypes, Places, ClaimTells, Context!Without
<1>2. Cancellers'
  BY <1>0 DEF ContextInv, Cancellers
<1>3. ClaimTells'
  BY <1>0 DEF ContextInv, ContextTypes, Thread, ClaimTells
<1>4. Told'
  BY <1>0 DEF ContextInv, ContextTypes, Thread, ClaimTells, Told, Context!Without
<1>5. Swept'
  BY <1>0 DEF ContextInv, ContextTypes, Thread, ClaimTells, Swept, Context!Without
<1> QED
  BY <1>1, <1>2, <1>3, <1>4, <1>5 DEF ContextInv

LEMMA RemoveStep == ASSUME ContextInv, NEW s \in Subscribers, Context!Remove(s) PROVE ContextInv'
<1> USE DEF Context!Remove, Context!Go
<1>0. /\ s \notin {"idle", "flagged", "calling"} /\ UNCHANGED <<cancelled, canceller>>
      /\ \A t \in Subscribers : Context!Busy(t)' <=> Context!Busy(t)
  BY ContextAssumption DEF Context!Busy
<1>1. ContextTypes'
  BY <1>0 DEF ContextInv, ContextTypes, Places, ClaimTells, Context!Without
<1>2. Cancellers'
  BY <1>0 DEF ContextInv, Cancellers
<1>3. ClaimTells'
  BY <1>0 DEF ContextInv, ContextTypes, Thread, ClaimTells
<1>4. Told'
  BY <1>0 DEF ContextInv, ContextTypes, Thread, ClaimTells, Told, Context!Without
<1>5. Swept'
  BY <1>0 DEF ContextInv, ContextTypes, Thread, ClaimTells, Swept, Context!Without
<1> QED
  BY <1>1, <1>2, <1>3, <1>4, <1>5 DEF ContextInv

LEMMA CancelStep == ASSUME ContextInv, NEW c \in Context!Chain, Context!Cancel(c) PROVE ContextInv'
<1> USE DEF Context!Cancel
<1>0. UNCHANGED <<at, left>> /\ \A t \in Subscribers : t \notin {"idle", "flagged", "calling"}
  BY ContextAssumption
<1>1. ContextTypes'
  BY <1>0 DEF ContextInv, ContextTypes, Thread, ClaimTells, Context!Busy, Context!Without
<1>2. Cancellers'
  BY <1>0 DEF ContextInv, ContextTypes, Thread, Cancellers, ClaimTells, Context!Busy
<1>3. ClaimTells'
  BY <1>0 DEF ContextInv, ContextTypes, Thread, Cancellers, ClaimTells, Context!Busy
<1>4. Told'
  BY <1>0 DEF ContextInv, ContextTypes, Thread, ClaimTells, Cancellers, Told, Context!Without, Context!Busy
<1>5. Swept'
  BY <1>0 DEF ContextInv, ContextTypes, Thread, ClaimTells, Swept, Context!Without, Context!Busy
<1> QED
  BY <1>1, <1>2, <1>3, <1>4, <1>5 DEF ContextInv

LEMMA SnapshotStep == ASSUME ContextInv, NEW c \in Context!Chain, Context!Snapshot(c) PROVE ContextInv'
<1>0. /\ canceller[c].at = "flagged" /\ UNCHANGED <<cancelled, table, claim, calls, at, left>>
      /\ canceller' = [canceller EXCEPT ![c].at = "calling", ![c].todo = table[c]]
      /\ "calling" \notin Subscribers /\ "flagged" \notin Subscribers
  BY ContextAssumption DEF Context!Snapshot
<1>6. /\ canceller' \in [Context!Chain -> Thread]
      /\ canceller'[c].at = "calling" /\ canceller'[c].todo = table[c] /\ canceller'[c].left = canceller[c].left
      /\ \A d \in Context!Chain : d # c => canceller'[d] = canceller[d]
  <2>1. table[c] \in SUBSET Subscribers
    BY DEF ContextInv, ContextTypes
  <2> QED
    BY <1>0, <2>1, ThreadAt DEF ContextInv
<1>7. \A t \in Subscribers : Context!Busy(t)' <=> Context!Busy(t)
  BY <1>0, <1>6 DEF Context!Busy
<1>1. ContextTypes'
  BY <1>0, <1>6 DEF ContextInv, ContextTypes
<1>2. Cancellers'
  BY <1>0, <1>6 DEF ContextInv, Cancellers
<1>3. ClaimTells'
  BY <1>0, <1>7 DEF ContextInv, ClaimTells
<1>4. Told'
  BY <1>0, <1>6 DEF ContextInv, ContextTypes, Told
<1>5. Swept'
  BY <1>0, <1>6 DEF ContextInv, ContextTypes, Swept
<1> QED
  BY <1>1, <1>2, <1>3, <1>4, <1>5 DEF ContextInv

LEMMA NotifyStep ==
  ASSUME ContextInv, NEW c \in Context!Chain, NEW s \in Subscribers, Context!Notify(c, s)
  PROVE  ContextInv'
<1> USE DEF Context!Notify
<1>0. UNCHANGED <<at, left>> /\ \A t \in Subscribers : t \notin {"idle", "flagged", "calling"}
  BY ContextAssumption
<1>1. ContextTypes'
  <2>1. canceller[c] \in Thread
    BY DEF ContextInv, ContextTypes
  <2>2. \E q \in Thread : canceller' = [canceller EXCEPT ![c] = q]
    <3>1. CASE s \in claim
      <4>1. canceller' = [canceller EXCEPT ![c] = [[@ EXCEPT !.at = s] EXCEPT !.left = Context!Chain]]
        BY <3>1 DEF ContextInv, ContextTypes
      <4>2. [[canceller[c] EXCEPT !.at = s] EXCEPT !.left = Context!Chain] \in Thread
        BY <2>1 DEF Thread
      <4> QED
        BY <4>1, <4>2 DEF ContextInv, ContextTypes
    <3>2. CASE s \notin claim
      <4>1. canceller' = [canceller EXCEPT ![c] = [@ EXCEPT !.todo = canceller[c].todo \ {s}]]
        BY <3>2 DEF ContextInv, ContextTypes
      <4>2. [canceller[c] EXCEPT !.todo = canceller[c].todo \ {s}] \in Thread
        BY <2>1 DEF Thread
      <4> QED
        BY <4>1, <4>2 DEF ContextInv, ContextTypes
    <3> QED
      BY <3>1, <3>2
  <2> QED
    BY <1>0, <2>2 DEF ContextInv, ContextTypes
<1>6. /\ \A d \in Context!Chain : d # c => canceller'[d] = canceller[d]
      /\ s \in claim => canceller'[c].at = s /\ canceller'[c].todo = canceller[c].todo
      /\ s \notin claim => canceller'[c].at = "calling"
      /\ canceller[c].at = "calling" /\ s \in canceller[c].todo /\ cancelled' = cancelled
  BY DEF ContextInv, ContextTypes, Thread
<1>2. Cancellers'
  <2>1. s \in claim => \A d \in Context!Chain : canceller[d].at # s
    BY DEF ContextInv, ClaimTells, Context!Busy
  <2> QED
    BY <1>0, <1>6, <2>1 DEF ContextInv, Cancellers
<1>3. ClaimTells'
  BY <1>0 DEF ContextInv, ContextTypes, Thread, Cancellers, ClaimTells, Context!Busy
<1>4. Told'
  BY <1>0 DEF ContextInv, ContextTypes, Thread, ClaimTells, Cancellers, Told, Context!Without, Context!Busy
<1>5. Swept'
  BY <1>0 DEF ContextInv, ContextTypes, Thread, ClaimTells, Swept, Context!Without, Context!Busy
<1> QED
  BY <1>1, <1>2, <1>3, <1>4, <1>5 DEF ContextInv

LEMMA NotifyCleansStep ==
  ASSUME ContextInv, NEW c \in Context!Chain, NEW s \in Subscribers, Context!NotifyCleans(c, s)
  PROVE  ContextInv'
<1> USE DEF Context!NotifyCleans
<1>0. UNCHANGED <<at, left>> /\ \A t \in Subscribers : t \notin {"idle", "flagged", "calling"}
  BY ContextAssumption
<1>1. ContextTypes'
  BY <1>0 DEF ContextInv, ContextTypes, Thread, ClaimTells, Context!Busy, Context!Without
<1>2. Cancellers'
  BY <1>0 DEF ContextInv, ContextTypes, Thread, Cancellers, ClaimTells, Context!Busy
<1>3. ClaimTells'
  BY <1>0 DEF ContextInv, ContextTypes, Thread, Cancellers, ClaimTells, Context!Busy
<1>4. Told'
  BY <1>0 DEF ContextInv, ContextTypes, Thread, ClaimTells, Cancellers, Told, Context!Without, Context!Busy
<1>5. Swept'
  BY <1>0 DEF ContextInv, ContextTypes, Thread, ClaimTells, Swept, Context!Without, Context!Busy
<1> QED
  BY <1>1, <1>2, <1>3, <1>4, <1>5 DEF ContextInv

LEMMA NotifyActsStep ==
  ASSUME ContextInv, NEW c \in Context!Chain, NEW s \in Subscribers, Context!NotifyActs(c, s)
  PROVE  ContextInv'
<1>0. /\ canceller[c].at = s /\ UNCHANGED <<cancelled, table, claim, at, left>>
      /\ canceller[c].left = {} /\ calls' = [calls EXCEPT ![s] = @ + 1]
      /\ canceller' = [canceller EXCEPT ![c].at = "calling", ![c].todo = @ \ {s}]
      /\ \A t \in Subscribers : t \notin {"idle", "flagged", "calling"}
  BY ContextAssumption DEF Context!NotifyActs
<1>6. /\ canceller' \in [Context!Chain -> Thread]
      /\ canceller'[c].at = "calling" /\ canceller'[c].todo = canceller[c].todo \ {s}
      /\ canceller'[c].left = canceller[c].left
      /\ \A d \in Context!Chain : d # c => canceller'[d] = canceller[d]
  <2> DEFINE r == canceller[c].todo \ {s}
  <2>1. canceller[c] \in Thread /\ r \in SUBSET Subscribers
    BY DEF ContextInv, ContextTypes, Thread
  <2>2. canceller' = [canceller EXCEPT ![c].at = "calling", ![c].todo = r]
    BY <1>0, <2>1 DEF ContextInv, ContextTypes, Thread
  <2> HIDE DEF r
  <2>3. /\ canceller' \in [Context!Chain -> Thread]
        /\ canceller'[c].at = "calling" /\ canceller'[c].todo = r /\ canceller'[c].left = canceller[c].left
        /\ \A d \in Context!Chain : d # c => canceller'[d] = canceller[d]
    BY <2>1, <2>2, ThreadAt DEF ContextInv
  <2> QED
    BY <2>3 DEF r
<1>7. /\ Context!Busy(s) /\ s \notin claim /\ calls[s] = 0
      /\ calls' = [calls EXCEPT ![s] = 1] /\ at[s] # "notifying" /\ at[s] # "new"
  <2>1. Context!Busy(s)
    BY <1>0 DEF Context!Busy
  <2>2. s \notin claim /\ calls[s] = 0 /\ at[s] # "notifying" /\ at[s] # "new"
    BY <2>1 DEF ContextInv, ClaimTells
  <2>3. calls' = [calls EXCEPT ![s] = 1]
    BY <1>0, <2>2
  <2> QED
    BY <2>1, <2>2, <2>3
<1>8. ~Context!Busy(s)' /\ \A t \in Subscribers : t # s => (Context!Busy(t)' <=> Context!Busy(t))
  <2>1. ~Context!Busy(s)'
    BY <1>0, <1>6 DEF ContextInv, Cancellers, Context!Busy
  <2> QED
    BY <1>0, <1>6, <2>1 DEF Context!Busy
<1>1. ContextTypes'
  BY <1>0, <1>6, <1>7 DEF ContextInv, ContextTypes
<1>2. Cancellers'
  BY <1>0, <1>6 DEF ContextInv, Cancellers
<1>3. ClaimTells'
  <2>1. \A t \in Subscribers : t # s => calls'[t] = calls[t]
    BY <1>7 DEF ContextInv, ContextTypes
  <2>2. calls'[s] = 1
    BY <1>7 DEF ContextInv, ContextTypes
  <2> QED
    BY <1>0, <1>7, <1>8, <2>1, <2>2 DEF ContextInv, ClaimTells
<1>4. Told'
  <2>1. \A d \in Context!Chain, t \in claim : t \in canceller[d].todo => t \in canceller'[d].todo
    BY <1>6, <1>7
  <2>2. \A d \in Context!Chain : canceller[d].at = "flagged" => canceller'[d].at = "flagged"
    BY <1>0, <1>6
  <2> QED
    BY <1>0, <2>1, <2>2 DEF ContextInv, Told
<1>5. Swept'
  BY <1>0, <1>6 DEF ContextInv, ContextTypes, Swept
<1> QED
  BY <1>1, <1>2, <1>3, <1>4, <1>5 DEF ContextInv

LEMMA StepContextInv == ContextInv /\ [Context!Next]_(Context!vars) => ContextInv'
<1> SUFFICES ASSUME ContextInv, [Context!Next]_(Context!vars) PROVE ContextInv'
  OBVIOUS
<1>1. CASE UNCHANGED Context!vars
  BY <1>1 DEF Context!vars, ContextInv, ContextTypes, Cancellers, ClaimTells, Told, Swept, Context!Busy
<1>2. ASSUME NEW s \in Subscribers,
             \/ Context!Add(s) \/ Context!Install(s) \/ Context!Check(s) \/ Context!CheckLate(s)
             \/ Context!Clean(s) \/ Context!Cleaned(s) \/ Context!Remove(s)
      PROVE  ContextInv'
  BY <1>2, AddStep, InstallStep, CheckStep, CheckLateStep, CleanStep, CleanedStep, RemoveStep
<1>3. ASSUME NEW c \in Context!Chain,
             \/ Context!Cancel(c) \/ Context!Snapshot(c)
             \/ \E s \in Subscribers :
                  Context!Notify(c, s) \/ Context!NotifyCleans(c, s) \/ Context!NotifyActs(c, s)
      PROVE  ContextInv'
  BY <1>3, CancelStep, SnapshotStep, NotifyStep, NotifyCleansStep, NotifyActsStep
<1> QED
  BY <1>1, <1>2, <1>3 DEF Context!Next

(* runtime/context/context.py: for any chain of contexts and any number of *)
(* threads that subscribe to it or cancel it, a callback runs at most      *)
(* once; when the subscription is made and the cancelling threads are      *)
(* through, it has run; and then no context keeps an entry for it, though  *)
(* entries were put in while others were taken out.                        *)
THEOREM CallbackRunsOnce == Context!Spec => []Context!CancelNoticed
<1>1. Context!Init => ContextInv
  BY InitContextInv
<1>2. ContextInv /\ [Context!Next]_(Context!vars) => ContextInv'
  BY StepContextInv
<1>3. ContextInv => Context!CancelNoticed
  <2> SUFFICES ASSUME ContextInv, NEW s \in Subscribers
               PROVE  /\ calls[s] <= 1
                      /\ at[s] = "added" /\ cancelled # {} /\ (\A c \in cancelled : ~Context!Cancelling(c))
                            => calls[s] = 1
                      /\ at[s] \in {"added", "removed"} /\ s \notin claim /\ ~Context!Busy(s)
                            => \A c \in Context!Chain : s \notin table[c]
    BY DEF Context!CancelNoticed
  <2>1. calls[s] <= 1
    BY DEF ContextInv, ContextTypes
  <2>2. ASSUME at[s] = "added", cancelled # {}, \A c \in cancelled : ~Context!Cancelling(c) PROVE calls[s] = 1
    <3>1. s \notin claim
      BY <2>2 DEF ContextInv, ContextTypes, Told, Context!Cancelling
    <3>2. ~Context!Busy(s)
      BY <2>2, ContextAssumption DEF ContextInv, ContextTypes, Cancellers, Context!Busy, Context!Cancelling
    <3> QED
      BY <2>2, <3>1, <3>2 DEF ContextInv, ClaimTells
  <2>3. at[s] \in {"added", "removed"} /\ s \notin claim /\ ~Context!Busy(s)
          => \A c \in Context!Chain : s \notin table[c]
    BY DEF ContextInv, Swept, Context!Busy
  <2> QED
    BY <2>1, <2>2, <2>3
<1> QED
  BY <1>1, <1>2, <1>3, PTL DEF Context!Spec

(***************************************************************************)
(* The watches of a pool.                                                  *)
(***************************************************************************)
(* What is watched has not been told yet, in the group of its own event.   *)
Registered ==
  /\ \A t \in callbacks : outcome[t] = "added"
  /\ \A e \in Events : \A t \in groups[e] : event[t] = e
  /\ \A t \in Registrations : outcome[t] = "new" => t \notin deadlines /\ \A e \in Events : t \notin groups[e]

WatchesInv ==
  /\ event \in [Registrations -> Events \union {NoEvent}]
  /\ deadline \in [Registrations -> Nat] /\ now \in Nat
  /\ callbacks \subseteq Registrations /\ deadlines \subseteq Registrations
  /\ groups \in [Events -> SUBSET Registrations]
  /\ outcome \in [Registrations -> {"new", "added", "removed", "notified"}]
  /\ Registered

(* Taking tasks off the watch, whatever becomes of them. *)
LEMMA ForgetStep ==
  ASSUME WatchesInv, NEW S \in SUBSET Registrations, NEW a, NEW tm, Watches!Forget(S, a, tm),
         UNCHANGED <<now, event, deadline>>,
         outcome' \in [Registrations -> {"new", "added", "removed", "notified"}],
         \A t \in Registrations : outcome'[t] = outcome[t] \/ (t \in S /\ outcome'[t] # "new")
  PROVE  WatchesInv'
BY DEF WatchesInv, Registered, Watches!Forget

LEMMA StepWatchesInv == WatchesInv /\ [Watches!Next]_(Watches!vars) => WatchesInv'
<1> SUFFICES ASSUME WatchesInv, [Watches!Next]_(Watches!vars) PROVE WatchesInv'
  OBVIOUS
<1>1. CASE UNCHANGED Watches!vars
  BY <1>1 DEF WatchesInv, Registered, Watches!vars
<1>2. ASSUME NEW t \in Registrations, Watches!Remove(t) PROVE WatchesInv'
  BY <1>2, ForgetStep DEF WatchesInv, Watches!Remove
<1>3. ASSUME NEW t \in Registrations, NEW e \in Events \union {NoEvent}, NEW d \in now .. Watches!Never,
             Watches!Add(t, e, d)
      PROVE  WatchesInv'
  BY <1>3, WatchesAssumption DEF WatchesInv, Registered, Watches!Add
<1>4. ASSUME NEW e \in Events, Watches!Waiter(e) PROVE WatchesInv'
  BY <1>4, ForgetStep DEF WatchesInv, Watches!Waiter, Watches!Notify
<1>5. CASE Watches!Expire
  <2> DEFINE due == {t \in deadlines : deadline[t] <= now}
  <2>1. due \in SUBSET Registrations /\ Watches!Notify(due) /\ Watches!Forget(due, Watches!Never, Watches!Never)
    BY <1>5 DEF WatchesInv, Watches!Expire
  <2>2. \A t \in Registrations : outcome'[t] = outcome[t] \/ (t \in due /\ outcome'[t] = "notified")
    BY <2>1 DEF Watches!Notify
  <2>3. outcome' \in [Registrations -> {"new", "added", "removed", "notified"}]
    BY <2>1 DEF WatchesInv, Watches!Notify
  <2> HIDE DEF due
  <2>4. UNCHANGED <<now, event, deadline>>
    BY <1>5 DEF Watches!Expire
  <2> QED
    BY <2>1, <2>2, <2>3, <2>4, ForgetStep
<1>6. ASSUME NEW e \in Events, Watches!SetEvent(e) PROVE WatchesInv'
  BY <1>6 DEF WatchesInv, Registered, Watches!SetEvent
<1>7. CASE Watches!Tick
  BY <1>7 DEF WatchesInv, Registered, Watches!Tick
<1> QED
  BY <1>1, <1>2, <1>3, <1>4, <1>5, <1>6, <1>7 DEF Watches!Next

(* runtime/pool/_scheduling.py: however registrations, removals, events    *)
(* and the one timer interleave, a pool is told of a task only while the   *)
(* task is registered, and after its event was set or its deadline passed. *)
THEOREM ToldForCause == Watches!Spec => Watches!NotifiedForCause
<1>1. Watches!Init => WatchesInv
  BY WatchesAssumption DEF Watches!Init, WatchesInv, Registered, Watches!Never
<1>2. WatchesInv /\ [Watches!Next]_(Watches!vars) => WatchesInv'
  BY StepWatchesInv
<1> DEFINE Cause ==
      \A t \in Registrations : outcome'[t] = "notified" /\ outcome[t] # "notified" =>
        /\ outcome[t] = "added"
        /\ event[t] \in set \/ deadline[t] <= now
<1>3. WatchesInv /\ [Watches!Next]_(Watches!vars) => Cause
  <2> SUFFICES ASSUME WatchesInv, Watches!Next PROVE Cause
    BY DEF Watches!vars
  <2>1. ASSUME NEW e \in Events, Watches!Waiter(e) PROVE Cause
    BY <2>1 DEF WatchesInv, Registered, Watches!Waiter, Watches!Notify
  <2>2. CASE Watches!Expire
    BY <2>2 DEF WatchesInv, Registered, Watches!Expire, Watches!Notify
  <2>3. ASSUME \A t \in Registrations : outcome'[t] = "notified" => outcome[t] = "notified" PROVE Cause
    BY <2>3
  <2> HIDE DEF Cause
  <2>4. ASSUME NEW t \in Registrations, Watches!Remove(t) PROVE Cause
    BY <2>3, <2>4 DEF WatchesInv, Watches!Remove
  <2>5. ASSUME NEW t \in Registrations, NEW e \in Events \union {NoEvent}, NEW d \in now .. Watches!Never,
               Watches!Add(t, e, d)
        PROVE  Cause
    BY <2>3, <2>5 DEF WatchesInv, Watches!Add
  <2>6. ASSUME NEW e \in Events, Watches!SetEvent(e) PROVE Cause
    BY <2>3, <2>6 DEF Watches!SetEvent
  <2>7. CASE Watches!Tick
    BY <2>3, <2>7 DEF Watches!Tick
  <2> QED
    BY <2>1, <2>2, <2>4, <2>5, <2>6, <2>7 DEF Watches!Next
<1> QED
  BY <1>1, <1>2, <1>3, PTL DEF Watches!Spec, Watches!NotifiedForCause

(* Min is the least element of a set of numbers.                           *)
LEMMA LeastOf ==
  ASSUME NEW T, T \subseteq Nat, T # {}
  PROVE  Watches!Min(T) \in T /\ \A y \in T : Watches!Min(T) <= y
<1>1. PICK x \in T : \A y \in T : ~(y < x)
  BY FirstOf
<1>2. \A y \in T : x <= y
  BY <1>1
<1> QED BY <1>2 DEF Watches!Min

(* No deadline of D is before its earliest.                                *)
LEMMA EarliestFacts ==
  ASSUME WatchesInv, NEW D \in SUBSET Registrations
  PROVE  /\ Watches!Earliest(D) \in Nat /\ \A t \in D : Watches!Earliest(D) <= deadline[t]
<1> DEFINE T == {Watches!Never} \union {deadline[t] : t \in D}
<1>1. T \subseteq Nat /\ T # {}
  BY WatchesAssumption DEF WatchesInv, Watches!Never
<1>2. Watches!Earliest(D) = Watches!Min(T)
  BY DEF Watches!Earliest
<1>3. \A t \in D : deadline[t] \in T
  OBVIOUS
<1> HIDE DEF T
<1>4. Watches!Min(T) \in T /\ \A y \in T : Watches!Min(T) <= y
  BY <1>1, LeastOf
<1> QED BY <1>1, <1>2, <1>3, <1>4

(* What is registered is where its end will be seen, and the timer, which *)
(* is what armed says, is early enough for all of the heap.               *)
EndsInv ==
  /\ armed = timer /\ timer \in Nat /\ deadlines \subseteq callbacks
  /\ \A t \in deadlines : timer <= deadline[t]
  /\ \A t \in Registrations : outcome[t] = "added" =>
       /\ event[t] # NoEvent => t \in groups[event[t]] /\ t \in callbacks
       /\ deadline[t] # Watches!Never => t \in deadlines /\ t \in callbacks

(* _ContextWatches.remove, and what a fired timer or a waiter takes away:  *)
(* the timer is armed again for what is left.                              *)
LEMMA ForgetEnds ==
  ASSUME WatchesInv, EndsInv, NEW S \in SUBSET Registrations,
         Watches!Forget(S, armed, timer) \/ Watches!Forget(S, Watches!Never, Watches!Never),
         UNCHANGED <<event, deadline>>,
         \A t \in Registrations : outcome'[t] = "added" => outcome[t] = "added" /\ t \notin S
  PROVE  EndsInv'
<1>1. armed' = timer' /\ timer' = Watches!Earliest(deadlines \ S)
  BY DEF Watches!Forget, Watches!Arm, EndsInv
<1>2. timer' \in Nat /\ \A t \in deadlines \ S : timer' <= deadline[t]
  BY <1>1, EarliestFacts DEF WatchesInv
<1>3. callbacks' = callbacks \ S /\ deadlines' = deadlines \ S /\ groups' = [e \in Events |-> groups[e] \ S]
  BY DEF Watches!Forget
<1> QED BY <1>1, <1>2, <1>3 DEF EndsInv, WatchesInv, Watches!Never

(* What a notification leaves registered is not among those it is about. *)
LEMMA NotifyEnds ==
  ASSUME WatchesInv, EndsInv, NEW S \in SUBSET Registrations, Watches!Notify(S),
         \A t \in S : outcome[t] = "added" => t \in callbacks
  PROVE  \A t \in Registrations : outcome'[t] = "added" => outcome[t] = "added" /\ t \notin S
BY DEF Watches!Notify, WatchesInv

(* _ContextWatches.add: the timer is armed for the new deadline when it is *)
(* the earliest.                                                           *)
LEMMA AddEnds ==
  ASSUME WatchesInv, EndsInv, NEW t \in Registrations, NEW e \in Events \union {NoEvent},
         NEW d \in now .. Watches!Never, Watches!Add(t, e, d)
  PROVE  EndsInv'
<1> DEFINE first == Watches!Min({d, Watches!Earliest(deadlines)})
<1>1. /\ armed' = first /\ timer' = first
  BY DEF Watches!Add, EndsInv
<1>2. d \in Nat /\ deadlines \in SUBSET Registrations
  BY WatchesAssumption DEF WatchesInv, Watches!Never
<1>3. Watches!Earliest(deadlines) \in Nat /\ \A u \in deadlines : Watches!Earliest(deadlines) <= deadline[u]
  BY <1>2, EarliestFacts
<1>4. first \in Nat /\ first <= d /\ first <= Watches!Earliest(deadlines)
  BY <1>2, <1>3, LeastOf
<1> HIDE DEF first
<1>5. /\ outcome' = [outcome EXCEPT ![t] = "added"]
      /\ event' = [event EXCEPT ![t] = e] /\ deadline' = [deadline EXCEPT ![t] = d]
      /\ callbacks' = IF e # NoEvent \/ d # Watches!Never THEN callbacks \union {t} ELSE callbacks
      /\ groups' = [x \in Events |-> IF x = e THEN groups[x] \union {t} ELSE groups[x]]
      /\ deadlines' = IF d # Watches!Never THEN deadlines \union {t} ELSE deadlines
      /\ outcome[t] = "new"
  BY DEF Watches!Add, Watches!Watched
<1>6. \A u \in deadlines' : first <= deadline'[u]
  BY <1>2, <1>3, <1>4, <1>5 DEF WatchesInv
<1>7. \A u \in Registrations : outcome'[u] = "added" =>
        /\ event'[u] # NoEvent => u \in groups'[event'[u]] /\ u \in callbacks'
        /\ deadline'[u] # Watches!Never => u \in deadlines' /\ u \in callbacks'
  BY <1>5 DEF WatchesInv, EndsInv
<1>9. deadlines' \subseteq callbacks'
  BY <1>5 DEF EndsInv
<1>8. Watches!Never' = Watches!Never
  BY DEF Watches!Never
<1> QED BY <1>1, <1>4, <1>6, <1>7, <1>8, <1>9 DEF EndsInv

(* Every step of the watches keeps what is registered within sight.        *)
LEMMA StepEndsInv == WatchesInv /\ EndsInv /\ [Watches!Next]_(Watches!vars) => EndsInv'
<1> SUFFICES ASSUME WatchesInv, EndsInv, [Watches!Next]_(Watches!vars) PROVE EndsInv'
  OBVIOUS
<1>1. CASE UNCHANGED Watches!vars
  BY <1>1 DEF EndsInv, Watches!vars, Watches!Never
<1>2. ASSUME NEW t \in Registrations, Watches!Remove(t) PROVE EndsInv'
  <2>1. \A u \in Registrations : outcome'[u] = "added" => outcome[u] = "added" /\ u \notin {t}
    BY <1>2 DEF Watches!Remove, WatchesInv
  <2> QED BY <1>2, <2>1, ForgetEnds DEF Watches!Remove
<1>3. ASSUME NEW e \in Events, Watches!Waiter(e) PROVE EndsInv'
  <2>1. \A t \in groups[e] : outcome[t] = "added" => t \in callbacks
    BY WatchesAssumption DEF WatchesInv, Registered, EndsInv
  <2>2. groups[e] \in SUBSET Registrations
    BY DEF WatchesInv
  <2> QED BY <1>3, <2>1, <2>2, NotifyEnds, ForgetEnds DEF Watches!Waiter
<1>4. CASE Watches!Expire
  <2> DEFINE due == {t \in deadlines : deadline[t] <= now}
  <2>1. /\ due \in SUBSET Registrations /\ Watches!Notify(due)
           /\ Watches!Forget(due, Watches!Never, Watches!Never)
        /\ UNCHANGED <<event, deadline>>
    BY <1>4 DEF WatchesInv, Watches!Expire
  <2>2. \A t \in due : outcome[t] = "added" => t \in callbacks
    BY DEF EndsInv
  <2> HIDE DEF due
  <2> QED BY <2>1, <2>2, NotifyEnds, ForgetEnds
<1>5. ASSUME NEW e \in Events, Watches!SetEvent(e) PROVE EndsInv'
  BY <1>5 DEF EndsInv, Watches!SetEvent, Watches!Never
<1>6. CASE Watches!Tick
  BY <1>6 DEF EndsInv, Watches!Tick, Watches!Never
<1> QED BY <1>1, <1>2, <1>3, <1>4, <1>5, <1>6, AddEnds DEF Watches!Next

(* A task that is registered is in the group of its event and in the heap  *)
(* of deadlines, and the timer is set for no later than its deadline.      *)
LEMMA WatchEnds == Watches!Spec => []Watches!EndsWatched
<1>1. Watches!Init => WatchesInv /\ EndsInv
  BY WatchesAssumption DEF Watches!Init, WatchesInv, Registered, EndsInv, Watches!Never
<1>2. WatchesInv /\ EndsInv => Watches!EndsWatched
  BY DEF WatchesInv, EndsInv, Watches!EndsWatched
<1> QED BY <1>1, <1>2, StepWatchesInv, StepEndsInv, PTL DEF Watches!Spec

(* runtime/context/context.py and runtime/pool/_scheduling.py: a callback    *)
(* of a context runs once, whoever cancels and whoever subscribes meanwhile, *)
(* and the end of a request that a pool watches stays in sight: the waiter   *)
(* of its event and a timer that fires no later than its deadline.           *)
THEOREM EndsAreNoticed == Context!Spec /\ Watches!Spec => []CancelNoticed
BY CallbackRunsOnce, WatchEnds, PTL DEF CancelNoticed

(***************************************************************************)
(* The thread pool.                                                        *)
(***************************************************************************)
(* The entries left for a queue whose pool is closed: a sentinel for each  *)
(* thread that has not taken one, behind all tasks.                        *)
Left == {t \in Threads : threadAt[t] # "over"}

(* While the pool is open all its threads are there and no sentinel is     *)
(* queued; when it is closed the last entries are sentinels, as many as    *)
(* there are threads left, and a thread that is over took one.             *)
SentinelsLast ==
  IF stopped
    THEN /\ Cardinality(Left) <= Len(queue)
         /\ \A i \in 1 .. Len(queue) : queue[i] = Sentinel <=> i > Len(queue) - Cardinality(Left)
         /\ Left # Threads => Len(queue) = Cardinality(Left)
    ELSE Left = Threads /\ \A i \in 1 .. Len(queue) : queue[i] # Sentinel

(* No task is lost: it is queued, at a thread, or has run. *)
TasksKept ==
  \A k \in accepted : \/ k \in finished
                      \/ \E i \in 1 .. Len(queue) : queue[i] = k
                      \/ \E t \in Threads : threadAt[t] = k

(* What is true of the thread pool between any two of its steps.           *)
ThreadsInv ==
  /\ queue \in Seq(Tasks \union {Sentinel}) /\ stopped \in BOOLEAN
  /\ owner \in {"idle", "waking", "joining", "closed"}
  /\ threadAt \in [Threads -> {"clearing", "getting", "waiting", "over"} \union Tasks]
  /\ wakes \subseteq Threads /\ available \subseteq Threads
  /\ accepted \subseteq Tasks /\ finished \subseteq accepted
  /\ \A i \in 1 .. Len(queue) : queue[i] = Sentinel \/ queue[i] \in accepted
  /\ \A t \in Threads : threadAt[t] \in Tasks => threadAt[t] \in accepted
  /\ SentinelsLast /\ TasksKept
  /\ owner = "joining" => stopped
  /\ owner = "closed" => stopped /\ Left = {}
  /\ ThreadPool!NoneSleeps

(* The threads can be counted.                                             *)
LEMMA LeftFinite == IsFiniteSet(Left) /\ Cardinality(Left) \in Nat
<1>1. Left \subseteq Threads
  BY DEF Left
<1> QED BY <1>1, ThreadAssumption, FS_Subset, FS_CardinalityType

(* A step of a thread that neither takes an entry nor ends anything. *)
LEMMA ThreadMoves ==
  ASSUME ThreadsInv, NEW t \in Threads, NEW a \in {"clearing", "getting", "waiting"},
         threadAt' = [threadAt EXCEPT ![t] = a], threadAt[t] # "over",
         UNCHANGED <<queue, stopped, owner, accepted>>,
         wakes' \subseteq Threads, available' \subseteq Threads, finished' \subseteq accepted,
         finished' = finished \/ (threadAt[t] \in Tasks /\ finished' = finished \union {threadAt[t]}),
         threadAt[t] \in Tasks => threadAt[t] \in finished',
         \A u \in Threads : u # t => (u \in wakes' \union available' <=> u \in wakes \union available),
         a = "waiting" => queue = <<>>
  PROVE  ThreadsInv'
<1>1. threadAt' \in [Threads -> {"clearing", "getting", "waiting", "over"} \union Tasks]
  BY DEF ThreadsInv
<1>2. Left' = Left
  BY DEF Left, ThreadsInv
<1>3. SentinelsLast'
  BY <1>2 DEF SentinelsLast, ThreadsInv
<1>4. \A u \in Threads : threadAt'[u] \in Tasks => u # t /\ threadAt'[u] = threadAt[u]
  BY ThreadAssumption DEF ThreadsInv
<1>5. TasksKept'
  BY DEF TasksKept, ThreadsInv
<1>6. ThreadPool!NoneSleeps'
  BY DEF ThreadPool!NoneSleeps, ThreadsInv
<1> QED BY <1>1, <1>2, <1>3, <1>4, <1>5, <1>6 DEF ThreadsInv

(* add_task: a task is queued before any sentinel.                         *)
LEMMA AddTaskStep == ASSUME ThreadsInv, NEW k \in Tasks, ThreadPool!AddTask(k) PROVE ThreadsInv'
<1>1. /\ owner = "idle" /\ stopped = FALSE /\ queue' = Append(queue, k) /\ accepted' = accepted \union {k}
      /\ owner' = "waking" /\ UNCHANGED <<stopped, wakes, available, threadAt, finished>>
  BY DEF ThreadPool!AddTask, ThreadsInv
<1>2. /\ queue' \in Seq(Tasks \union {Sentinel}) /\ Len(queue') = Len(queue) + 1
      /\ \A i \in 1 .. Len(queue) : queue'[i] = queue[i]
      /\ queue'[Len(queue) + 1] = k /\ Len(queue) \in Nat
  BY <1>1, AppendProperties DEF ThreadsInv
<1>3. Left' = Left
  BY <1>1 DEF Left
<1>4. SentinelsLast'
  BY <1>1, <1>2, <1>3, ThreadAssumption DEF SentinelsLast, ThreadsInv
<1>5. TasksKept'
  BY <1>1, <1>2 DEF TasksKept, ThreadsInv
<1>6. ThreadPool!NoneSleeps'
  BY <1>1 DEF ThreadPool!NoneSleeps
<1> QED BY <1>1, <1>2, <1>3, <1>4, <1>5, <1>6 DEF ThreadsInv

(* aclose: a sentinel for each thread is queued behind the tasks.          *)
LEMMA PoolClose == ASSUME ThreadsInv, ThreadPool!Close PROVE ThreadsInv'
<1> DEFINE n == Cardinality(Threads)
           ends == [i \in 1 .. n |-> Sentinel]
<1>1. /\ owner = "idle" /\ stopped = FALSE /\ stopped' = TRUE /\ queue' = queue \o ends
      /\ owner' = "waking" /\ UNCHANGED <<wakes, available, threadAt, accepted, finished>>
  <2>1. \A S : ThreadPool!Cardinality(S) = Cardinality(S)
    BY Zenon DEF ThreadPool!Cardinality, Cardinality, ThreadPool!IsFiniteSet, IsFiniteSet
  <2>2. ThreadPool!Cardinality(Threads) = n
    BY <2>1
  <2> HIDE DEF n
  <2> QED BY <2>2 DEF ThreadPool!Close, ThreadsInv
<1>2. n \in Nat
  BY ThreadAssumption, FS_CardinalityType
<1>3. ends \in Seq(Tasks \union {Sentinel}) /\ Len(ends) = n
  BY <1>2
<1>4. /\ queue' \in Seq(Tasks \union {Sentinel}) /\ Len(queue') = Len(queue) + n
      /\ \A i \in 1 .. Len(queue') : queue'[i] = IF i <= Len(queue) THEN queue[i] ELSE ends[i - Len(queue)]
  <2>1. queue \in Seq(Tasks \union {Sentinel}) /\ queue' = queue \o ends
    BY <1>1 DEF ThreadsInv
  <2> HIDE DEF ends, n
  <2>2. /\ queue \o ends \in Seq(Tasks \union {Sentinel}) /\ Len(queue \o ends) = Len(queue) + Len(ends)
        /\ \A i \in 1 .. Len(queue) + Len(ends) :
             (queue \o ends)[i] = IF i <= Len(queue) THEN queue[i] ELSE ends[i - Len(queue)]
    BY <1>3, <2>1, ConcatProperties
  <2> QED BY <1>3, <2>1, <2>2
<1>5. Left' = Threads /\ Left = Threads
  BY <1>1 DEF Left, ThreadsInv, SentinelsLast
<1> HIDE DEF n
<1>6. \A i \in 1 .. Len(queue') : IF i <= Len(queue) THEN queue'[i] = queue[i] ELSE queue'[i] = Sentinel
  BY <1>2, <1>3, <1>4 DEF ThreadsInv
<1> HIDE DEF ends
<1>7. SentinelsLast'
  BY <1>1, <1>2, <1>4, <1>5, <1>6 DEF SentinelsLast, ThreadsInv, n
<1>8. TasksKept'
  BY <1>1, <1>2, <1>4, <1>6 DEF TasksKept, ThreadsInv
<1>9. ThreadPool!NoneSleeps'
  BY <1>1 DEF ThreadPool!NoneSleeps
<1> QED BY <1>1, <1>2, <1>4, <1>6, <1>7, <1>8, <1>9 DEF ThreadsInv

(* A thread takes the first entry: of the sentinels, its own.              *)
LEMMA GetStep == ASSUME ThreadsInv, NEW t \in Threads, ThreadPool!Get(t) PROVE ThreadsInv'
<1> DEFINE a == IF Head(queue) = Sentinel THEN "over" ELSE Head(queue)
<1>1. /\ threadAt[t] = "getting" /\ queue # <<>> /\ queue' = Tail(queue)
         /\ threadAt' = [threadAt EXCEPT ![t] = a]
      /\ UNCHANGED <<stopped, owner, wakes, available, accepted, finished>>
  BY DEF ThreadPool!Get, ThreadPool!Become
<1>2. /\ queue' \in Seq(Tasks \union {Sentinel}) /\ Len(queue') = Len(queue) - 1
      /\ \A i \in 1 .. Len(queue') : queue'[i] = queue[i + 1]
      /\ Head(queue) = queue[1] /\ Len(queue) \in Nat \ {0}
  BY <1>1, HeadTailProperties DEF ThreadsInv
<1>3. queue[1] = Sentinel \/ queue[1] \in accepted
  BY <1>2 DEF ThreadsInv
<1>4. a \in {"over"} \union accepted /\ (a = "over" <=> queue[1] = Sentinel)
  BY <1>2, <1>3, ThreadAssumption DEF ThreadsInv
<1> HIDE DEF a
<1>5. threadAt' \in [Threads -> {"clearing", "getting", "waiting", "over"} \union Tasks]
  BY <1>1, <1>4 DEF ThreadsInv
<1>6. t \in Left /\ Left' = IF queue[1] = Sentinel THEN Left \ {t} ELSE Left
  BY <1>1, <1>4 DEF Left, ThreadsInv
<1>7. Cardinality(Left) \in Nat \ {0} /\ Cardinality(Left \ {t}) = Cardinality(Left) - 1
  BY <1>6, LeftFinite, FS_RemoveElement, FS_EmptySet, FS_CardinalityType
<1>8. SentinelsLast'
  <2>1. CASE queue[1] = Sentinel
    <3>1. stopped = TRUE /\ Len(queue) = Cardinality(Left)
      BY <1>2, <1>7, <2>1 DEF SentinelsLast, ThreadsInv
    <3>2. Cardinality(Left') = Cardinality(Left) - 1
      BY <1>6, <1>7, <2>1
    <3>3. \A i \in 1 .. Len(queue) : queue[i] = Sentinel
      BY <1>2, <1>7, <3>1 DEF SentinelsLast, ThreadsInv
    <3>4. Len(queue') = Cardinality(Left') /\ \A i \in 1 .. Len(queue') : queue'[i] = Sentinel
      BY <1>2, <3>1, <3>2, <3>3
    <3>5. stopped' = TRUE /\ Cardinality(Left') \in Nat
      BY <1>1, <1>7, <3>1, <3>2
    <3> QED BY <3>4, <3>5 DEF SentinelsLast
  <2>2. CASE queue[1] # Sentinel
    <3>1. Left' = Left
      BY <1>6, <2>2
    <3>2. stopped => Cardinality(Left) < Len(queue)
      BY <1>2, <1>7, <2>2 DEF SentinelsLast, ThreadsInv
    <3> QED BY <1>1, <1>2, <1>7, <3>1, <3>2 DEF SentinelsLast, ThreadsInv
  <2> QED BY <2>1, <2>2
<1>9. TasksKept'
  <2> SUFFICES ASSUME NEW k \in accepted, k \notin finished
               PROVE  \/ \E i \in 1 .. Len(queue') : queue'[i] = k
                      \/ \E u \in Threads : threadAt'[u] = k
    BY <1>1 DEF TasksKept
  <2>1. CASE \E u \in Threads : threadAt[u] = k
    BY <1>1, <2>1, ThreadAssumption DEF ThreadsInv
  <2>2. CASE \E i \in 1 .. Len(queue) : queue[i] = k
    <3>1. PICK i \in 1 .. Len(queue) : queue[i] = k
      BY <2>2
    <3>2. CASE i = 1
      BY <1>1, <1>2, <3>1, <3>2, ThreadAssumption DEF ThreadsInv, a
    <3>3. CASE i # 1
      <4>1. i - 1 \in 1 .. Len(queue')
        BY <1>2, <3>1, <3>3
      <4>2. queue'[i - 1] = queue[(i - 1) + 1] /\ (i - 1) + 1 = i
        BY <1>2, <3>1, <4>1
      <4> QED BY <3>1, <4>1, <4>2
    <3> QED BY <3>2, <3>3
  <2> QED BY <2>1, <2>2 DEF ThreadsInv, TasksKept
<1>10. ThreadPool!NoneSleeps'
  BY <1>1, <1>4, ThreadAssumption DEF ThreadPool!NoneSleeps, ThreadsInv
<1>11. \A u \in Threads : threadAt'[u] \in Tasks => threadAt'[u] \in accepted'
  BY <1>1, <1>4, ThreadAssumption DEF ThreadsInv
<1>12. owner # "closed"
  BY <1>6 DEF ThreadsInv
<1> QED BY <1>1, <1>2, <1>5, <1>8, <1>9, <1>10, <1>11, <1>12 DEF ThreadsInv

(* The owner notifies, a thread raises its flag, or aclose() has joined    *)
(* the threads.                                                            *)
LEMMA OwnerStep ==
  ASSUME ThreadsInv, ThreadPool!Wake \/ ThreadPool!Join \/ \E t \in Threads : ThreadPool!Set(t)
  PROVE  ThreadsInv'
<1>1. /\ UNCHANGED <<queue, stopped, threadAt, accepted, finished>>
      /\ wakes' \subseteq Threads /\ available' \subseteq Threads
  BY DEF ThreadsInv, ThreadPool!Wake, ThreadPool!Join, ThreadPool!Set
<1>2. Left' = Left /\ SentinelsLast' /\ TasksKept'
  BY <1>1 DEF ThreadsInv, Left, SentinelsLast, TasksKept
<1>3. CASE ThreadPool!Wake
  <2>1. ThreadPool!NoneSleeps'
    BY <1>1, <1>3 DEF ThreadPool!NoneSleeps, ThreadPool!Wake
  <2> QED BY <1>1, <1>2, <1>3, <2>1 DEF ThreadsInv, ThreadPool!Wake
<1>4. CASE ThreadPool!Join
  BY <1>1, <1>2, <1>4 DEF ThreadsInv, ThreadPool!Join, ThreadPool!NoneSleeps, Left
<1>5. ASSUME NEW t \in Threads, ThreadPool!Set(t) PROVE ThreadsInv'
  BY <1>1, <1>2, <1>5 DEF ThreadsInv, ThreadPool!Set, ThreadPool!NoneSleeps
<1> QED BY <1>3, <1>4, <1>5

(* Every step of a thread or of the owner keeps the invariant.             *)
LEMMA ThreadsStep == ThreadsInv /\ [ThreadPool!Next]_(ThreadPool!vars) => ThreadsInv'
<1> SUFFICES ASSUME ThreadsInv, [ThreadPool!Next]_(ThreadPool!vars) PROVE ThreadsInv'
  OBVIOUS
<1>1. CASE UNCHANGED ThreadPool!vars
  BY <1>1 DEF ThreadPool!vars, ThreadsInv, SentinelsLast, TasksKept, Left, ThreadPool!NoneSleeps
<1>2. ASSUME NEW t \in Threads, ThreadPool!Run(t) PROVE ThreadsInv'
  <2> USE DEF ThreadPool!Become
  <2>1. CASE ThreadPool!Clear(t)
    <3>1. \A u \in Threads : u # t => (u \in wakes' \union available' <=> u \in wakes \union available)
      BY <2>1 DEF ThreadPool!Clear
    <3>2. /\ threadAt[t] = "clearing" /\ threadAt' = [threadAt EXCEPT ![t] = "getting"]
          /\ wakes' \subseteq Threads /\ available' \subseteq Threads /\ finished' = finished
          /\ UNCHANGED <<queue, stopped, owner, accepted>>
      BY <2>1 DEF ThreadPool!Clear, ThreadsInv
    <3> QED BY <3>1, <3>2, ThreadMoves, ThreadAssumption DEF ThreadsInv
  <2>2. CASE ThreadPool!Empty(t)
    BY <2>2, ThreadMoves, ThreadAssumption DEF ThreadPool!Empty, ThreadsInv
  <2>3. CASE ThreadPool!Woken(t)
    BY <2>3, ThreadMoves, ThreadAssumption DEF ThreadPool!Woken, ThreadsInv
  <2>4. CASE ThreadPool!Finish(t)
    <3>1. threadAt[t] \in accepted /\ threadAt[t] # "over"
      BY <2>4, ThreadAssumption DEF ThreadPool!Finish, ThreadsInv
    <3> QED BY <2>4, <3>1, ThreadMoves DEF ThreadPool!Finish, ThreadsInv
  <2> QED BY <1>2, <2>1, <2>2, <2>3, <2>4, GetStep, OwnerStep DEF ThreadPool!Run
<1> QED BY <1>1, <1>2, AddTaskStep, PoolClose, OwnerStep DEF ThreadPool!Next

(* A new pool: every thread is about to look at its queue.                 *)
LEMMA ThreadsInit == ThreadPool!Init => ThreadsInv
<1> SUFFICES ASSUME ThreadPool!Init PROVE ThreadsInv
  OBVIOUS
<1>1. queue = <<>> /\ Len(queue) = 0 /\ stopped = FALSE /\ owner = "idle"
  BY DEF ThreadPool!Init
<1>2. threadAt = [t \in Threads |-> "clearing"]
  BY DEF ThreadPool!Init
<1>3. Left = Threads
  BY <1>2 DEF Left
<1>4. wakes = {} /\ available = {} /\ accepted = {} /\ finished = {}
  BY DEF ThreadPool!Init
<1>5. SentinelsLast /\ TasksKept /\ ThreadPool!NoneSleeps
  BY <1>1, <1>3, <1>4 DEF SentinelsLast, TasksKept, ThreadPool!NoneSleeps
<1>6. \A t \in Threads : threadAt[t] \notin Tasks
  BY <1>2, ThreadAssumption
<1>7. /\ queue \in Seq(Tasks \union {Sentinel})
      /\ threadAt \in [Threads -> {"clearing", "getting", "waiting", "over"} \union Tasks]
  BY <1>1, <1>2
<1>8. stopped \in BOOLEAN /\ owner = "idle" /\ \A i \in 1 .. Len(queue) : FALSE
  <2>1. stopped \in BOOLEAN /\ owner = "idle"
    BY <1>1, Zenon
  <2>2. \A i \in 1 .. Len(queue) : FALSE
    BY <1>1, SMT
  <2> QED BY <2>1, <2>2, Zenon
<1>9. wakes \subseteq Threads /\ available \subseteq Threads /\ accepted \subseteq Tasks
      /\ finished \subseteq accepted
  BY <1>4
<1> HIDE DEF ThreadPool!Init
<1> QED BY <1>5, <1>6, <1>7, <1>8, <1>9 DEF ThreadsInv

(* runtime/pool/threadpool.py: for any number of threads and of tasks, no    *)
(* thread sleeps without a flag while a task is queued and nobody is about   *)
(* to wake it: the flag is cleared before the queue is looked at.            *)
THEOREM ThreadsAwake == ThreadPool!Spec => []ThreadPool!NoneSleeps
<1>1. ThreadsInv => ThreadPool!NoneSleeps
  BY DEF ThreadsInv
<1> QED BY <1>1, ThreadsInit, ThreadsStep, PTL DEF ThreadPool!Spec

(* A pool whose aclose() has returned has run what it accepted.            *)
LEMMA ThreadsReleased == ThreadsInv => ThreadPool!ClosedRanAll
<1> SUFFICES ASSUME ThreadsInv, owner = "closed"
             PROVE  accepted = finished /\ \A t \in Threads : threadAt[t] = "over"
  BY DEF ThreadPool!ClosedRanAll
<1>1. stopped /\ Left = {} /\ Cardinality(Left) = 0
  BY FS_EmptySet DEF ThreadsInv
<1>2. \A t \in Threads : threadAt[t] = "over"
  BY <1>1 DEF Left
<1>3. Len(queue) = 0
  BY <1>1, ThreadAssumption DEF ThreadsInv, SentinelsLast
<1>4. \A k \in accepted : k \in finished
  BY <1>2, <1>3, ThreadAssumption DEF ThreadsInv, TasksKept
<1> QED BY <1>2, <1>4 DEF ThreadsInv

(***************************************************************************)
(* The life cycle of a Kafka source.                                       *)
(***************************************************************************)
LifecycleTypes ==
  /\ startTask \in Kafka!StartStates /\ drain \in Kafka!Draining
  /\ active \in SUBSET Kafka!Endpoints /\ unstopped \in SUBSET Kafka!Endpoints
  /\ stopper \in [Stoppers -> Kafka!Calls]
  /\ halted \in [Kafka!Endpoints -> BOOLEAN] /\ launch \in [Kafka!Endpoints -> Kafka!Launching]
  /\ transport \in [Kafka!Endpoints -> Kafka!Clients]
  /\ loops \in [Kafka!Endpoints -> BOOLEAN] /\ lanes \in [Kafka!Endpoints -> BOOLEAN]
  /\ winding \in [Kafka!Endpoints -> Kafka!Winding]

(* Nothing of an endpoint exists before the start task has come to it, and *)
(* what the source has forgotten has been wound up.                        *)
Begun ==
  /\ starter = "none" => startTask = "none"
  /\ startTask # "done" => active = {}
  /\ \A e \in Kafka!Endpoints :
       /\ startTask # "done" =>
            launch[e] = "none" /\ transport[e] = "none" /\ ~loops[e] /\ ~lanes[e] /\ (halted[e] => halting)
       /\ startTask = "done" /\ e \notin active => winding[e] = "done"

(* How far the end of an endpoint consumer is, and what it cannot have.    *)
Wound ==
  \A e \in Kafka!Endpoints :
    /\ winding[e] # "none" => halted[e]
    /\ winding[e] \in {"lanes", "flushing", "closing", "failed", "done"} => Kafka!Over(launch[e]) /\ ~loops[e]
    /\ winding[e] \in {"flushing", "closing", "done"} => ~lanes[e]
    /\ winding[e] = "done" => transport[e] = "none"

(* How far the drain is: the start task is over, no endpoint is forgotten  *)
(* that did not stop, and the admin client is closed in the end.           *)
DrainedSoFar ==
  /\ drain # "none" => halting
  /\ drain \in {"endpoints", "waiting", "closing", "failed", "done"} => Kafka!Over(startTask)
  /\ drain \in {"endpoints", "waiting", "closing"} /\ ~failing => active \subseteq unstopped
  /\ drain = "closing" => unstopped = {}
  /\ drain = "done" => active = {} /\ admin = "none"
  /\ \A c \in Stoppers : stopper[c] = "returned" => drain = "done"

LifecycleInv == LifecycleTypes /\ Begun /\ Wound /\ DrainedSoFar

LEMMA LifecycleInit == Kafka!Init => LifecycleInv
BY DEF Kafka!Init, LifecycleInv, LifecycleTypes, Begun, Wound, DrainedSoFar, Kafka!StartStates, Kafka!Draining,
       Kafka!Calls, Kafka!Launching, Kafka!Clients, Kafka!Winding, Kafka!Over

(* The steps of start() and of its task.                                   *)
LEMMA LifecycleStart == LifecycleInv /\ Kafka!SourceStep => LifecycleInv'
<1> SUFFICES ASSUME LifecycleInv, Kafka!SourceStep PROVE LifecycleInv' OBVIOUS
<1> USE DEF Kafka!drainVars, Kafka!endpointVars
<1>1. CASE Kafka!Start
  BY <1>1 DEF Kafka!Start, LifecycleInv, LifecycleTypes, Begun, Wound, DrainedSoFar,
       Kafka!StartStates, Kafka!Over
<1>2. CASE Kafka!BeginTopics
  BY <1>2 DEF Kafka!BeginTopics, LifecycleInv, LifecycleTypes, Begun, Wound, DrainedSoFar,
       Kafka!StartStates, Kafka!Over
<1>3. ASSUME Kafka!StartEndpoints, ~Kafka!Over(startTask), admin' = admin \/ drain # "done",
             UNCHANGED <<starter, halting, drain, unstopped, failing, stopper>>,
             UNCHANGED <<halted, transport, loops, lanes, winding>>
      PROVE  LifecycleInv'
  <2>1. CASE startTask' = "raised" /\ UNCHANGED <<active, launch>>
    BY <1>3, <2>1 DEF LifecycleInv, LifecycleTypes, Begun, Wound, DrainedSoFar, Kafka!StartStates, Kafka!Over
  <2>2. CASE ~halting /\ startTask' = "done" /\ active' = Kafka!Endpoints
             /\ launch' = [e \in Kafka!Endpoints |-> "restoring"]
    <3>1. \A e \in Kafka!Endpoints : winding[e] = "none"
      BY <1>3, <2>2 DEF LifecycleInv, LifecycleTypes, Begun, Wound, Kafka!Over
    <3>2. LifecycleTypes'
      BY <1>3, <2>2 DEF LifecycleInv, LifecycleTypes, Kafka!StartStates, Kafka!Launching
    <3>3. Begun' /\ Wound'
      BY <1>3, <2>2, <3>1 DEF LifecycleInv, LifecycleTypes, Begun, Wound, Kafka!Over
    <3>4. DrainedSoFar'
      BY <1>3, <2>2 DEF LifecycleInv, LifecycleTypes, DrainedSoFar, Kafka!Draining, Kafka!Over
    <3> QED BY <3>2, <3>3, <3>4 DEF LifecycleInv
  <2> QED BY <1>3, <2>1, <2>2 DEF Kafka!StartEndpoints
<1>4. CASE Kafka!BeginEndpoints
  BY <1>3, <1>4 DEF Kafka!BeginEndpoints, Kafka!Over
<1>5. ASSUME NEW fails \in BOOLEAN, Kafka!TopicsEnd(fails) PROVE LifecycleInv'
  BY <1>5 DEF Kafka!TopicsEnd, LifecycleInv, LifecycleTypes, Begun, Wound, DrainedSoFar,
       Kafka!StartStates, Kafka!Over
<1>6. CASE Kafka!AdminCloses
  BY <1>6 DEF Kafka!AdminCloses, LifecycleInv, LifecycleTypes, Begun, Wound, DrainedSoFar, Kafka!Over
<1>7. CASE Kafka!TopicsClosed
  <2>1. ~Kafka!Over(startTask) /\ drain # "done"
    BY <1>7 DEF Kafka!TopicsClosed, LifecycleInv, DrainedSoFar, Kafka!Over
  <2>2. (startTask' = "raised" /\ UNCHANGED <<active, launch>>) \/ Kafka!StartEndpoints
    BY <1>7 DEF Kafka!TopicsClosed
  <2>3. Kafka!StartEndpoints
    BY <2>2 DEF Kafka!StartEndpoints
  <2> QED BY <1>3, <1>7, <2>1, <2>3 DEF Kafka!TopicsClosed
<1>8. CASE Kafka!StartCancelled
  BY <1>8 DEF Kafka!StartCancelled, LifecycleInv, LifecycleTypes, Begun, Wound, DrainedSoFar,
       Kafka!StartStates, Kafka!Over
<1>9. CASE Kafka!StartReturns
  BY <1>9 DEF Kafka!StartReturns, LifecycleInv, LifecycleTypes, Begun, Wound, DrainedSoFar, Kafka!Over
<1>10. CASE Kafka!StartGivesUp
  BY <1>10 DEF Kafka!StartGivesUp, Kafka!BeginShutdown, Kafka!Again, LifecycleInv, LifecycleTypes, Begun, Wound,
               DrainedSoFar, Kafka!Draining, Kafka!Over
<1> QED
  BY <1>1, <1>2, <1>4, <1>5, <1>6, <1>7, <1>8, <1>9, <1>10 DEF Kafka!SourceStep

(* The steps of the drain that leave the endpoints alone.                  *)
LEMMA LifecycleDrain == LifecycleInv /\ Kafka!DrainStep => LifecycleInv'
<1> SUFFICES ASSUME LifecycleInv, Kafka!DrainStep PROVE LifecycleInv' OBVIOUS
<1> USE DEF Kafka!sourceVars, Kafka!endpointVars
<1>1. CASE Kafka!DrainBegins
  BY <1>1 DEF Kafka!DrainBegins, LifecycleInv, LifecycleTypes, Begun, Wound, DrainedSoFar, Kafka!Draining
<1>2. CASE Kafka!DrainJoins
  BY <1>2 DEF Kafka!DrainJoins, LifecycleInv, LifecycleTypes, Begun, Wound, DrainedSoFar, Kafka!Draining
<1>3. ASSUME NEW fails \in BOOLEAN, Kafka!Settle(fails) PROVE
        /\ stopper' \in [Stoppers -> Kafka!Calls] /\ drain' \in Kafka!Draining
        /\ drain' \in {"failed", "done"} /\ (drain' = "done" => ~fails)
        /\ \A c \in Stoppers : stopper'[c] = "returned" => stopper[c] = "returned" \/ drain' = "done"
  BY <1>3 DEF Kafka!Settle, LifecycleInv, LifecycleTypes, Kafka!Calls, Kafka!Draining
<1>4. CASE Kafka!DrainCloses
  <2>1. /\ drain = "endpoints" /\ unstopped = {} /\ \A c \in Stoppers : stopper[c] # "returned"
        /\ UNCHANGED <<starter, halting, startTask, active, unstopped, failing>>
        /\ UNCHANGED <<halted, launch, transport, loops, lanes, winding>>
    BY <1>4 DEF Kafka!DrainCloses, LifecycleInv, DrainedSoFar
  <2>2. CASE admin = "none"
    <3>1. Kafka!Settle(failing) /\ admin' = admin
      BY <1>4, <2>2 DEF Kafka!DrainCloses
    <3> QED BY <1>3, <2>1, <2>2, <3>1 DEF LifecycleInv, LifecycleTypes, Begun, Wound, DrainedSoFar, Kafka!Settle
  <2>3. CASE admin # "none"
    BY <1>4, <2>1, <2>3 DEF Kafka!DrainCloses, LifecycleInv, LifecycleTypes, Begun, Wound,
         DrainedSoFar, Kafka!Draining
  <2> QED BY <2>2, <2>3
<1>5. CASE Kafka!DrainClosed
  BY <1>5 DEF Kafka!DrainClosed, Kafka!Settle, LifecycleInv, LifecycleTypes, Begun, Wound,
       DrainedSoFar, Kafka!Draining,
              Kafka!Calls
<1>6. ASSUME NEW e \in Kafka!Endpoints, Kafka!DrainStops(e) PROVE LifecycleInv'
  BY <1>6 DEF Kafka!DrainStops, Kafka!Halt, Kafka!Again, LifecycleInv, LifecycleTypes, Begun,
       Wound, DrainedSoFar,
              Kafka!Draining, Kafka!Winding
<1>7. ASSUME NEW e \in Kafka!Endpoints, Kafka!DrainStopped(e) PROVE LifecycleInv'
  BY <1>7 DEF Kafka!DrainStopped, Kafka!Stopping, Kafka!DrainGoesOn, LifecycleInv, LifecycleTypes, Begun, Wound,
              DrainedSoFar, Kafka!Draining
<1> QED BY <1>1, <1>2, <1>4, <1>5, <1>6, <1>7 DEF Kafka!DrainStep

LEMMA LifecycleGivesUp ==
  ASSUME NEW e \in Kafka!Endpoints, LifecycleInv, Kafka!DrainGivesUp(e) PROVE LifecycleInv'
BY DEF Kafka!DrainGivesUp, Kafka!Stopping, Kafka!DrainGoesOn, LifecycleInv, LifecycleTypes, Begun,
     Wound, DrainedSoFar,
       Kafka!Draining, Kafka!endpointVars


(* The steps of an endpoint, its drain apart.                              *)
LEMMA LifecycleEndpoint ==
  ASSUME NEW e \in Kafka!Endpoints, LifecycleInv, Kafka!EndpointStep(e) PROVE LifecycleInv'
<1> USE DEF Kafka!sourceVars, Kafka!drainVars, Kafka!Launches
<1>1. CASE Kafka!LaunchRestored(e)
  BY <1>1 DEF Kafka!LaunchRestored, LifecycleInv, LifecycleTypes, Begun, Wound, DrainedSoFar, Kafka!Launching,
              Kafka!Clients, Kafka!Over
<1>2. CASE Kafka!LaunchDisabled(e)
  BY <1>2 DEF Kafka!LaunchDisabled, LifecycleInv, LifecycleTypes, Begun, Wound, DrainedSoFar,
       Kafka!Launching, Kafka!Over
<1>3. CASE Kafka!LaunchFails(e)
  BY <1>3 DEF Kafka!LaunchFails, LifecycleInv, LifecycleTypes, Begun, Wound, DrainedSoFar,
       Kafka!Launching, Kafka!Over
<1>4. CASE Kafka!LaunchReported(e)
  BY <1>4 DEF Kafka!LaunchReported, Kafka!Halt, Kafka!Again, LifecycleInv, LifecycleTypes, Begun,
       Wound, DrainedSoFar,
              Kafka!Launching, Kafka!Winding, Kafka!Over
<1>5. ASSUME NEW expired \in BOOLEAN, Kafka!LaunchConnected(e, expired) PROVE LifecycleInv'
  BY <1>5 DEF Kafka!LaunchConnected, LifecycleInv, LifecycleTypes, Begun, Wound, DrainedSoFar,
       Kafka!Launching, Kafka!Over
<1>6. CASE Kafka!LaunchCancelled(e)
  BY <1>6 DEF Kafka!LaunchCancelled, LifecycleInv, LifecycleTypes, Begun, Wound, DrainedSoFar,
       Kafka!Launching, Kafka!Over
<1>7. CASE Kafka!LaunchExpires(e)
  BY <1>7 DEF Kafka!LaunchExpires, Kafka!Halt, Kafka!Again, LifecycleInv, LifecycleTypes, Begun,
       Wound, DrainedSoFar,
              Kafka!Winding, Kafka!Over
<1>8. CASE Kafka!LaneBegins(e)
  BY <1>8 DEF Kafka!LaneBegins, LifecycleInv, LifecycleTypes, Begun, Wound, DrainedSoFar
<1>9. ASSUME NEW raises \in BOOLEAN, Kafka!LaneEnds(e, raises) PROVE LifecycleInv'
  BY <1>9 DEF Kafka!LaneEnds, LifecycleInv, LifecycleTypes, Begun, Wound, DrainedSoFar
<1>10. CASE Kafka!TransportCloses(e)
  BY <1>10 DEF Kafka!TransportCloses, LifecycleInv, LifecycleTypes, Begun, Wound, DrainedSoFar, Kafka!Clients
<1> QED
  BY <1>1, <1>2, <1>3, <1>4, <1>5, <1>6, <1>7, <1>8, <1>9, <1>10 DEF Kafka!EndpointStep

(* The drain of an endpoint.                                               *)
LEMMA LifecycleWind ==
  ASSUME NEW e \in Kafka!Endpoints, LifecycleInv, Kafka!WindStep(e) PROVE LifecycleInv'
<1> USE DEF Kafka!sourceVars, Kafka!drainVars, Kafka!Winds
<1>1. CASE Kafka!WindBegins(e)
  BY <1>1 DEF Kafka!WindBegins, LifecycleInv, LifecycleTypes, Begun, Wound, DrainedSoFar, Kafka!Winding
<1>2. CASE Kafka!WindJoins(e)
  BY <1>2 DEF Kafka!WindJoins, LifecycleInv, LifecycleTypes, Begun, Wound, DrainedSoFar, Kafka!Winding
<1>3. CASE Kafka!WindLanes(e)
  BY <1>3 DEF Kafka!WindLanes, LifecycleInv, LifecycleTypes, Begun, Wound, DrainedSoFar, Kafka!Winding
<1>4. ASSUME NEW fails \in BOOLEAN, Kafka!WindFlushed(e, fails) PROVE LifecycleInv'
  BY <1>4 DEF Kafka!WindFlushed, LifecycleInv, LifecycleTypes, Begun, Wound, DrainedSoFar,
       Kafka!Winding, Kafka!Clients
<1>5. CASE Kafka!WindClosed(e)
  BY <1>5 DEF Kafka!WindClosed, LifecycleInv, LifecycleTypes, Begun, Wound, DrainedSoFar,
       Kafka!Winding, Kafka!Clients
<1> QED BY <1>1, <1>2, <1>3, <1>4, <1>5 DEF Kafka!WindStep

(* The callers of stop().                                                  *)
LEMMA LifecycleStop ==
  ASSUME NEW c \in Stoppers, LifecycleInv, Kafka!Stop(c) \/ Kafka!StopReturns(c) \/ Kafka!StopGivesUp(c)
  PROVE  LifecycleInv'
<1> USE DEF Kafka!sourceVars, Kafka!endpointVars
<1>1. CASE Kafka!Stop(c)
  BY <1>1 DEF Kafka!Stop, Kafka!BeginShutdown, Kafka!Again, LifecycleInv, LifecycleTypes, Begun,
       Wound, DrainedSoFar,
              Kafka!Draining, Kafka!Calls
<1>2. CASE Kafka!StopReturns(c)
  BY <1>2 DEF Kafka!StopReturns, LifecycleInv, LifecycleTypes, Begun, Wound, DrainedSoFar, Kafka!Calls
<1>3. CASE Kafka!StopGivesUp(c)
  BY <1>3 DEF Kafka!StopGivesUp, LifecycleInv, LifecycleTypes, Begun, Wound, DrainedSoFar, Kafka!Calls
<1> QED BY <1>1, <1>2, <1>3

LEMMA LifecycleReleases == LifecycleInv => Kafka!Released
<1> SUFFICES ASSUME LifecycleInv PROVE Kafka!Released OBVIOUS
<1>1. ASSUME NEW e \in Kafka!Endpoints, winding[e] = "done" PROVE Kafka!Quiet(e)
  BY <1>1 DEF LifecycleInv, Wound, Kafka!Quiet
<1>2. ASSUME drain = "done" \/ \E c \in Stoppers : stopper[c] = "returned"
      PROVE  Kafka!Over(startTask) /\ admin = "none" /\ \A e \in Kafka!Endpoints : Kafka!Quiet(e)
  <2>1. Kafka!Over(startTask) /\ admin = "none" /\ active = {}
    BY <1>2 DEF LifecycleInv, DrainedSoFar
  <2>2. CASE startTask = "done"
    BY <1>1, <2>1, <2>2 DEF LifecycleInv, Begun
  <2>3. CASE startTask # "done"
    BY <2>1, <2>3 DEF LifecycleInv, Begun, Kafka!Quiet, Kafka!Over
  <2> QED BY <2>1, <2>2, <2>3
<1> QED BY <1>1, <1>2 DEF Kafka!Released

(* Once the drain of a Kafka source is done, or one stop() has returned,   *)
(* whoever else started it, stopped it, or gave up meanwhile, its start    *)
(* task is over, its admin client is gone, and no endpoint has a start     *)
(* task, a consumer, loops or lanes any more; nor has an endpoint whose    *)
(* own drain is done.                                                      *)
THEOREM StopLeavesNothing == Kafka!Spec => []Kafka!Released
<1>1. LifecycleInv /\ [Kafka!Next]_(Kafka!vars) => LifecycleInv'
  <2> SUFFICES ASSUME LifecycleInv, [Kafka!Next]_(Kafka!vars) PROVE LifecycleInv' OBVIOUS
  <2>1. CASE UNCHANGED Kafka!vars
    BY <2>1 DEF Kafka!vars, Kafka!sourceVars, Kafka!drainVars, Kafka!endpointVars, LifecycleInv,
         LifecycleTypes, Begun,
                Wound, DrainedSoFar, Kafka!Over
  <2> QED
    BY <2>1, LifecycleStart, LifecycleDrain, LifecycleGivesUp, LifecycleEndpoint, LifecycleWind,
         LifecycleStop DEF Kafka!Next
<1> QED BY <1>1, LifecycleInit, LifecycleReleases, PTL DEF Kafka!Spec

(* datasource/kafka/aiokafkads.py and runtime/pool/threadpool.py: a stop()   *)
(* or aclose() that has returned has left nothing behind. Of a Kafka source  *)
(* no task, client, consumer or lane is there; of a thread pool no thread,   *)
(* and each task that it accepted has run.                                   *)
THEOREM NothingLeft == Kafka!Spec /\ ThreadPool!Spec => []Released
<1>1. ThreadPool!Spec => [](ThreadPool!ClosedRanAll /\ ThreadPool!NoneSleeps)
  <2>1. ThreadsInv => ThreadPool!ClosedRanAll /\ ThreadPool!NoneSleeps
    BY ThreadsReleased DEF ThreadsInv
  <2> QED BY <2>1, ThreadsInit, ThreadsStep, PTL DEF ThreadPool!Spec
<1> QED BY <1>1, StopLeavesNothing, PTL DEF Released

-----------------------------------------------------------------------------
(* A key is a priority, or the minus infinity of promote, and a counter. *)
Keys == (Nat \union {Heap!Lowest}) \X Nat
Entry == [key : Keys, task : Entries]
HeapsOf(n) == [1 .. n -> Entry]

(* The entries of the heap, and that no task has two of them. *)
Held(h, n) == {h[i] : i \in 1 .. n}
Distinct(h, n) == \A i, j \in 1 .. n : h[i].task = h[j].task => i = j

(* What _up and _down ask before a swap. *)
NotBefore(k, l) == ~Heap!Less(k, l)

(* Keys are in a linear order. *)
LEMMA KeyOrder ==
  \A a, b, c \in Keys :
    /\ NotBefore(a, b) /\ NotBefore(b, c) => NotBefore(a, c)
    /\ Heap!Less(a, b) => NotBefore(b, a)
  BY DEF NotBefore, Heap!Less, Keys, Heap!Lowest

(* The children of p are at 2p and 2p + 1, and a parent is before both. *)
LEMMA ParentFacts ==
  /\ \A n \in Nat : \A i \in 2 .. n :
       /\ Heap!Parent(i) \in 1 .. n /\ Heap!Parent(i) < i
       /\ i = 2 * Heap!Parent(i) \/ i = 2 * Heap!Parent(i) + 1
  /\ \A p \in Nat \ {0} : Heap!Parent(2 * p) = p /\ Heap!Parent(2 * p + 1) = p
  BY DEF Heap!Parent

(* A heap is a sequence of its length. *)
LEMMA HeapIsSeq ==
  ASSUME NEW n \in Nat, NEW h \in HeapsOf(n)
  PROVE  h \in Seq(Entry) /\ Len(h) = n
  BY DEF HeapsOf

(* _swap moves two entries, and neither loses nor doubles one. *)
LEMMA SwapFacts ==
  ASSUME NEW n \in Nat, NEW h \in HeapsOf(n), NEW a \in 1 .. n, NEW b \in 1 .. n, a # b,
         NEW g, g = Heap!Swapped(h, a, b)
  PROVE  /\ g \in HeapsOf(n) /\ g[a] = h[b] /\ g[b] = h[a]
         /\ \A i \in 1 .. n : i # a /\ i # b => g[i] = h[i]
         /\ Held(g, n) = Held(h, n) /\ (Distinct(h, n) => Distinct(g, n))
<1>1. g \in HeapsOf(n) /\ g[a] = h[b] /\ g[b] = h[a] /\ \A i \in 1 .. n : i # a /\ i # b => g[i] = h[i]
  BY DEF Heap!Swapped, HeapsOf
<1>2. Held(g, n) = Held(h, n)
  BY <1>1 DEF Held
<1>3. Distinct(h, n) => Distinct(g, n)
  BY <1>1 DEF Distinct
<1> QED BY <1>1, <1>2, <1>3

(* The heap is ordered but for the entry at i, whose children are after the *)
(* entry above it: what holds before each pass of _up.                      *)
UpFit(h, n, i) ==
  /\ \A c \in 2 .. n : c # i /\ Heap!Parent(c) # i => NotBefore(h[c].key, h[Heap!Parent(c)].key)
  /\ \A c \in 2 .. n : Heap!Parent(c) = i /\ i # 1 => NotBefore(h[c].key, h[Heap!Parent(i)].key)

(* The entry at i is in order with the entries below, and above it. *)
Below(h, n, i) == \A c \in 2 .. n : Heap!Parent(c) = i => NotBefore(h[c].key, h[i].key)
Above(h, i) == i # 1 => NotBefore(h[i].key, h[Heap!Parent(i)].key)

(* Every entry is in order with its parent. *)
Ordered(h, n) == \A c \in 2 .. n : NotBefore(h[c].key, h[Heap!Parent(c)].key)

(* A pass of _up that swaps keeps the rest of the heap in order, and leaves *)
(* the moving entry in order with all below it.                             *)
LEMMA RaiseStep ==
  ASSUME NEW n \in Nat, NEW h \in HeapsOf(n), NEW i \in 1 .. n, UpFit(h, n, i), ~Above(h, i)
  PROVE  LET p == Heap!Parent(i)
             g == Heap!Swapped(h, i, p)
         IN  /\ Heap!Raised([heap |-> h, at |-> i]) = [heap |-> g, at |-> p]
             /\ UpFit(g, n, p) /\ (Below(h, n, i) => Below(g, n, p))
<1> DEFINE p == Heap!Parent(i)
           g == Heap!Swapped(h, i, p)
<1>1. i # 1 /\ p \in 1 .. n /\ p < i /\ Heap!Less(h[i].key, h[p].key)
  BY ParentFacts DEF Above, NotBefore
<1>2. Heap!Raised([heap |-> h, at |-> i]) = [heap |-> g, at |-> p]
  BY <1>1 DEF Heap!Raised, Heap!Key
<1>3. g \in HeapsOf(n) /\ g[i] = h[p] /\ g[p] = h[i] /\ \A c \in 1 .. n : c # i /\ c # p => g[c] = h[c]
  BY <1>1, SwapFacts
<1>4. \A c \in 1 .. n : h[c].key \in Keys
  BY DEF HeapsOf, Entry
<1> HIDE DEF g
<1>5. \A c \in 2 .. n : Heap!Parent(c) \in 1 .. n /\ Heap!Parent(c) < c
  BY ParentFacts
<1>6. ASSUME NEW c \in 2 .. n, c # p, Heap!Parent(c) # p PROVE NotBefore(g[c].key, g[Heap!Parent(c)].key)
  <2>1. CASE Heap!Parent(c) = i
    BY <1>1, <1>3, <1>6, <2>1 DEF UpFit
  <2>2. CASE Heap!Parent(c) # i
    BY <1>1, <1>3, <1>5, <1>6, <2>2 DEF UpFit
  <2> QED BY <2>1, <2>2
<1>7. ASSUME NEW c \in 2 .. n, Heap!Parent(c) = p, p # 1 PROVE NotBefore(g[c].key, g[Heap!Parent(p)].key)
  <2>1. /\ Heap!Parent(p) \in 1 .. n /\ Heap!Parent(p) # p /\ Heap!Parent(p) # i
        /\ g[Heap!Parent(p)] = h[Heap!Parent(p)]
    BY <1>1, <1>3, <1>5, <1>7
  <2>2. NotBefore(h[p].key, h[Heap!Parent(p)].key)
    BY <1>1, <1>7, <2>1 DEF UpFit
  <2>3. CASE c = i
    BY <1>3, <2>1, <2>2, <2>3
  <2>4. CASE c # i
    <3>1. g[c] = h[c] /\ NotBefore(h[c].key, h[p].key)
      BY <1>1, <1>3, <1>5, <1>7, <2>4 DEF UpFit
    <3> QED BY <1>1, <1>4, <2>1, <2>2, <3>1, KeyOrder
  <2> QED BY <2>3, <2>4
<1>8. ASSUME Below(h, n, i), NEW c \in 2 .. n, Heap!Parent(c) = p PROVE NotBefore(g[c].key, g[p].key)
  <2>1. NotBefore(h[p].key, h[i].key)
    BY <1>1, <1>4, KeyOrder
  <2>2. CASE c = i
    BY <1>3, <2>1, <2>2
  <2>3. CASE c # i
    <3>1. g[c] = h[c] /\ NotBefore(h[c].key, h[p].key)
      BY <1>1, <1>3, <1>5, <1>8, <2>3 DEF UpFit
    <3> QED BY <1>1, <1>3, <1>4, <2>1, <3>1, KeyOrder
  <2> QED BY <2>2, <2>3
<1> QED BY <1>2, <1>6, <1>7, <1>8 DEF UpFit, Below, g

(* The heap is ordered but for the entry at i with its children, which are *)
(* after the entry above it: what holds before each pass of _down.         *)
DownFit(h, n, i) ==
  /\ \A c \in 2 .. n : Heap!Parent(c) # i => NotBefore(h[c].key, h[Heap!Parent(c)].key)
  /\ \A c \in 2 .. n : Heap!Parent(c) = i /\ i # 1 => NotBefore(h[c].key, h[Heap!Parent(i)].key)

(* A pass of _down rests with the entry in order, or sinks it further and *)
(* keeps the rest of the heap in order: the smaller child rises.          *)
LEMMA LowerStep ==
  ASSUME NEW n \in Nat, NEW h \in HeapsOf(n), NEW i \in 1 .. n, DownFit(h, n, i)
  PROVE  LET s == Heap!Lowered([heap |-> h, at |-> i])
         IN  \/ Below(h, n, i) /\ s = [heap |-> h, at |-> i]
             \/ /\ ~Below(h, n, i)
                /\ \E c \in 2 .. n :
                     /\ c > i /\ s = [heap |-> Heap!Swapped(h, i, c), at |-> c]
                     /\ DownFit(s.heap, n, c)
<1> DEFINE c == Heap!SmallerChild(h, i)
           g == Heap!Swapped(h, i, c)
<1>1. Len(h) = n
  BY HeapIsSeq
<1>2. \A d \in 1 .. n : h[d].key \in Keys
  BY DEF HeapsOf, Entry
<1>3. \A d \in 2 .. n : Heap!Parent(d) \in 1 .. n /\ Heap!Parent(d) < d
  BY ParentFacts
<1>4. ASSUME 2 * i <= n
      PROVE  /\ c \in 2 .. n /\ c > i /\ Heap!Parent(c) = i
             /\ \A d \in 2 .. n : Heap!Parent(d) = i => NotBefore(h[d].key, h[c].key)
  <2>1. Heap!Parent(2 * i) = i /\ Heap!Parent(2 * i + 1) = i
    BY ParentFacts
  <2>2. \A d \in 2 .. n : Heap!Parent(d) = i => d = 2 * i \/ d = 2 * i + 1
    BY ParentFacts
  <2>3. \A d \in 1 .. n : NotBefore(h[d].key, h[d].key)
    BY <1>2 DEF NotBefore, Heap!Less, Keys, Heap!Lowest
  <2>4. CASE 2 * i + 1 <= n /\ Heap!Less(h[2 * i + 1].key, h[2 * i].key)
    <3>1. c = 2 * i + 1
      BY <1>1, <2>4 DEF Heap!SmallerChild, Heap!Key
    <3>2. NotBefore(h[2 * i].key, h[2 * i + 1].key)
      BY <1>2, <1>4, <2>4, KeyOrder
    <3> QED BY <2>1, <2>2, <2>3, <2>4, <3>1, <3>2
  <2>5. CASE ~(2 * i + 1 <= n /\ Heap!Less(h[2 * i + 1].key, h[2 * i].key))
    <3>1. c = 2 * i
      BY <1>1, <2>5 DEF Heap!SmallerChild, Heap!Key
    <3>2. 2 * i + 1 <= n => NotBefore(h[2 * i + 1].key, h[2 * i].key)
      BY <2>5 DEF NotBefore
    <3> QED BY <1>4, <2>1, <2>2, <2>3, <3>1, <3>2
  <2> QED BY <2>4, <2>5
<1>5. CASE 2 * i > n
  <2>1. Heap!Lowered([heap |-> h, at |-> i]) = [heap |-> h, at |-> i]
    BY <1>1, <1>5 DEF Heap!Lowered
  <2>2. ASSUME NEW d \in 2 .. n PROVE Heap!Parent(d) # i
    <3>1. d = 2 * Heap!Parent(d) \/ d = 2 * Heap!Parent(d) + 1
      BY ParentFacts
    <3> QED BY <1>5, <3>1
  <2> QED BY <2>1, <2>2 DEF Below
<1>6. CASE 2 * i <= n /\ ~Heap!Less(h[c].key, h[i].key)
  <2>1. Heap!Lowered([heap |-> h, at |-> i]) = [heap |-> h, at |-> i]
    BY <1>1, <1>6 DEF Heap!Lowered, Heap!Key
  <2>2. ASSUME NEW d \in 2 .. n, Heap!Parent(d) = i PROVE NotBefore(h[d].key, h[i].key)
    <3>1. NotBefore(h[d].key, h[c].key) /\ NotBefore(h[c].key, h[i].key)
      BY <1>4, <1>6, <2>2 DEF NotBefore
    <3> QED BY <1>2, <1>4, <1>6, <3>1, KeyOrder
  <2> QED BY <2>1, <2>2 DEF Below
<1>7. CASE 2 * i <= n /\ Heap!Less(h[c].key, h[i].key)
  <2>1. Heap!Lowered([heap |-> h, at |-> i]) = [heap |-> g, at |-> c]
    BY <1>1, <1>7 DEF Heap!Lowered, Heap!Key
  <2>2. c \in 2 .. n /\ c > i /\ Heap!Parent(c) = i /\ c \in 1 .. n
    BY <1>4, <1>7
  <2>3. g \in HeapsOf(n) /\ g[i] = h[c] /\ g[c] = h[i] /\ \A d \in 1 .. n : d # i /\ d # c => g[d] = h[d]
    <3>1. g = Heap!Swapped(h, i, c) /\ i # c /\ c \in 1 .. n
      BY <2>2
    <3> HIDE DEF c, g
    <3> QED BY <3>1, SwapFacts
  <2>4. \A d \in 2 .. n : Heap!Parent(d) = i => NotBefore(h[d].key, h[c].key)
    BY <1>4, <1>7
  <2>9. ~Below(h, n, i)
    BY <1>7, <2>2 DEF Below, NotBefore
  <2>5. NotBefore(h[i].key, h[c].key)
    BY <1>2, <1>7, <2>2, KeyOrder
  <2> HIDE DEF c, g
  <2>6. ASSUME NEW d \in 2 .. n, Heap!Parent(d) # c PROVE NotBefore(g[d].key, g[Heap!Parent(d)].key)
    <3>1. CASE d = c
      BY <2>2, <2>3, <2>5, <3>1
    <3>2. CASE d # c /\ Heap!Parent(d) = i
      <4>1. g[d] = h[d]
        BY <1>3, <2>3, <3>2
      <4> QED BY <2>3, <2>4, <3>2, <4>1
    <3>3. CASE d = i
      <4>1. g[Heap!Parent(d)] = h[Heap!Parent(d)]
        BY <1>3, <2>2, <2>3, <3>3
      <4> QED BY <2>2, <2>3, <3>3, <4>1 DEF DownFit
    <3>4. CASE d # c /\ d # i /\ Heap!Parent(d) # i
      <4>1. g[d] = h[d] /\ g[Heap!Parent(d)] = h[Heap!Parent(d)]
        BY <1>3, <2>3, <2>6, <3>4
      <4> QED BY <3>4, <4>1 DEF DownFit
    <3> QED BY <3>1, <3>2, <3>3, <3>4
  <2>7. ASSUME NEW d \in 2 .. n, Heap!Parent(d) = c PROVE NotBefore(g[d].key, g[Heap!Parent(c)].key)
    <3>1. d # i /\ d # c /\ c # i /\ g[d] = h[d] /\ g[i] = h[c]
      BY <1>3, <2>2, <2>3, <2>7
    <3> QED BY <2>2, <2>7, <3>1 DEF DownFit
  <2>8. DownFit(g, n, c)
    BY <2>6, <2>7 DEF DownFit
  <2> QED BY <2>1, <2>2, <2>8, <2>9 DEF g
<1> QED BY <1>5, <1>6, <1>7
(* A heap in the course of a pass, and where its moving entry is. *)
Passing(n) == [heap : HeapsOf(n), at : 1 .. n]

(* A pass of _up leaves a heap of the same size. *)
LEMMA RaisedPlace ==
  ASSUME NEW n \in Nat, NEW s \in Passing(n)
  PROVE  Heap!Raised(s) \in Passing(n)
<1>1. s = [heap |-> s.heap, at |-> s.at] /\ s.heap \in HeapsOf(n) /\ s.at \in 1 .. n
  BY DEF Passing
<1>2. CASE s.at = 1 \/ ~Heap!Less(Heap!Key(s.heap, s.at), Heap!Key(s.heap, Heap!Parent(s.at)))
  BY <1>2 DEF Heap!Raised
<1>3. CASE ~(s.at = 1 \/ ~Heap!Less(Heap!Key(s.heap, s.at), Heap!Key(s.heap, Heap!Parent(s.at))))
  <2>1. Heap!Parent(s.at) \in 1 .. n /\ Heap!Parent(s.at) # s.at
    BY <1>1, <1>3, ParentFacts
  <2>2. Heap!Swapped(s.heap, s.at, Heap!Parent(s.at)) \in HeapsOf(n)
    BY <1>1, <2>1, SwapFacts
  <2> QED BY <1>3, <2>1, <2>2 DEF Heap!Raised, Passing
<1> QED BY <1>2, <1>3

(* A pass of _down leaves a heap of the same size. *)
LEMMA LoweredPlace ==
  ASSUME NEW n \in Nat, NEW s \in Passing(n)
  PROVE  Heap!Lowered(s) \in Passing(n)
<1> DEFINE c == Heap!SmallerChild(s.heap, s.at)
<1>1. s = [heap |-> s.heap, at |-> s.at] /\ s.heap \in HeapsOf(n) /\ s.at \in 1 .. n /\ Len(s.heap) = n
  BY HeapIsSeq DEF Passing
<1>2. CASE 2 * s.at > Len(s.heap) \/ ~Heap!Less(Heap!Key(s.heap, c), Heap!Key(s.heap, s.at))
  BY <1>2 DEF Heap!Lowered
<1>3. CASE ~(2 * s.at > Len(s.heap) \/ ~Heap!Less(Heap!Key(s.heap, c), Heap!Key(s.heap, s.at)))
  <2>1. c \in 1 .. n /\ c # s.at
    BY <1>1, <1>3 DEF Heap!SmallerChild
  <2>2. Heap!Lowered(s) = [heap |-> Heap!Swapped(s.heap, s.at, c), at |-> c]
    BY <1>3 DEF Heap!Lowered
  <2> HIDE DEF c
  <2>3. Heap!Swapped(s.heap, s.at, c) \in HeapsOf(n)
    BY <1>1, <2>1, SwapFacts
  <2> QED BY <2>1, <2>2, <2>3 DEF Passing
<1> QED BY <1>2, <1>3

(* What _up returns is reached by iterated passes. *)
LEMMA UpPasses ==
  ASSUME NEW n \in Nat, NEW h \in HeapsOf(n), NEW i \in 1 .. n
  PROVE  \E g \in [Nat -> Passing(n)] :
           /\ g[0] = [heap |-> h, at |-> i] /\ \A k \in Nat : g[k + 1] = Heap!Raised(g[k])
           /\ Heap!Up(h, i) = g[n]
<1> DEFINE Passes(g) == [k \in Nat |-> IF k = 0 THEN [heap |-> h, at |-> i] ELSE Heap!Raised(g[k - 1])]
           P == CHOOSE pass : pass = Passes(pass)
<1>1. \E f : f = Passes(f)
  <2> DEFINE F == [s \in Passing(n) |-> Heap!Raised(s)]
             first == [heap |-> h, at |-> i]
  <2>1. F \in [Passing(n) -> Passing(n)]
    BY RaisedPlace
  <2>2. first \in Passing(n)
    BY DEF Passing
  <2> HIDE DEF F, first
  <2>3. PICK f : Iterates(f, Passing(n), F, first)
    BY <2>1, <2>2, Iterated
  <2>4. ASSUME NEW k \in Nat, k # 0 PROVE f[k] = Heap!Raised(f[k - 1])
    <3>1. k - 1 \in Nat /\ k = (k - 1) + 1 /\ f[k - 1] \in Passing(n)
      BY <2>3, <2>4 DEF Iterates
    <3>2. f[k] = F[f[k - 1]]
      BY <2>3, <3>1 DEF Iterates
    <3> QED BY <3>1, <3>2 DEF F
  <2>5. f = Passes(f)
    BY <2>3, <2>4 DEF first, Iterates
  <2> QED BY <2>5
<1>2. P = Passes(P)
  BY <1>1
<1>3. Heap!Up(h, i) = P[n]
  BY HeapIsSeq DEF Heap!Up
<1> HIDE DEF P
<1>4. P[0] = [heap |-> h, at |-> i]
  BY <1>2
<1>5. ASSUME NEW k \in Nat PROVE P[k + 1] = Heap!Raised(P[k])
  BY <1>2
<1>6. P \in [Nat -> Passing(n)]
  <2> DEFINE S == {k \in Nat : P[k] \in Passing(n)}
  <2>1. 0 \in S
    BY <1>4 DEF Passing
  <2>2. \A k \in Nat : k \in S => k + 1 \in S
    BY <1>5, RaisedPlace
  <2>3. Nat \subseteq S
    <3> HIDE DEF S
    <3> QED BY <2>1, <2>2, Counting
  <2> QED BY <1>2, <2>3
<1> QED BY <1>3, <1>4, <1>5, <1>6

(* What _down returns is reached by iterated passes. *)
LEMMA DownPasses ==
  ASSUME NEW n \in Nat, NEW h \in HeapsOf(n), NEW i \in 1 .. n
  PROVE  \E g \in [Nat -> Passing(n)] :
           /\ g[0] = [heap |-> h, at |-> i] /\ \A k \in Nat : g[k + 1] = Heap!Lowered(g[k])
           /\ Heap!Down(h, i) = g[n].heap
<1> DEFINE Passes(g) == [k \in Nat |-> IF k = 0 THEN [heap |-> h, at |-> i] ELSE Heap!Lowered(g[k - 1])]
           P == CHOOSE pass : pass = Passes(pass)
<1>1. \E f : f = Passes(f)
  <2> DEFINE F == [s \in Passing(n) |-> Heap!Lowered(s)]
             first == [heap |-> h, at |-> i]
  <2>1. F \in [Passing(n) -> Passing(n)]
    BY LoweredPlace
  <2>2. first \in Passing(n)
    BY DEF Passing
  <2> HIDE DEF F, first
  <2>3. PICK f : Iterates(f, Passing(n), F, first)
    BY <2>1, <2>2, Iterated
  <2>4. ASSUME NEW k \in Nat, k # 0 PROVE f[k] = Heap!Lowered(f[k - 1])
    <3>1. k - 1 \in Nat /\ k = (k - 1) + 1 /\ f[k - 1] \in Passing(n)
      BY <2>3, <2>4 DEF Iterates
    <3>2. f[k] = F[f[k - 1]]
      BY <2>3, <3>1 DEF Iterates
    <3> QED BY <3>1, <3>2 DEF F
  <2>5. f = Passes(f)
    BY <2>3, <2>4 DEF first, Iterates
  <2> QED BY <2>5
<1>2. P = Passes(P)
  BY <1>1
<1>3. Heap!Down(h, i) = P[n].heap
  BY HeapIsSeq DEF Heap!Down
<1> HIDE DEF P
<1>4. P[0] = [heap |-> h, at |-> i]
  BY <1>2
<1>5. ASSUME NEW k \in Nat PROVE P[k + 1] = Heap!Lowered(P[k])
  BY <1>2
<1>6. P \in [Nat -> Passing(n)]
  <2> DEFINE S == {k \in Nat : P[k] \in Passing(n)}
  <2>1. 0 \in S
    BY <1>4 DEF Passing
  <2>2. \A k \in Nat : k \in S => k + 1 \in S
    BY <1>5, LoweredPlace
  <2>3. Nat \subseteq S
    <3> HIDE DEF S
    <3> QED BY <2>1, <2>2, Counting
  <2> QED BY <1>2, <2>3
<1> QED BY <1>3, <1>4, <1>5, <1>6

(* _up brings an entry to rest in order with the entry above it: as many *)
(* passes as the heap has entries reach the top.                         *)
LEMMA UpResult ==
  ASSUME NEW n \in Nat, NEW h \in HeapsOf(n), NEW i \in 1 .. n, UpFit(h, n, i), NEW u, u = Heap!Up(h, i)
  PROVE  /\ u \in Passing(n) /\ UpFit(u.heap, n, u.at) /\ Above(u.heap, u.at)
         /\ Below(h, n, i) => Below(u.heap, n, u.at)
         /\ Held(u.heap, n) = Held(h, n) /\ (Distinct(h, n) => Distinct(u.heap, n))
<1>1. PICK g \in [Nat -> Passing(n)] :
        /\ g[0] = [heap |-> h, at |-> i] /\ \A k \in Nat : g[k + 1] = Heap!Raised(g[k])
        /\ Heap!Up(h, i) = g[n]
  BY UpPasses
<1> DEFINE Fits(s) == /\ UpFit(s.heap, n, s.at) /\ (Below(h, n, i) => Below(s.heap, n, s.at))
                      /\ Held(s.heap, n) = Held(h, n) /\ (Distinct(h, n) => Distinct(s.heap, n))
           S == {k \in Nat : Fits(g[k]) /\ (Above(g[k].heap, g[k].at) \/ g[k].at + k <= n)}
<1>2. 0 \in S
  BY <1>1
<1>3. ASSUME NEW k \in Nat, k \in S PROVE k + 1 \in S
  <2> DEFINE a == g[k].heap
             j == g[k].at
  <2>1. a \in HeapsOf(n) /\ j \in 1 .. n /\ g[k] = [heap |-> a, at |-> j]
    BY <1>1 DEF Passing
  <2>2. g[k + 1] = Heap!Raised([heap |-> a, at |-> j]) /\ k + 1 \in Nat
    BY <1>1, <2>1
  <2>3. Fits([heap |-> a, at |-> j]) /\ (Above(a, j) \/ j + k <= n)
    BY <1>3, <2>1
  <2> HIDE DEF a, j
  <2>4. CASE Above(a, j)
    <3>1. g[k + 1] = [heap |-> a, at |-> j]
      BY <2>2, <2>4 DEF Above, NotBefore, Heap!Raised, Heap!Key
    <3> QED BY <2>2, <2>3, <2>4, <3>1
  <2>5. CASE ~Above(a, j)
    <3> DEFINE p == Heap!Parent(j)
               b == Heap!Swapped(a, j, p)
    <3>1. p \in 1 .. n /\ p < j
      BY <2>1, <2>5, ParentFacts DEF Above
    <3>2. g[k + 1] = [heap |-> b, at |-> p] /\ UpFit(b, n, p) /\ (Below(a, n, j) => Below(b, n, p))
      BY <2>1, <2>2, <2>3, <2>5, RaiseStep
    <3>3. Held(b, n) = Held(a, n) /\ (Distinct(a, n) => Distinct(b, n))
      BY <2>1, <3>1, SwapFacts
    <3> HIDE DEF b, p
    <3> QED BY <2>1, <2>2, <2>3, <2>5, <3>1, <3>2, <3>3
  <2> QED BY <2>4, <2>5
<1>4. n \in S
  <2> HIDE DEF S
  <2> QED BY <1>2, <1>3, Counting
<1>5. g[n].at \in 1 .. n
  BY <1>1 DEF Passing
<1> QED BY <1>1, <1>4, <1>5

(* _down leaves the whole heap in order, if the entry sinks from a place *)
(* where it is in order with the entry above it.                         *)
LEMMA DownResult ==
  ASSUME NEW n \in Nat, NEW h \in HeapsOf(n), NEW i \in 1 .. n, DownFit(h, n, i), NEW d, d = Heap!Down(h, i)
  PROVE  /\ d \in HeapsOf(n) /\ Ordered(d, n)
         /\ Held(d, n) = Held(h, n) /\ (Distinct(h, n) => Distinct(d, n))
<1>1. PICK g \in [Nat -> Passing(n)] :
        /\ g[0] = [heap |-> h, at |-> i] /\ \A k \in Nat : g[k + 1] = Heap!Lowered(g[k])
        /\ Heap!Down(h, i) = g[n].heap
  BY DownPasses
<1> DEFINE Fits(s) == /\ DownFit(s.heap, n, s.at)
                      /\ Held(s.heap, n) = Held(h, n) /\ (Distinct(h, n) => Distinct(s.heap, n))
           S == {k \in Nat : Fits(g[k]) /\ (Below(g[k].heap, n, g[k].at) \/ g[k].at > k)}
<1>2. 0 \in S
  BY <1>1
<1>3. ASSUME NEW k \in Nat, k \in S PROVE k + 1 \in S
  <2> DEFINE a == g[k].heap
             j == g[k].at
  <2>1. a \in HeapsOf(n) /\ j \in 1 .. n /\ g[k] = [heap |-> a, at |-> j]
    BY <1>1 DEF Passing
  <2>2. g[k + 1] = Heap!Lowered([heap |-> a, at |-> j]) /\ k + 1 \in Nat
    BY <1>1, <2>1
  <2>3. Fits([heap |-> a, at |-> j]) /\ (Below(a, n, j) \/ j > k)
    BY <1>3, <2>1
  <2> HIDE DEF a, j
  <2>4. CASE Below(a, n, j)
    <3>1. g[k + 1] = [heap |-> a, at |-> j]
      BY <2>1, <2>2, <2>3, <2>4, LowerStep
    <3> QED BY <2>2, <2>3, <2>4, <3>1
  <2>5. CASE ~Below(a, n, j)
    <3>1. PICK c \in 2 .. n : /\ c > j /\ g[k + 1] = [heap |-> Heap!Swapped(a, j, c), at |-> c]
                              /\ DownFit(Heap!Swapped(a, j, c), n, c)
      BY <2>1, <2>2, <2>3, <2>5, LowerStep
    <3> DEFINE b == Heap!Swapped(a, j, c)
    <3>2. Held(b, n) = Held(a, n) /\ (Distinct(a, n) => Distinct(b, n))
      BY <2>1, <3>1, SwapFacts
    <3> HIDE DEF b
    <3> QED BY <2>1, <2>2, <2>3, <2>5, <3>1, <3>2 DEF b
  <2> QED BY <2>4, <2>5
<1>4. n \in S
  <2> HIDE DEF S
  <2> QED BY <1>2, <1>3, Counting
<1>5. g[n].at \in 1 .. n /\ g[n].heap \in HeapsOf(n)
  BY <1>1 DEF Passing
<1>6. DownFit(d, n, g[n].at) /\ Below(d, n, g[n].at)
  BY <1>1, <1>4, <1>5
<1>7. Ordered(d, n)
  BY <1>6 DEF DownFit, Below, Ordered
<1> QED BY <1>1, <1>4, <1>5, <1>7

(* The positions of the code: exactly where each entry of h lies. *)
Located(p, h, n) ==
  /\ p \in [Entries -> Nat]
  /\ \A i \in 1 .. n : p[h[i].task] = i
  /\ \A t \in Entries : p[t] # 0 => p[t] \in 1 .. n /\ h[p[t]].task = t

(* The swaps leave exact positions, if only tasks of the heap had one. *)
LEMMA PositionsLocated ==
  ASSUME NEW n \in Nat, NEW h \in HeapsOf(n), Distinct(h, n), NEW old \in [Entries -> Nat],
         \A t \in Entries : old[t] # 0 => \E i \in 1 .. n : h[i].task = t
  PROVE  Located(Heap!PositionsOf(old, h), h, n)
<1> DEFINE p == Heap!PositionsOf(old, h)
           place(t) == CHOOSE i \in 1 .. n : h[i].task = t
<1>1. p = [t \in Entries |-> IF \E i \in 1 .. n : h[i].task = t THEN place(t) ELSE old[t]]
  BY HeapIsSeq DEF Heap!PositionsOf
<1>2. \A t \in Entries : (\E i \in 1 .. n : h[i].task = t) => place(t) \in 1 .. n /\ h[place(t)].task = t
  OBVIOUS
<1> HIDE DEF p, place
<1>3. \A i \in 1 .. n : h[i].task \in Entries
  BY DEF HeapsOf, Entry
<1>4. p \in [Entries -> Nat]
  BY <1>1, <1>2
<1>5. \A i \in 1 .. n : p[h[i].task] = i
  BY <1>1, <1>2, <1>3 DEF Distinct
<1>6. \A t \in Entries : p[t] # 0 => p[t] \in 1 .. n /\ h[p[t]].task = t
  BY <1>1, <1>2
<1> QED BY <1>4, <1>5, <1>6 DEF Located, p

(* Exact positions leave no room for two entries of a task. *)
LEMMA LocatedDistinct ==
  ASSUME NEW n \in Nat, NEW h, NEW p, Located(p, h, n)
  PROVE  Distinct(h, n)
  BY DEF Located, Distinct

(* The inductive invariant of the heap. *)
HeapInv ==
  /\ Len(items) \in Nat /\ items \in HeapsOf(Len(items))
  /\ counter \in Nat /\ Ordered(items, Len(items))
  /\ Located(positions, items, Len(items))
  /\ Held(items, Len(items)) = content
  /\ IsFiniteSet(content) /\ Cardinality(content) = Len(items)

(* push appends an entry, which has none below it, and lets it rise. *)
LEMMA PushStep ==
  ASSUME HeapInv, NEW t \in Entries, NEW p \in Priorities, Heap!Push(t, p)
  PROVE  HeapInv'
<1> DEFINE n == Len(items)
           e == [key |-> <<p, counter>>, task |-> t]
           g == Append(items, e)
           u == Heap!Up(g, n + 1)
<1>1. /\ positions[t] = 0 /\ items' = u.heap /\ positions' = Heap!PositionsOf(positions, items')
      /\ content' = content \union {e} /\ counter' = counter + 1
  BY DEF Heap!Push
<1>2. n \in Nat /\ n + 1 \in Nat /\ items \in HeapsOf(n) /\ e \in Entry
  BY PrioritiesAssumption DEF HeapInv, Entry, Keys
<1>3. g \in HeapsOf(n + 1) /\ g[n + 1] = e /\ \A i \in 1 .. n : g[i] = items[i]
  <2> HIDE DEF e
  <2>1. items \in Seq(Entry) /\ Len(items) = n
    BY <1>2, HeapIsSeq
  <2>2. /\ g \in Seq(Entry) /\ Len(g) = n + 1
        /\ \A i \in 1 .. n : g[i] = items[i]
        /\ g[n + 1] = e
    BY <1>2, <2>1, AppendProperties
  <2> HIDE DEF g
  <2> QED BY <1>2, <2>2 DEF HeapsOf
<1>4. \A i \in 1 .. n : items[i].task # t
  BY <1>1 DEF HeapInv, Located
<1>5. Distinct(items, n)
  BY <1>2, LocatedDistinct DEF HeapInv
<1> HIDE DEF g, e, u, n
<1>6. Distinct(g, n + 1)
  BY <1>2, <1>3, <1>4, <1>5 DEF Distinct, e
<1>7. Held(g, n + 1) = Held(items, n) \union {e}
  BY <1>2, <1>3 DEF Held
<1>8. UpFit(g, n + 1, n + 1) /\ Below(g, n + 1, n + 1)
  <2>1. \A c \in 2 .. n + 1 : Heap!Parent(c) \in 1 .. n /\ Heap!Parent(c) # n + 1
    BY <1>2, ParentFacts
  <2>2. \A c \in 2 .. n + 1 : c # n + 1 => c \in 2 .. n
    BY <1>2
  <2> QED BY <1>3, <2>1, <2>2 DEF UpFit, Below, HeapInv, Ordered, n
<1>9. /\ u \in Passing(n + 1) /\ UpFit(u.heap, n + 1, u.at) /\ Above(u.heap, u.at) /\ Below(u.heap, n + 1, u.at)
      /\ Held(u.heap, n + 1) = Held(g, n + 1) /\ Distinct(u.heap, n + 1)
  BY <1>2, <1>3, <1>6, <1>8, UpResult DEF u
<1>10. items' \in HeapsOf(n + 1) /\ Len(items') = n + 1
  BY <1>1, <1>2, <1>9, HeapIsSeq DEF Passing
<1>11. Ordered(items', n + 1)
  BY <1>1, <1>9 DEF UpFit, Above, Below, Ordered
<1>12. Held(items', n + 1) = content'
  BY <1>1, <1>7, <1>9 DEF HeapInv, n
<1>13. \A s \in Entries : positions[s] # 0 => \E i \in 1 .. n + 1 : items'[i].task = s
  <2> SUFFICES ASSUME NEW s \in Entries, positions[s] # 0 PROVE \E i \in 1 .. n + 1 : items'[i].task = s
    OBVIOUS
  <2>1. positions[s] \in 1 .. n /\ items[positions[s]].task = s
    BY DEF HeapInv, Located, n
  <2>2. items[positions[s]] \in content'
    BY <1>1, <2>1 DEF HeapInv, Held, n
  <2> QED BY <1>12, <2>1, <2>2 DEF Held
<1>14. Located(positions', items', n + 1)
  <2>1. Distinct(items', n + 1) /\ positions' = Heap!PositionsOf(positions, items')
    BY <1>1, <1>9
  <2>2. positions \in [Entries -> Nat]
    BY DEF HeapInv, Located
  <2> QED BY <1>2, <1>10, <1>13, <2>1, <2>2, PositionsLocated, Zenon
<1>15. e \notin content /\ IsFiniteSet(content) /\ Cardinality(content) = n
  BY <1>4 DEF HeapInv, Held, e, n
<1>16. IsFiniteSet(content') /\ Cardinality(content') = n + 1
  BY <1>1, <1>15, FS_AddElement
<1>17. counter' \in Nat
  BY <1>1 DEF HeapInv
<1> QED BY <1>2, <1>10, <1>11, <1>12, <1>14, <1>16, <1>17 DEF HeapInv

(* promote makes a key the least but for other promoted ones, so the entry *)
(* can only rise.                                                          *)
LEMMA PromoteStep ==
  ASSUME HeapInv, NEW t \in Entries, Heap!Promote(t)
  PROVE  HeapInv'
<1> DEFINE n == Len(items)
           i == positions[t]
           k == <<Heap!Lowest, items[i].key[2]>>
           e == [key |-> k, task |-> t]
           g == [items EXCEPT ![i].key = k]
           u == Heap!Up(g, i)
<1>1. /\ i # 0 /\ items' = u.heap /\ positions' = Heap!PositionsOf(positions, items')
      /\ content' = {d \in content : d.task # t} \union {e} /\ counter' = counter
  BY DEF Heap!Promote
<1>2. n \in Nat /\ items \in HeapsOf(n) /\ i \in 1 .. n /\ items[i].task = t
  BY <1>1 DEF HeapInv, Located
<1>3. items[i] = [key |-> items[i].key, task |-> t] /\ items[i].key \in Keys /\ k \in Keys
  BY <1>2 DEF HeapsOf, Entry, Keys
<1>4. g \in HeapsOf(n) /\ g[i] = e /\ \A j \in 1 .. n : j # i => g[j] = items[j]
  BY <1>2, <1>3 DEF HeapsOf, Entry
<1>5. Distinct(items, n)
  BY <1>2, LocatedDistinct DEF HeapInv
<1>6. NotBefore(items[i].key, k)
  BY <1>3 DEF NotBefore, Heap!Less, Keys, Heap!Lowest
<1> HIDE DEF g, e, u, n, k, i
<1>7. Distinct(g, n)
  BY <1>2, <1>4, <1>5 DEF Distinct, e
<1>8. Held(g, n) = content'
  BY <1>1, <1>2, <1>4, <1>5 DEF Held, Distinct, HeapInv, n
<1>9. \A c \in 2 .. n : Heap!Parent(c) \in 1 .. n /\ Heap!Parent(c) < c
  BY <1>2, ParentFacts
<1>10. \A c \in 2 .. n : NotBefore(items[c].key, items[Heap!Parent(c)].key)
  BY DEF HeapInv, Ordered, n
<1>11. \A c \in 1 .. n : items[c].key \in Keys
  BY <1>2 DEF HeapsOf, Entry
<1>12. UpFit(g, n, i)
  <2>1. ASSUME NEW c \in 2 .. n, c # i, Heap!Parent(c) # i PROVE NotBefore(g[c].key, g[Heap!Parent(c)].key)
    BY <1>4, <1>9, <1>10, <2>1
  <2>2. ASSUME NEW c \in 2 .. n, Heap!Parent(c) = i, i # 1 PROVE NotBefore(g[c].key, g[Heap!Parent(i)].key)
    <3>1. i \in 2 .. n /\ Heap!Parent(i) \in 1 .. n /\ Heap!Parent(i) # i /\ c # i
      BY <1>2, <1>9, <2>2
    <3>2. NotBefore(items[c].key, items[i].key) /\ NotBefore(items[i].key, items[Heap!Parent(i)].key)
      BY <1>10, <2>2, <3>1
    <3>3. NotBefore(items[c].key, items[Heap!Parent(i)].key)
      BY <1>2, <1>11, <3>1, <3>2, KeyOrder
    <3> QED BY <1>4, <3>1, <3>3
  <2> QED BY <2>1, <2>2 DEF UpFit
<1>13. Below(g, n, i)
  <2> SUFFICES ASSUME NEW c \in 2 .. n, Heap!Parent(c) = i PROVE NotBefore(g[c].key, g[i].key)
    BY DEF Below
  <2>1. c # i /\ g[c] = items[c] /\ g[i].key = k
    BY <1>4, <1>9 DEF e
  <2>2. NotBefore(items[c].key, items[i].key)
    BY <1>10
  <2> QED BY <1>2, <1>3, <1>6, <1>11, <2>1, <2>2, KeyOrder
<1>14. /\ u \in Passing(n) /\ UpFit(u.heap, n, u.at) /\ Above(u.heap, u.at) /\ Below(u.heap, n, u.at)
       /\ Held(u.heap, n) = Held(g, n) /\ Distinct(u.heap, n)
  BY <1>2, <1>4, <1>7, <1>12, <1>13, UpResult DEF u
<1>15. items' \in HeapsOf(n) /\ Len(items') = n
  BY <1>1, <1>2, <1>14, HeapIsSeq DEF Passing
<1>16. Ordered(items', n)
  BY <1>1, <1>14 DEF UpFit, Above, Below, Ordered
<1>17. Held(items', n) = content'
  BY <1>1, <1>8, <1>14
<1>18. \A s \in Entries : positions[s] # 0 => \E j \in 1 .. n : items'[j].task = s
  <2> SUFFICES ASSUME NEW s \in Entries, positions[s] # 0 PROVE \E j \in 1 .. n : items'[j].task = s
    OBVIOUS
  <2>1. positions[s] \in 1 .. n /\ items[positions[s]].task = s
    BY DEF HeapInv, Located, n
  <2>2. g[positions[s]].task = s /\ g[positions[s]] \in Held(g, n)
    BY <1>2, <1>4, <2>1 DEF e, Held
  <2>3. g[positions[s]] \in Held(items', n)
    BY <1>8, <1>17, <2>2
  <2> QED BY <2>2, <2>3 DEF Held
<1>19. Located(positions', items', n)
  BY <1>1, <1>2, <1>14, <1>15, <1>18, PositionsLocated DEF HeapInv, Located
<1>20. /\ content' = (content \ {items[i]}) \union {e} /\ items[i] \in content
       /\ IsFiniteSet(content) /\ Cardinality(content) = n
  BY <1>1, <1>2, <1>5 DEF HeapInv, Held, Distinct, n
<1>21. IsFiniteSet(content \ {items[i]}) /\ Cardinality(content \ {items[i]}) = n - 1
  BY <1>20, FS_RemoveElement
<1>22. e \notin content \ {items[i]}
  BY <1>2, <1>5 DEF HeapInv, Held, Distinct, e, n
<1>23. IsFiniteSet(content') /\ Cardinality(content') = n
  BY <1>2, <1>20, <1>21, <1>22, FS_AddElement
<1> QED BY <1>1, <1>2, <1>15, <1>16, <1>17, <1>19, <1>23 DEF HeapInv

(* The last entry takes the place of the removed one. It comes from another *)
(* branch and so may be before the entry above it: _up must run before      *)
(* _down. Where it rose, _down changes nothing.                             *)
LEMMA RemovedResult ==
  ASSUME NEW n \in Nat \ {0}, NEW h \in HeapsOf(n), NEW i \in 1 .. n, Ordered(h, n), Distinct(h, n),
         NEW g, g = Heap!Removed(h, i)
  PROVE  /\ g \in HeapsOf(n - 1) /\ Ordered(g, n - 1) /\ Distinct(g, n - 1)
         /\ Held(g, n - 1) = Held(h, n) \ {h[i]}
<1> DEFINE m == n - 1
           short == Heap!Front(h)
           r == [short EXCEPT ![i] = h[n]]
           u == Heap!Up(r, i)
<1>1. m \in Nat /\ h \in Seq(Entry) /\ Len(h) = n /\ Heap!Last(h) = h[n]
  BY HeapIsSeq DEF Heap!Last
<1>2. short \in HeapsOf(m) /\ Len(short) = m /\ \A j \in 1 .. m : short[j] = h[j]
  <2>1. short = SubSeq(h, 1, m)
    BY <1>1 DEF Heap!Front
  <2>2. \A j \in 1 .. m : h[j] \in Entry
    BY <1>1 DEF HeapsOf
  <2>3. /\ SubSeq(h, 1, m) \in Seq(Entry)
        /\ Len(SubSeq(h, 1, m)) = IF 1 <= m THEN m - 1 + 1 ELSE 0
        /\ \A j \in 1 .. m - 1 + 1 : SubSeq(h, 1, m)[j] = h[1 + j - 1]
    BY <1>1, <2>2, SubSeqProperties
  <2>4. short \in Seq(Entry) /\ Len(short) = m /\ \A j \in 1 .. m : short[j] = h[j]
    BY <1>1, <2>1, <2>3
  <2> HIDE DEF short
  <2> QED BY <1>1, <2>4 DEF HeapsOf
<1>3. \A c \in 2 .. n : Heap!Parent(c) \in 1 .. n /\ Heap!Parent(c) < c
  BY ParentFacts
<1>4. CASE i = n
  <2>1. g = short
    BY <1>1, <1>2, <1>4 DEF Heap!Removed
  <2>2. Ordered(g, m)
    BY <1>1, <1>2, <1>3, <2>1 DEF Ordered
  <2>3. Distinct(g, m)
    BY <1>1, <1>2, <2>1 DEF Distinct
  <2>4. Held(g, m) = Held(h, n) \ {h[i]}
    BY <1>1, <1>2, <1>4, <2>1 DEF Held, Distinct
  <2> QED BY <1>2, <2>1, <2>2, <2>3, <2>4
<1>5. CASE i < n
  <2>1. g = Heap!Down(u.heap, u.at) /\ i \in 1 .. m
    BY <1>1, <1>2, <1>5 DEF Heap!Removed
  <2>2. r \in HeapsOf(m) /\ r[i] = h[n] /\ \A j \in 1 .. m : j # i => r[j] = h[j]
    BY <1>1, <1>2, <2>1 DEF HeapsOf
  <2> HIDE DEF r, short, u, m
  <2>3. m = n - 1
    BY DEF m
  <2>4. Distinct(r, m)
    BY <1>1, <1>5, <2>2, <2>3 DEF Distinct
  <2>5. Held(r, m) = Held(h, n) \ {h[i]}
    BY <1>1, <1>5, <2>1, <2>2, <2>3 DEF Held, Distinct
  <2>6. UpFit(r, m, i)
    <3>1. ASSUME NEW c \in 2 .. m, c # i, Heap!Parent(c) # i PROVE NotBefore(r[c].key, r[Heap!Parent(c)].key)
      BY <1>1, <1>3, <2>2, <2>3, <3>1 DEF Ordered
    <3>2. ASSUME NEW c \in 2 .. m, Heap!Parent(c) = i, i # 1 PROVE NotBefore(r[c].key, r[Heap!Parent(i)].key)
      <4>1. /\ c \in 2 .. n /\ i \in 2 .. n /\ Heap!Parent(i) \in 1 .. m /\ Heap!Parent(i) # i /\ c # i
        BY <1>1, <1>3, <1>5, <2>3, <3>2
      <4>2. NotBefore(h[c].key, h[i].key) /\ NotBefore(h[i].key, h[Heap!Parent(i)].key)
        BY <3>2, <4>1 DEF Ordered
      <4>3. h[c].key \in Keys /\ h[i].key \in Keys /\ h[Heap!Parent(i)].key \in Keys
        BY <1>3, <4>1 DEF HeapsOf, Entry
      <4>4. NotBefore(h[c].key, h[Heap!Parent(i)].key)
        BY <4>2, <4>3, KeyOrder
      <4> QED BY <2>2, <4>1, <4>4
    <3> QED BY <3>1, <3>2 DEF UpFit
  <2>7. /\ u \in Passing(m) /\ UpFit(u.heap, m, u.at) /\ Above(u.heap, u.at)
        /\ Held(u.heap, m) = Held(r, m) /\ Distinct(u.heap, m)
    BY <1>1, <2>1, <2>2, <2>4, <2>6, UpResult DEF u
  <2>8. DownFit(u.heap, m, u.at) /\ u.heap \in HeapsOf(m) /\ u.at \in 1 .. m
    BY <2>7 DEF UpFit, Above, DownFit, Passing
  <2> QED BY <1>1, <2>1, <2>3, <2>5, <2>7, <2>8, DownResult
<1> QED BY <1>4, <1>5

(* remove takes exactly one entry out, from any place of the heap; pop is the *)
(* removal of the first.                                                      *)
LEMMA DiscardStep ==
  ASSUME HeapInv, NEW t \in Entries, Heap!Discard(t)
  PROVE  HeapInv'
<1> DEFINE n == Len(items)
           i == positions[t]
           old == [positions EXCEPT ![t] = 0]
<1>1. /\ i # 0 /\ items' = Heap!Removed(items, i) /\ positions' = Heap!PositionsOf(old, items')
      /\ content' = {d \in content : d.task # t} /\ counter' = counter
  BY DEF Heap!Discard
<1>2. n \in Nat /\ items \in HeapsOf(n) /\ i \in 1 .. n /\ items[i].task = t /\ n \in Nat \ {0} /\ n - 1 \in Nat
  BY <1>1 DEF HeapInv, Located
<1>3. Distinct(items, n) /\ Ordered(items, n)
  BY <1>2, LocatedDistinct DEF HeapInv
<1> HIDE DEF n, i
<1>4. /\ items' \in HeapsOf(n - 1) /\ Ordered(items', n - 1) /\ Distinct(items', n - 1)
      /\ Held(items', n - 1) = Held(items, n) \ {items[i]}
  BY <1>1, <1>2, <1>3, RemovedResult
<1>5. Len(items') = n - 1
  BY <1>2, <1>4, HeapIsSeq
<1>6. content' = content \ {items[i]} /\ items[i] \in content /\ Held(items', n - 1) = content'
  <2>1. Held(items, n) = content
    BY DEF HeapInv, n
  <2>2. \A d \in content : d.task = t => d = items[i]
    BY <1>2, <1>3, <2>1 DEF Held, Distinct
  <2>3. items[i] \in content
    BY <1>2, <2>1 DEF Held
  <2>4. content' = content \ {items[i]}
    BY <1>1, <1>2, <2>2
  <2> QED BY <1>4, <2>1, <2>3, <2>4
<1>7. IsFiniteSet(content') /\ Cardinality(content') = n - 1
  <2>1. IsFiniteSet(content) /\ Cardinality(content) = n
    BY DEF HeapInv, n
  <2> QED BY <1>6, <2>1, FS_RemoveElement
<1>8. old \in [Entries -> Nat]
  BY DEF HeapInv, Located
<1>9. \A s \in Entries : old[s] # 0 => \E j \in 1 .. n - 1 : items'[j].task = s
  <2> SUFFICES ASSUME NEW s \in Entries, old[s] # 0 PROVE \E j \in 1 .. n - 1 : items'[j].task = s
    OBVIOUS
  <2>1. s # t /\ positions[s] \in 1 .. n /\ items[positions[s]].task = s
    BY DEF HeapInv, Located, n
  <2>2. items[positions[s]] \in content'
    BY <1>1, <2>1 DEF HeapInv, Held, n
  <2> QED BY <1>6, <2>1, <2>2 DEF Held
<1> HIDE DEF old
<1>10. Located(positions', items', n - 1)
  BY <1>1, <1>2, <1>4, <1>8, <1>9, PositionsLocated
<1> QED BY <1>1, <1>2, <1>4, <1>5, <1>6, <1>7, <1>10 DEF HeapInv

(* For any number of tasks, any priorities and any sequence of push, pop,   *)
(* remove and promote: no entry of the heap is before its parent, positions *)
(* names the place of each task, and the heap holds exactly what was pushed *)
(* and neither popped nor removed.                                          *)
THEOREM HeapStaysSound == Heap!Spec => []HeapSound
<1>1. Heap!Init => HeapInv
  <2> SUFFICES ASSUME Heap!Init PROVE HeapInv
    OBVIOUS
  <2>1. items = <<>> /\ Len(items) = 0 /\ content = {} /\ counter = 0 /\ positions = [t \in Entries |-> 0]
    BY DEF Heap!Init, Heap!Empty
  <2>2. IsFiniteSet(content) /\ Cardinality(content) = 0
    BY <2>1, FS_EmptySet
  <2>3. items \in HeapsOf(0) /\ Ordered(items, 0) /\ Held(items, 0) = content
    BY <2>1 DEF HeapsOf, Ordered, Held
  <2>4. Located(positions, items, 0)
    BY <2>1 DEF Located
  <2> QED BY <2>1, <2>2, <2>3, <2>4 DEF HeapInv
<1>2. HeapInv /\ [Heap!Next]_(Heap!vars) => HeapInv'
  <2> SUFFICES ASSUME HeapInv, [Heap!Next]_(Heap!vars) PROVE HeapInv'
    OBVIOUS
  <2>1. ASSUME Heap!Pop PROVE \E t \in Entries : Heap!Discard(t)
    <3>1. items # <<>> /\ Heap!Discard(items[1].task)
      BY <2>1 DEF Heap!Pop
    <3>2. items[1].task \in Entries
      BY <3>1 DEF HeapInv, HeapsOf, Entry
    <3> QED BY <3>1, <3>2
  <2>2. CASE UNCHANGED Heap!vars
    BY <2>2 DEF Heap!vars, HeapInv
  <2> QED BY <2>1, <2>2, PushStep, PromoteStep, DiscardStep DEF Heap!Next
<1>3. HeapInv => HeapSound
  <2> SUFFICES ASSUME HeapInv PROVE HeapSound
    OBVIOUS
  <2>1. Heap!HeapOrdered
    BY DEF HeapInv, Ordered, NotBefore, Heap!HeapOrdered, Heap!Key
  <2>2. Heap!PositionsExact
    BY DEF HeapInv, Located, Heap!PositionsExact
  <2>3. Heap!ToSet(items) = Held(items, Len(items))
    BY HeapIsSeq DEF HeapInv, HeapsOf, Heap!ToSet, Held
  <2>4. \A S : Heap!Cardinality(S) = Cardinality(S)
    BY Zenon DEF Heap!Cardinality, Cardinality, Heap!IsFiniteSet, IsFiniteSet
  <2>5. Heap!ContentKept
    BY <2>3, <2>4 DEF HeapInv, Heap!ContentKept
  <2> QED BY <2>1, <2>2, <2>5 DEF HeapSound
<1> QED BY <1>1, <1>2, <1>3, PTL DEF Heap!Spec

(***************************************************************************)
(* The bytes of integers.                                                  *)
(***************************************************************************)
(* To multiply by a number keeps the order.                                *)
LEMMA TimesMonotone ==
  ASSUME NEW a \in Nat, NEW x \in Int, NEW y \in Int, x <= y
  PROVE  a * x <= a * y
OBVIOUS

(* Quotient and remainder are known by what they are. *)
LEMMA Division ==
  ASSUME NEW a \in Nat \ {0}, NEW q \in Int, NEW r \in 0 .. a - 1
  PROVE  (a * q + r) \div a = q /\ (a * q + r) % a = r
<1> DEFINE n == a * q + r
           p == n \div a
           s == n % a
<1>1. n \in Int /\ p \in Int /\ s \in 0 .. a - 1 /\ n = a * p + s
  OBVIOUS
<1> HIDE DEF n, p, s
<1>2. CASE p <= q - 1
  <2>1. a * p <= a * (q - 1) /\ a * (q - 1) = a * q - a
    BY <1>1, <1>2, TimesMonotone
  <2> QED BY <1>1, <2>1 DEF n
<1>3. CASE q + 1 <= p
  <2>1. a * (q + 1) <= a * p /\ a * (q + 1) = a * q + a
    BY <1>1, <1>3, TimesMonotone
  <2> QED BY <1>1, <2>1 DEF n
<1>4. CASE p = q
  BY <1>1, <1>4 DEF n, p, s
<1> QED BY <1>1, <1>2, <1>3, <1>4

(* What quotient and remainder are, also of the numbers next to 0 .. a - 1. *)
LEMMA DivisionFacts ==
  ASSUME NEW a \in Nat \ {0}, NEW n \in Int
  PROVE  /\ n \div a \in Int /\ n % a \in 0 .. a - 1 /\ n = a * (n \div a) + (n % a)
         /\ n \in Nat => n \div a \in Nat
         /\ 0 <= n /\ n < a => n \div a = 0 /\ n % a = n
         /\ -a <= n /\ n < 0 => n % a = n + a
         /\ a <= n /\ n < 2 * a => n % a = n - a
<1>1. n \div a \in Int /\ n % a \in 0 .. a - 1 /\ n = a * (n \div a) + (n % a)
  <2>1. n \div a \in Int
    OBVIOUS
  <2>2. n % a \in 0 .. a - 1
    OBVIOUS
  <2>3. n = a * (n \div a) + (n % a)
    OBVIOUS
  <2> QED BY <2>1, <2>2, <2>3
<1>2. ASSUME n \in Nat PROVE n \div a \in Nat
  <2>1. CASE n \div a <= -1
    <3>1. a * (n \div a) <= a * (-1)
      BY <1>1, <2>1, TimesMonotone
    <3> QED BY <1>1, <1>2, <3>1
  <2> QED BY <1>1, <2>1
<1>3. ASSUME 0 <= n, n < a PROVE n \div a = 0 /\ n % a = n
  <2>1. a * 0 + n = n /\ n \in 0 .. a - 1
    BY <1>3
  <2> QED BY <2>1, Division
<1>4. ASSUME -a <= n, n < 0 PROVE n % a = n + a
  <2>1. a * (-1) + (n + a) = n /\ n + a \in 0 .. a - 1
    BY <1>4
  <2> QED BY <2>1, Division
<1>5. ASSUME a <= n, n < 2 * a PROVE n % a = n - a
  <2>1. a * 1 + (n - a) = n /\ n - a \in 0 .. a - 1
    BY <1>5
  <2> QED BY <2>1, Division
<1> QED BY <1>1, <1>2, <1>3, <1>4, <1>5

(* To divide by a and then by b is to divide by their product. *)
LEMMA DivisionTwice ==
  ASSUME NEW a \in Nat \ {0}, NEW b \in Nat \ {0}, NEW n \in Nat
  PROVE  n \div (b * a) = (n \div a) \div b
<1> DEFINE q == n \div a
           r == n % a
           s == q \div b
           t == q % b
<1>1. q \in Nat /\ r \in 0 .. a - 1 /\ n = a * q + r
  <2>1. n \in Int
    OBVIOUS
  <2> QED BY <2>1, DivisionFacts, Zenon
<1> HIDE DEF q, r
<1>2. s \in Nat /\ t \in 0 .. b - 1 /\ q = b * s + t
  BY <1>1, DivisionFacts
<1> HIDE DEF s, t
<1>3. a * t + r \in 0 .. b * a - 1
  <2>1. a * t <= a * (b - 1) /\ a * (b - 1) = b * a - a /\ 0 <= a * t
    BY <1>2, TimesMonotone
  <2> QED BY <1>1, <1>2, <2>1
<1>4. b * a \in Nat \ {0}
  <2>1. a * 1 <= a * b /\ a * b = b * a
    BY TimesMonotone
  <2> QED BY <2>1
<1>5. n = (b * a) * s + (a * t + r)
  <2>1. a * (b * s + t) = (b * a) * s + a * t
    BY <1>2
  <2> QED BY <1>1, <1>2, <2>1
<1> DEFINE c == b * a
           d == a * t + r
<1> HIDE DEF c, d
<1>6. (c * s + d) \div c = s
  BY <1>2, <1>3, <1>4, Division DEF c, d
<1> QED BY <1>5, <1>6 DEF c, d, q, s

(* To divide keeps the order.                                              *)
LEMMA DivisionMonotone ==
  ASSUME NEW a \in Nat \ {0}, NEW n \in Nat, NEW m \in Nat, n <= m
  PROVE  n \div a <= m \div a
<1>1. /\ n \div a \in Nat /\ n % a \in 0 .. a - 1 /\ n = a * (n \div a) + (n % a)
      /\ m \div a \in Nat /\ m % a \in 0 .. a - 1 /\ m = a * (m \div a) + (m % a)
  <2>1. n \in Int /\ m \in Int
    OBVIOUS
  <2> QED BY <2>1, DivisionFacts, Zenon
<1>2. CASE (m \div a) + 1 <= n \div a
  <2>1. a * ((m \div a) + 1) <= a * (n \div a) /\ a * ((m \div a) + 1) = a * (m \div a) + a
    BY <1>1, <1>2, TimesMonotone
  <2> QED BY <1>1, <2>1
<1> QED BY <1>1, <1>2

(* A byte has a sign bit.                                                  *)
LEMMA ByteFacts == Byte \in Nat \ {0} /\ Byte % 2 = 0 /\ Wide \in Nat \ {0}
BY ByteAssumption

(* Power, for every number: what n bytes hold.                             *)
LEMMA Powers ==
  /\ Codec!Power(0) = 1
  /\ \A n \in Nat : Codec!Power(n) \in Nat \ {0} /\ Codec!Power(n + 1) = Byte * Codec!Power(n)
<1> DEFINE X == Nat \ {0}
           F == [x \in X |-> Byte * x]
<1>1. \A x \in X : Byte * x \in X
  <2> SUFFICES ASSUME NEW x \in X PROVE Byte * x \in X
    OBVIOUS
  <2>1. Byte * 1 <= Byte * x
    BY ByteFacts, TimesMonotone
  <2> QED BY ByteFacts, <2>1
<1>2. PICK P : Iterates(P, X, F, 1)
  <2>1. F \in [X -> X] /\ 1 \in X
    BY <1>1
  <2> HIDE DEF F, X
  <2> QED BY <2>1, Iterated
<1>3. P \in [Nat -> X] /\ P[0] = 1 /\ \A n \in Nat : P[n + 1] = Byte * P[n]
  BY <1>2 DEF Iterates
<1>4. ASSUME NEW n \in Nat PROVE Codec!Power(n) = P[n]
  <2> DEFINE g == [k \in 0 .. n |-> P[k]]
             h == CHOOSE f : f = [k \in 0 .. n |-> IF k = 0 THEN 1 ELSE Byte * f[k - 1]]
  <2>1. \A k \in 0 .. n : g[k] = IF k = 0 THEN 1 ELSE Byte * g[k - 1]
    <3> SUFFICES ASSUME NEW k \in 0 .. n, k # 0 PROVE P[k] = Byte * P[k - 1]
      BY <1>3
    <3>1. k - 1 \in Nat /\ (k - 1) + 1 = k
      OBVIOUS
    <3> QED BY <1>3, <3>1
  <2>2. g = [k \in 0 .. n |-> IF k = 0 THEN 1 ELSE Byte * g[k - 1]]
    BY <2>1
  <2> HIDE DEF g
  <2>3. h = [k \in 0 .. n |-> IF k = 0 THEN 1 ELSE Byte * h[k - 1]]
    BY <2>2
  <2>4. Codec!Power(n) = h[n]
    BY DEF Codec!Power
  <2> HIDE DEF h
  <2> DEFINE S == {k \in Nat : k <= n => h[k] = P[k]}
  <2>5. 0 \in S
    BY <1>3, <2>3
  <2>6. ASSUME NEW k \in Nat, k \in S PROVE k + 1 \in S
    <3> SUFFICES ASSUME k + 1 <= n PROVE h[k + 1] = P[k + 1]
      OBVIOUS
    <3>1. k + 1 \in 0 .. n /\ k + 1 # 0 /\ (k + 1) - 1 = k /\ k <= n
      OBVIOUS
    <3>2. h[k + 1] = Byte * h[k]
      BY <2>3, <3>1
    <3> QED BY <1>3, <2>6, <3>1, <3>2
  <2>7. Nat \subseteq S
    <3> HIDE DEF S
    <3> QED BY <2>5, <2>6, Counting
  <2> QED BY <2>4, <2>7
<1> QED BY <1>3, <1>4

(* BigEndian makes bytes, as many as it is asked for.                      *)
LEMMA BytesOf ==
  ASSUME NEW n \in Nat, NEW w \in Nat
  PROVE  /\ Codec!BigEndian(n, w) \in Seq(0 .. Byte - 1) /\ Len(Codec!BigEndian(n, w)) = w
         /\ \A i \in 1 .. w : Codec!BigEndian(n, w)[i] = (n \div Codec!Power(w - i)) % Byte
<1>1. ASSUME NEW i \in 1 .. w PROVE (n \div Codec!Power(w - i)) % Byte \in 0 .. Byte - 1
  <2>1. w - i \in Nat /\ Codec!Power(w - i) \in Nat \ {0}
    BY Powers
  <2>2. n \div Codec!Power(w - i) \in Int
    BY <2>1
  <2> QED BY <2>2, ByteFacts, DivisionFacts
<1> DEFINE s == [i \in 1 .. w |-> (n \div Codec!Power(w - i)) % Byte]
<1>2. Codec!BigEndian(n, w) = s
  BY DEF Codec!BigEndian
<1>3. s \in [1 .. w -> 0 .. Byte - 1]
  BY <1>1
<1> HIDE DEF s
<1>4. s \in Seq(0 .. Byte - 1)
  <2>1. s \in UNION {[1 .. k -> 0 .. Byte - 1] : k \in Nat}
    BY <1>3
  <2>2. \A S : Seq(S) = UNION {[1 .. k -> S] : k \in Nat}
    BY SeqDef
  <2> QED BY <2>1, <2>2, Zenon
<1>5. Len(s) = w
  <2>1. DOMAIN s = 1 .. w
    BY <1>3
  <2>2. Len(s) \in Nat /\ DOMAIN s = 1 .. Len(s)
    BY <1>4, LenProperties
  <2> QED BY <2>1, <2>2
<1> QED BY <1>2, <1>4, <1>5 DEF s

(* What a number is above its last k bytes: without its last byte, that is *)
(* what it is above one more.                                              *)
LEMMA Upper ==
  ASSUME NEW n \in Nat
  PROVE  /\ n \div Codec!Power(0) = n
         /\ \A k \in Nat : /\ n \div Codec!Power(k) \in Nat
                           /\ n < Codec!Power(k) => n \div Codec!Power(k) = 0
                           /\ n \div Codec!Power(k) =
                                Byte * (n \div Codec!Power(k + 1)) + ((n \div Codec!Power(k)) % Byte)
<1>1. n \div Codec!Power(0) = n
  <2>1. n \div 1 = n
    OBVIOUS
  <2> QED BY <2>1, Powers
<1>2. ASSUME NEW k \in Nat
      PROVE  /\ n \div Codec!Power(k) \in Nat
             /\ n < Codec!Power(k) => n \div Codec!Power(k) = 0
             /\ n \div Codec!Power(k) =
                  Byte * (n \div Codec!Power(k + 1)) + ((n \div Codec!Power(k)) % Byte)
  <2>1. Codec!Power(k) \in Nat \ {0} /\ Codec!Power(k + 1) = Byte * Codec!Power(k)
    BY Powers
  <2>2. n \div Codec!Power(k) \in Nat /\ (n < Codec!Power(k) => n \div Codec!Power(k) = 0)
    <3>1. n \in Int /\ 0 <= n
      OBVIOUS
    <3> QED BY <2>1, <3>1, DivisionFacts, Zenon
  <2>3. n \div Codec!Power(k + 1) = (n \div Codec!Power(k)) \div Byte
    BY <2>1, ByteFacts, DivisionTwice
  <2>4. n \div Codec!Power(k) \in Int
    BY <2>2
  <2>5. n \div Codec!Power(k) = Byte * ((n \div Codec!Power(k)) \div Byte) + ((n \div Codec!Power(k)) % Byte)
    BY <2>4, ByteFacts, DivisionFacts, Zenon
  <2> QED BY <2>2, <2>3, <2>5
<1> QED BY <1>1, <1>2

(* Of two numbers of so many bytes the bytes of the smaller come first: at *)
(* the first byte where they differ, what is above it is the same.         *)
LEMMA BytesSort ==
  ASSUME NEW w \in Nat, NEW m \in Nat, NEW n \in 0 .. m - 1, m < Codec!Power(w)
  PROVE  Codec!Before(Codec!BigEndian(n, w), Codec!BigEndian(m, w))
<1> DEFINE N(i) == n \div Codec!Power(w - i)
           M(i) == m \div Codec!Power(w - i)
           T == {i \in 0 .. w : N(i) # M(i)}
           a == Codec!BigEndian(n, w)
           b == Codec!BigEndian(m, w)
<1>1. n \in Nat /\ n < m /\ n < Codec!Power(w)
  BY Powers
<1>2. 0 \notin T
  <2>1. w - 0 = w
    OBVIOUS
  <2> QED BY <1>1, <2>1, Upper
<1>3. w \in T
  <2>1. w - w = 0
    OBVIOUS
  <2> QED BY <1>1, <2>1, Upper
<1>4. PICK i \in T : \A j \in T : ~(j < i)
  <2>1. T \subseteq Nat /\ T # {}
    BY <1>3
  <2> HIDE DEF T
  <2> QED BY <2>1, FirstOf
<1>5. i \in 1 .. w /\ i - 1 \in 0 .. w
  BY <1>2, <1>4
<1>6. \A j \in 0 .. i - 1 : N(j) = M(j)
  BY <1>4, <1>5
<1>7. N(i) < M(i)
  <2>1. w - i \in Nat /\ Codec!Power(w - i) \in Nat \ {0}
    BY <1>5, Powers
  <2>2. N(i) <= M(i)
    <3>1. n <= m
      BY <1>1
    <3> QED BY <1>1, <2>1, <3>1, DivisionMonotone, Zenon
  <2>4. N(i) \in Nat /\ M(i) \in Nat
    BY <1>1, <2>1, Upper, Zenon
  <2>3. N(i) # M(i)
    BY <1>4
  <2> HIDE DEF N, M
  <2> QED BY <2>2, <2>3, <2>4
<1>8. ASSUME NEW j \in 1 .. w
      PROVE  /\ N(j) = Byte * N(j - 1) + (N(j) % Byte) /\ M(j) = Byte * M(j - 1) + (M(j) % Byte)
             /\ N(j) \in Nat /\ M(j) \in Nat /\ N(j - 1) \in Nat /\ M(j - 1) \in Nat
             /\ N(j) % Byte \in Nat /\ M(j) % Byte \in Nat
  <2>1. w - j \in Nat /\ (w - j) + 1 = w - (j - 1) /\ w - (j - 1) \in Nat
    OBVIOUS
  <2>2. N(j) \in Nat /\ M(j) \in Nat /\ N(j - 1) \in Nat /\ M(j - 1) \in Nat
    BY <1>1, <2>1, Upper
  <2>3. N(j) = Byte * N(j - 1) + (N(j) % Byte) /\ M(j) = Byte * M(j - 1) + (M(j) % Byte)
    <3>1. ASSUME NEW x \in Nat
          PROVE  x \div Codec!Power(w - j) =
                   Byte * (x \div Codec!Power((w - j) + 1)) + ((x \div Codec!Power(w - j)) % Byte)
      BY <2>1, Upper, Zenon
    <3> QED BY <1>1, <2>1, <3>1, Zenon
  <2> HIDE DEF N, M
  <2>4. N(j) % Byte \in Nat /\ M(j) % Byte \in Nat
    BY <2>2, ByteFacts, DivisionFacts
  <2> QED BY <2>2, <2>3, <2>4
<1>9. /\ a \in Seq(0 .. Byte - 1) /\ Len(a) = w /\ b \in Seq(0 .. Byte - 1) /\ Len(b) = w
      /\ \A j \in 1 .. w : a[j] = N(j) % Byte /\ b[j] = M(j) % Byte
  BY <1>1, BytesOf
<1> HIDE DEF a, b, N, M, T
<1>10. a[i] < b[i]
  <2>1. N(i - 1) = M(i - 1)
    BY <1>5, <1>6
  <2>2. /\ N(i) = Byte * N(i - 1) + (N(i) % Byte) /\ M(i) = Byte * N(i - 1) + (M(i) % Byte)
        /\ N(i) % Byte \in Nat /\ M(i) % Byte \in Nat /\ Byte * N(i - 1) \in Int
    BY <1>5, <1>8, <2>1, ByteFacts
  <2>3. N(i) % Byte < M(i) % Byte
    BY <1>7, <2>2
  <2> QED BY <1>5, <1>9, <2>3
<1>11. \A j \in 1 .. i - 1 : a[j] = b[j]
  BY <1>5, <1>6, <1>9
<1>12. SubSeq(a, 1, i - 1) = SubSeq(b, 1, i - 1)
  BY <1>5, <1>9, <1>11
<1> QED BY <1>5, <1>9, <1>10, <1>12 DEF Codec!Before, Codec!First, a, b

(* The bytes of a number are read as that number. *)
LEMMA BytesRead ==
  ASSUME NEW w \in Nat, NEW n \in Nat, n < Codec!Power(w)
  PROVE  Codec!Number(Codec!BigEndian(n, w)) = n
<1> DEFINE a == Codec!BigEndian(n, w)
           N(i) == n \div Codec!Power(w - i)
           g == [i \in 0 .. w |-> N(i)]
           h == CHOOSE f : f = [i \in 0 .. w |-> IF i = 0 THEN 0 ELSE f[i - 1] * Byte + a[i]]
<1>1. Len(a) = w /\ \A i \in 1 .. w : a[i] = N(i) % Byte
  BY BytesOf
<1>2. Codec!Number(a) = h[w]
  BY <1>1 DEF Codec!Number
<1>3. N(0) = 0 /\ N(w) = n
  <2>1. w - 0 = w /\ w - w = 0
    OBVIOUS
  <2> QED BY <2>1, Upper
<1>4. \A i \in 1 .. w : N(i) = N(i - 1) * Byte + a[i]
  <2> SUFFICES ASSUME NEW i \in 1 .. w PROVE N(i) = N(i - 1) * Byte + a[i]
    OBVIOUS
  <2>1. w - i \in Nat /\ (w - i) + 1 = w - (i - 1) /\ w - (i - 1) \in Nat
    OBVIOUS
  <2>2. N(i) = Byte * N(i - 1) + (N(i) % Byte) /\ N(i - 1) \in Nat
    <3>1. n \div Codec!Power(w - i) =
            Byte * (n \div Codec!Power((w - i) + 1)) + ((n \div Codec!Power(w - i)) % Byte)
      BY <2>1, Upper, Zenon
    <3>2. n \div Codec!Power(w - (i - 1)) \in Nat
      BY <2>1, Upper, Zenon
    <3> QED BY <2>1, <3>1, <3>2, Zenon
  <2>3. a[i] = N(i) % Byte
    BY <1>1
  <2> HIDE DEF N, a
  <2>4. Byte * N(i - 1) = N(i - 1) * Byte
    BY <2>2, ByteFacts
  <2> QED BY <2>2, <2>3, <2>4
<1> HIDE DEF N, a
<1>5. g = [i \in 0 .. w |-> IF i = 0 THEN 0 ELSE g[i - 1] * Byte + a[i]]
  BY <1>3, <1>4
<1> HIDE DEF g
<1>6. h = [i \in 0 .. w |-> IF i = 0 THEN 0 ELSE h[i - 1] * Byte + a[i]]
  BY <1>5
<1> HIDE DEF h
<1> DEFINE S == {i \in Nat : i <= w => h[i] = N(i)}
<1>7. 0 \in S
  BY <1>3, <1>6
<1>8. ASSUME NEW i \in Nat, i \in S PROVE i + 1 \in S
  <2> SUFFICES ASSUME i + 1 <= w PROVE h[i + 1] = N(i + 1)
    OBVIOUS
  <2>1. i + 1 \in 1 .. w /\ (i + 1) - 1 = i /\ i + 1 # 0
    OBVIOUS
  <2>2. h[i + 1] = h[i] * Byte + a[i + 1]
    BY <1>6, <2>1
  <2>3. N(i + 1) = N(i) * Byte + a[i + 1]
    BY <1>4, <2>1
  <2> QED BY <1>8, <2>1, <2>2, <2>3
<1>9. Nat \subseteq S
  <2> HIDE DEF S
  <2> QED BY <1>7, <1>8, Counting
<1> QED BY <1>2, <1>3, <1>9 DEF a

(* Half of the numbers of a type are negative if it is signed. *)
LEMMA TypeRange ==
  ASSUME NEW t
  PROVE  /\ Codec!Width(t) \in Nat \ {0} /\ Codec!Modulus(t) \in Nat \ {0} /\ Codec!Half(t) \in Nat \ {0}
         /\ Codec!Modulus(t) = 2 * Codec!Half(t)
         /\ Codec!Lowest(t) = IF Codec!Signed(t) THEN -Codec!Half(t) ELSE 0
<1> DEFINE w == Codec!Width(t)
           h == Byte \div 2
           p == Codec!Power(w - 1)
           q == h * p
<1>1. w \in Nat \ {0}
  BY ByteFacts DEF Codec!Width
<1>2. w - 1 \in Nat /\ (w - 1) + 1 = w
  BY <1>1
<1>3. p \in Nat \ {0} /\ Codec!Modulus(t) = Byte * p
  BY <1>2, Powers DEF Codec!Modulus
<1>4. h \in Nat \ {0} /\ Byte = 2 * h
  BY ByteFacts
<1> HIDE DEF w, h, p
<1>5. q \in Nat \ {0}
  <2>1. h * 1 <= h * p
    BY <1>3, <1>4, TimesMonotone
  <2> QED BY <1>3, <1>4, <2>1
<1>6. Codec!Modulus(t) = 2 * q
  BY <1>3, <1>4
<1> HIDE DEF q
<1>7. Codec!Half(t) = q
  BY <1>5, <1>6 DEF Codec!Half
<1> QED BY <1>1, <1>5, <1>6, <1>7 DEF Codec!Lowest, w

(* The number whose bytes are written. *)
Raw(t, v) == Codec!Flip(t, v % Codec!Modulus(t))

(* It is in the range of the bytes, in the order of the numbers where the  *)
(* sign bit is changed or there is none, and it tells what the number was. *)
LEMMA RawFacts ==
  ASSUME NEW t, NEW v \in Int
  PROVE  /\ Raw(t, v) \in 0 .. Codec!Modulus(t) - 1
         /\ Codec!Fits(t, v) /\ t \notin {"int8", "rune"} => Raw(t, v) = v - Codec!Lowest(t)
         /\ Codec!Fits(t, v) =>
              LET raw == Codec!Flip(t, Raw(t, v))
              IN  v = IF Codec!Signed(t) /\ raw >= Codec!Half(t) THEN raw - Codec!Modulus(t) ELSE raw
<1> DEFINE m == Codec!Modulus(t)
           h == Codec!Half(t)
<1>1. m \in Nat \ {0} /\ h \in Nat \ {0} /\ m = 2 * h
  BY TypeRange
<1>2. Codec!Fits(t, v) <=> IF Codec!Signed(t) THEN -h <= v /\ v < h ELSE 0 <= v /\ v < m
  BY <1>1, TypeRange DEF Codec!Fits
<1>3. \A x \in Int : /\ x % m \in 0 .. m - 1
                     /\ 0 <= x /\ x < m => x % m = x
                     /\ -m <= x /\ x < 0 => x % m = x + m
                     /\ m <= x /\ x < 2 * m => x % m = x - m
  BY <1>1, DivisionFacts, Zenon
<1>4. \A x : Codec!Flip(t, x) = IF t = "int16" THEN (x + h) % m ELSE x
  BY DEF Codec!Flip, Codec!XorMask
<1>5. Codec!Lowest(t) = IF Codec!Signed(t) THEN -h ELSE 0
  BY TypeRange
<1>6. /\ t = "int16" => Codec!Signed(t)
      /\ Codec!Signed(t) /\ t \notin {"int8", "rune"} => t = "int16"
  BY DEF Codec!Signed
<1> HIDE DEF m, h
<1>7. v % m \in 0 .. m - 1 /\ ((v % m) + h) % m \in 0 .. m - 1
  <2>1. v % m \in 0 .. m - 1
    BY <1>3, Zenon
  <2>2. (v % m) + h \in Int
    BY <1>1, <2>1
  <2> QED BY <1>3, <2>1, <2>2, Zenon
<1>8. Raw(t, v) = IF t = "int16" THEN ((v % m) + h) % m ELSE v % m
  BY <1>4 DEF Raw, m
<1>9. Raw(t, v) \in 0 .. m - 1
  BY <1>7, <1>8
<1>10. ASSUME Codec!Fits(t, v) PROVE v % m = IF v < 0 THEN v + m ELSE v
  BY <1>1, <1>2, <1>3, <1>10
<1>11. ASSUME Codec!Fits(t, v), t = "int16" PROVE Raw(t, v) = v + h
  <2>1. -h <= v /\ v < h
    BY <1>2, <1>6, <1>11
  <2>2. (v % m) + h = IF v < 0 THEN v + h + m ELSE v + h
    BY <1>1, <1>10, <1>11
  <2>3. (v + h + m) % m = v + h /\ (v >= 0 => (v + h) % m = v + h)
    <3>1. /\ v + h \in Int /\ 0 <= v + h /\ v + h < m
          /\ v + h + m \in Int /\ m <= v + h + m /\ v + h + m < 2 * m /\ (v + h + m) - m = v + h
      BY <1>1, <2>1
    <3> QED BY <1>3, <3>1, Zenon
  <2> QED BY <1>8, <1>11, <2>1, <2>2, <2>3
<1>12. ASSUME Codec!Fits(t, v), t \notin {"int8", "rune"} PROVE Raw(t, v) = v - Codec!Lowest(t)
  BY <1>1, <1>2, <1>5, <1>6, <1>8, <1>10, <1>11, <1>12
<1>13. ASSUME Codec!Fits(t, v)
       PROVE  v = IF Codec!Signed(t) /\ Codec!Flip(t, Raw(t, v)) >= h THEN Codec!Flip(t, Raw(t, v)) - m
                                                                      ELSE Codec!Flip(t, Raw(t, v))
  <2>1. CASE t = "int16"
    <3>1. Codec!Flip(t, Raw(t, v)) = (v + m) % m
      <4>1. v + h + h = v + m
        BY <1>1
      <4> QED BY <1>4, <1>11, <1>13, <2>1, <4>1
    <3>2. (v + m) % m = IF v < 0 THEN v + m ELSE v
      <4>1. /\ v + m \in Int /\ 0 <= v + m /\ v + m < 2 * m /\ (v + m) - m = v
            /\ (v < 0 => v + m < m) /\ (~(v < 0) => m <= v + m)
        BY <1>1, <1>2, <1>6, <1>13, <2>1
      <4> QED BY <1>3, <4>1, Zenon
    <3> QED BY <1>1, <1>2, <1>6, <1>13, <2>1, <3>1, <3>2
  <2>2. CASE t # "int16"
    BY <1>1, <1>2, <1>4, <1>8, <1>10, <1>13, <2>2
  <2> QED BY <2>1, <2>2
<1> QED BY <1>9, <1>12, <1>13 DEF m, h

(* What _pack writes: bytes of the width of the type, which _unpack reads  *)
(* as the number, and which sort as the numbers of the type do.            *)
LEMMA PackFacts ==
  ASSUME NEW t, NEW v \in Int
  PROVE  /\ Codec!Pack(t, v) \in Seq(0 .. Byte - 1) /\ Len(Codec!Pack(t, v)) = Codec!Width(t)
         /\ Codec!Fits(t, v) => Codec!Unpack(t, Codec!Pack(t, v)) = v
         /\ t \notin {"int8", "rune"} => \A u \in Int : v < u /\ Codec!Fits(t, v) /\ Codec!Fits(t, u) =>
              Codec!Before(Codec!Pack(t, v), Codec!Pack(t, u))
<1> DEFINE w == Codec!Width(t)
<1>1. w \in Nat /\ Codec!Modulus(t) = Codec!Power(w)
  BY TypeRange DEF Codec!Modulus
<1>2. ASSUME NEW u \in Int
      PROVE  /\ Codec!Pack(t, u) = Codec!BigEndian(Raw(t, u), w)
             /\ Raw(t, u) \in Nat /\ Raw(t, u) < Codec!Power(w)
  <2>1. Raw(t, u) \in 0 .. Codec!Modulus(t) - 1 /\ Codec!Modulus(t) \in Nat
    BY RawFacts, TypeRange
  <2> QED BY <1>1, <2>1 DEF Codec!Pack, Raw
<1> HIDE DEF w
<1>3. ASSUME Codec!Fits(t, v) PROVE Codec!Unpack(t, Codec!Pack(t, v)) = v
  <2>1. Codec!Number(Codec!Pack(t, v)) = Raw(t, v)
    BY <1>1, <1>2, BytesRead
  <2> QED BY <1>3, <2>1, RawFacts DEF Codec!Unpack
<1>4. ASSUME t \notin {"int8", "rune"}, NEW u \in Int, v < u, Codec!Fits(t, v), Codec!Fits(t, u)
      PROVE  Codec!Before(Codec!Pack(t, v), Codec!Pack(t, u))
  <2>1. Raw(t, v) = v - Codec!Lowest(t) /\ Raw(t, u) = u - Codec!Lowest(t) /\ Codec!Lowest(t) \in Int
    BY <1>4, RawFacts, TypeRange
  <2>2. Raw(t, v) \in 0 .. Raw(t, u) - 1
    BY <1>2, <1>4, <2>1
  <2> QED BY <1>1, <1>2, <2>2, BytesSort
<1> QED BY <1>1, <1>2, <1>3, <1>4, BytesOf DEF w

(* What was written is the integer, and what was read is of a beginning of it. *)
CodecInv ==
  /\ value \in Int /\ prefix \in Seq(Nat)
  /\ buffer \in {Codec!Nothing, Codec!EncodeInt(type, value, prefix)}
  /\ decoded # Codec!Nothing =>
       /\ buffer.is = "ok"
       /\ \E n \in 0 .. Len(Codec!Whole) :
            decoded = [cut |-> Len(Codec!Whole) - n,
                       result |-> Codec!DecodeInt(type, Codec!First(Codec!Whole, n))]

(* What has been appended is the bytes of the number. *)
LEMMA WholePacked ==
  ASSUME CodecInv, buffer.is = "ok"
  PROVE  /\ Codec!Whole = Codec!Pack(type, value) /\ Codec!First(buffer.value, Len(prefix)) = prefix
         /\ Codec!Whole \in Seq(Nat) /\ Len(Codec!Whole) = Codec!Width(type)
<1> DEFINE p == Codec!Pack(type, value)
<1>1. p \in Seq(Nat) /\ Len(p) = Codec!Width(type) /\ Codec!Width(type) \in Nat /\ prefix \in Seq(Nat)
  <2>1. p \in Seq(0 .. Byte - 1) /\ Len(p) = Codec!Width(type)
    BY PackFacts DEF CodecInv
  <2> HIDE DEF p
  <2>2. p \in Seq(Nat)
    <3>1. 0 .. Byte - 1 \subseteq Nat
      BY ByteFacts
    <3>2. Len(p) \in Nat /\ p \in [1 .. Len(p) -> 0 .. Byte - 1]
      BY <2>1, LenProperties
    <3>3. p \in [1 .. Len(p) -> Nat]
      BY <3>1, <3>2
    <3>4. \A S : Seq(S) = UNION {[1 .. k -> S] : k \in Nat}
      BY SeqDef
    <3> QED BY <3>2, <3>3, <3>4, Zenon
  <2> QED BY <2>1, <2>2, TypeRange DEF CodecInv
<1>2. buffer.value = prefix \o p
  BY DEF CodecInv, Codec!EncodeInt, Codec!Nothing, Codec!Raised, Codec!Ok
<1> HIDE DEF p
<1>3. /\ prefix \o p \in Seq(Nat) /\ Len(prefix \o p) = Len(prefix) + Len(p)
      /\ \A i \in 1 .. Len(prefix) + Len(p) : (prefix \o p)[i] = IF i <= Len(prefix) THEN prefix[i]
                                                                     ELSE p[i - Len(prefix)]
  BY <1>1, ConcatProperties
<1>4. SubSeq(prefix \o p, 1, Len(prefix)) = prefix
  BY <1>1, <1>3
<1>5. SubSeq(prefix \o p, Len(prefix) + 1, Len(prefix \o p)) = p
  BY <1>1, <1>3
<1> QED BY <1>1, <1>2, <1>4, <1>5 DEF Codec!Whole, Codec!From, Codec!First, p

(* Nothing has been written yet.                                           *)
LEMMA CodecInit == Codec!Init => CodecInv
<1> SUFFICES ASSUME Codec!Init PROVE CodecInv
  OBVIOUS
<1>1. Codec!Lowest(type) - 1 .. Codec!Lowest(type) + Codec!Modulus(type) \subseteq Int
  OBVIOUS
<1> QED BY <1>1, ByteAssumption DEF Codec!Init, CodecInv

(* serialize writes once, and deserialize reads what was written.          *)
LEMMA CodecStep == CodecInv /\ [Codec!Next]_(Codec!vars) => CodecInv'
<1> SUFFICES ASSUME CodecInv, [Codec!Next]_(Codec!vars) PROVE CodecInv'
  OBVIOUS
<1>1. CASE UNCHANGED Codec!vars
  BY <1>1 DEF Codec!vars, CodecInv, Codec!Whole
<1>2. CASE Codec!Encode
  <2>1. decoded = Codec!Nothing
    BY <1>2 DEF Codec!Encode, CodecInv, Codec!Nothing
  <2> QED BY <1>2, <2>1 DEF Codec!Encode, CodecInv
<1>3. ASSUME NEW n \in 0 .. Len(Codec!Whole), Codec!Decode(n) PROVE CodecInv'
  <2>1. UNCHANGED <<type, value, prefix, buffer>> /\ Codec!Whole' = Codec!Whole
    BY <1>3 DEF Codec!Decode, Codec!Whole
  <2> QED BY <1>3, <2>1 DEF Codec!Decode, CodecInv
<1> QED BY <1>1, <1>2, <1>3 DEF Codec!Next

(* What the bytes of a packed number are says what reading them gives.     *)
LEMMA CodecSound == CodecInv => IntegersSound
<1> SUFFICES ASSUME CodecInv, buffer.is = "ok" PROVE IntegersSound
  BY DEF IntegersSound, Codec!ReadsBack, Codec!SortsAsNumber
<1> DEFINE p == Codec!Pack(type, value)
<1>1. /\ Codec!Whole = p /\ Codec!First(buffer.value, Len(prefix)) = prefix
      /\ p \in Seq(Nat) /\ Len(p) = Codec!Width(type) /\ value \in Int
  BY WholePacked DEF CodecInv
<1>2. Codec!Fits(type, value) => Codec!Unpack(type, p) = value
  BY <1>1, PackFacts
<1>3. ASSUME type \notin {"int8", "rune"}, Codec!Fits(type, value),
             NEW other \in value + 1 .. Codec!Lowest(type) + Codec!Modulus(type) - 1
      PROVE  Codec!Before(p, Codec!Pack(type, other))
  <2>1. Codec!Lowest(type) \in Int /\ Codec!Modulus(type) \in Int
    BY TypeRange
  <2>2. other \in Int /\ value < other /\ Codec!Fits(type, other)
    BY <1>1, <1>3, <2>1 DEF Codec!Fits
  <2> QED BY <1>1, <1>3, <2>2, PackFacts
<1> HIDE DEF p
<1>4. ASSUME NEW n \in 0 .. Len(p), decoded = [cut |-> Len(p) - n,
                                               result |-> Codec!DecodeInt(type, Codec!First(p, n))]
      PROVE  IF decoded.cut > 0 THEN decoded.result = Codec!Raised
             ELSE Codec!Fits(type, value) => decoded.result = Codec!Ok(value)
  <2>1. Len(Codec!First(p, n)) = n
    BY <1>1 DEF Codec!First
  <2>2. CASE n < Len(p)
    BY <1>1, <1>4, <2>1, <2>2 DEF Codec!DecodeInt
  <2>3. CASE n = Len(p)
    <3>1. Codec!First(p, Len(p)) = p
      BY <1>1 DEF Codec!First
    <3>2. decoded.cut = 0 /\ decoded.result = Codec!Ok(Codec!Unpack(type, p))
      BY <1>1, <1>4, <2>1, <2>3, <3>1 DEF Codec!DecodeInt
    <3> QED BY <1>2, <3>2
  <2> QED BY <1>1, <2>2, <2>3
<1> QED BY <1>1, <1>3, <1>4 DEF IntegersSound, Codec!ReadsBack, Codec!SortsAsNumber, CodecInv

(* runtime/serde/serde.py: for a byte of any even number of values and        *)
(* integers of any number of bytes, an integer is read back as it was         *)
(* written, one of fewer bytes is an error, and the bytes of all types but    *)
(* int8 and rune sort as the integers do, the negative ones first.            *)
THEOREM IntegersKept == Codec!Spec => []IntegersSound
BY CodecInit, CodecStep, CodecSound, PTL DEF Codec!Spec
=============================================================================
