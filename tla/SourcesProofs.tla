--------------------------- MODULE SourcesProofs ---------------------------
(* Proofs about the custom source (CustomSource) for any calls and limits, *)
(* and about a Temporal endpoint (TemporalEndpoint) for any submissions,   *)
(* messages and number of attempts.                                        *)
EXTENDS MCSources, FiniteSetTheorems, SequenceTheorems, TLAPS

(***************************************************************************)
(* The custom source.                                                      *)
(***************************************************************************)
Waiting == {c \in Calls : call[c] = "waiting"}

CustomTypes ==
  /\ limit \in Limits /\ changes \in Nat /\ semaphore \in Custom!Made
  /\ value \in [Custom!Made -> Nat] /\ waiters \in [Custom!Made -> Seq(Calls)]
  /\ granted \in [Custom!Made -> SUBSET Calls]
  /\ call \in [Calls -> Custom!CallStates] /\ held \in [Calls -> Custom!Made]
  /\ tasks = {c \in Calls : call[c] = "running"} /\ IsFiniteSet(tasks) /\ IsFiniteSet(granted[1])

(* One semaphore was made, for the limit, and all that runs holds it. *)
OneSemaphore ==
  /\ semaphore \in {0, 1} /\ (semaphore = 1 => sized = limit)
  /\ \A i \in Custom!Made : i # 1 => waiters[i] = <<>> /\ granted[i] = {}
  /\ \A c \in tasks : held[c] = 1
  /\ semaphore = 0 => tasks = {} /\ waiters[1] = <<>> /\ granted[1] = {}

(* Its slots are free, held by a request, or handed to a call. *)
SlotsCounted == semaphore = 1 => value[1] + Cardinality(tasks) + Cardinality(granted[1]) = limit

(* A call that waits is in the queue, once, or was handed a slot. *)
QueueExact ==
  /\ \A j, k \in 1 .. Len(waiters[1]) : waiters[1][j] = waiters[1][k] => j = k
  /\ \A j \in 1 .. Len(waiters[1]) : waiters[1][j] \in Waiting \ granted[1]
  /\ granted[1] \subseteq Waiting
  /\ \A c \in Waiting : c \in granted[1] \/ \E j \in 1 .. Len(waiters[1]) : waiters[1][j] = c

(* A free slot that a call waits for is about to be handed on. *)
NoneIdle == value[1] > 0 /\ granted[1] = {} => waiters[1] = <<>>

Steady == changes = 0 /\ limit > 0 => OneSemaphore /\ SlotsCounted /\ QueueExact /\ NoneIdle

CustomInv == CustomTypes /\ Steady

LEMMA PrefixSet ==
  ASSUME NEW S, NEW q \in Seq(S), NEW n \in Nat, n <= Len(q)
  PROVE  /\ IsFiniteSet({q[j] : j \in 1 .. n}) /\ {q[j] : j \in 1 .. n} \subseteq S
         /\ (\A j, k \in 1 .. Len(q) : q[j] = q[k] => j = k) => Cardinality({q[j] : j \in 1 .. n}) = n
<1> DEFINE P == {q[j] : j \in 1 .. n}
           f == [j \in 1 .. n |-> q[j]]
<1>1. f \in Surjection(1 .. n, P)
  BY DEF Surjection
<1>2. IsFiniteSet(1 .. n) /\ Cardinality(1 .. n) = n
  BY FS_Interval
<1>3. P \subseteq S
  OBVIOUS
<1>4. ASSUME \A j, k \in 1 .. Len(q) : q[j] = q[k] => j = k PROVE f \in Injection(1 .. n, P)
  <2>1. f \in [1 .. n -> P]
    BY <1>1 DEF Surjection
  <2>2. \A j, k \in 1 .. n : f[j] = f[k] => j = k
    BY <1>4
  <2> QED
    BY <2>1, <2>2 DEF Injection, IsInjective
<1> HIDE DEF P, f
<1>5. IsFiniteSet(P) /\ (f \in Injection(1 .. n, P) => Cardinality(P) = n)
  BY <1>1, <1>2, FS_Surjection
<1>6. IsFiniteSet(P) /\ P \subseteq S
      /\ ((\A j, k \in 1 .. Len(q) : q[j] = q[k] => j = k) => Cardinality(P) = n)
  BY <1>3, <1>4, <1>5
<1> QED
  BY <1>6 DEF P

LEMMA InitCustomInv == Custom!Init => CustomInv
<1> SUFFICES ASSUME Custom!Init PROVE CustomInv
  OBVIOUS
<1> USE DEF Custom!Init
<1>1. IsFiniteSet({}) /\ Cardinality({}) = 0
  BY FS_EmptySet
<1>2. 0 \in Custom!Made /\ 1 \in Custom!Made
  BY LimitsAssumption DEF Custom!Made
<1>3. CustomTypes
  BY <1>1, <1>2 DEF CustomTypes, Custom!CallStates
<1>4. Steady
  BY <1>2 DEF Steady, OneSemaphore, SlotsCounted, QueueExact, NoneIdle, Waiting
<1> QED
  BY <1>3, <1>4 DEF CustomInv

(* The steps that leave the semaphores and who holds them alone. *)
LEMMA CustomQuiet ==
  ASSUME CustomInv, limit' \in Limits, changes' \in Nat, changes' = 0 => changes = 0 /\ limit' = limit,
         call' \in [Calls -> Custom!CallStates],
         \A c \in Calls : \A s \in {"waiting", "running"} : call'[c] = s <=> call[c] = s,
         UNCHANGED <<semaphore, sized, value, waiters, granted, held, tasks>>
  PROVE  CustomInv'
<1>1. Waiting' = Waiting /\ tasks' = {c \in Calls : call'[c] = "running"}
  BY DEF Waiting, CustomInv, CustomTypes
<1>2. CustomTypes'
  BY <1>1 DEF CustomInv, CustomTypes
<1>3. ASSUME changes' = 0, limit' > 0 PROVE OneSemaphore' /\ SlotsCounted' /\ QueueExact' /\ NoneIdle'
  BY <1>1, <1>3 DEF CustomInv, Steady, OneSemaphore, SlotsCounted, QueueExact, NoneIdle
<1> QED
  BY <1>2, <1>3 DEF CustomInv, Steady

(* create_task of the request of a call, with a slot. *)
LEMMA LaunchFacts ==
  ASSUME CustomInv, NEW c \in Calls, NEW i \in Custom!Made, Custom!Launch(c, i)
  PROVE  /\ call' \in [Calls -> Custom!CallStates] /\ held' \in [Calls -> Custom!Made]
         /\ tasks' = {d \in Calls : call'[d] = "running"} /\ IsFiniteSet(tasks')
         /\ call[c] # "running" => Cardinality(tasks') = Cardinality(tasks) + 1
         /\ Waiting' = Waiting \ {c}
         /\ i = 1 /\ (\A d \in tasks : held[d] = 1) => \A d \in tasks' : held'[d] = 1
<1>1. tasks' = tasks \union {c} /\ (call[c] # "running" => c \notin tasks) /\ IsFiniteSet(tasks)
  BY DEF CustomInv, CustomTypes, Custom!Launch
<1>2. IsFiniteSet(tasks') /\ (call[c] # "running" => Cardinality(tasks') = Cardinality(tasks) + 1)
  BY <1>1, FS_AddElement
<1> USE DEF CustomInv, CustomTypes, Custom!Launch
<1>3. call' \in [Calls -> Custom!CallStates] /\ held' \in [Calls -> Custom!Made]
  BY DEF Custom!CallStates
<1>4. tasks' = {d \in Calls : call'[d] = "running"} /\ Waiting' = Waiting \ {c}
  BY DEF Waiting
<1>5. i = 1 /\ (\A d \in tasks : held[d] = 1) => \A d \in tasks' : held'[d] = 1
  OBVIOUS
<1> QED
  BY <1>2, <1>3, <1>4, <1>5

LEMMA ConsumeStep == ASSUME CustomInv, NEW c \in Calls, Custom!Consume(c) PROVE CustomInv'
<1> DEFINE i == IF Custom!Outdated THEN semaphore + 1 ELSE semaphore
           free == IF Custom!Outdated THEN limit ELSE value[i]
<1>1. /\ limit > 0 /\ limit \in Nat /\ limit' = limit /\ changes' = changes /\ granted' = granted
      /\ i \in Custom!Made /\ semaphore' = i /\ sized' = limit /\ free \in Nat
  BY LimitsAssumption DEF CustomInv, CustomTypes, Custom!Consume, Custom!Outdated
<1>2. call[c] = "new" /\ call[c] # "running" /\ c \notin Waiting
  BY DEF Custom!Consume, Waiting
<1>5. /\ Custom!Outdated => i = semaphore + 1 /\ free = limit
      /\ ~Custom!Outdated => i = semaphore /\ free = value[i]
  OBVIOUS
<1>6. free > 0 /\ waiters[i] = <<>> /\ granted[i] = {} =>
        Custom!Launch(c, i) /\ value' = [value EXCEPT ![i] = free - 1] /\ waiters' = waiters
  BY DEF Custom!Consume, Custom!Outdated
<1>7. ~(free > 0 /\ waiters[i] = <<>> /\ granted[i] = {}) =>
        /\ value' = [value EXCEPT ![i] = free]
        /\ waiters' = [waiters EXCEPT ![i] = Append(@, c)]
        /\ call' = [call EXCEPT ![c] = "waiting"]
        /\ UNCHANGED <<held, tasks>>
  BY DEF Custom!Consume, Custom!Outdated
<1> HIDE DEF i, free
<1>3. CASE free > 0 /\ waiters[i] = <<>> /\ granted[i] = {}
  <2>1. Custom!Launch(c, i) /\ value' = [value EXCEPT ![i] = free - 1] /\ waiters' = waiters
    BY <1>3, <1>6
  <2>4. /\ call' \in [Calls -> Custom!CallStates] /\ held' \in [Calls -> Custom!Made]
        /\ tasks' = {d \in Calls : call'[d] = "running"} /\ IsFiniteSet(tasks')
        /\ Cardinality(tasks') = Cardinality(tasks) + 1
        /\ Waiting' = Waiting \ {c}
        /\ i = 1 /\ (\A d \in tasks : held[d] = 1) => \A d \in tasks' : held'[d] = 1
    BY <1>1, <1>2, <2>1, LaunchFacts
  <2>2. CustomTypes'
    BY <1>1, <1>3, <2>1, <2>4 DEF CustomInv, CustomTypes
  <2>3. ASSUME changes = 0 PROVE OneSemaphore' /\ SlotsCounted' /\ QueueExact' /\ NoneIdle'
    <3>1. OneSemaphore /\ SlotsCounted /\ QueueExact /\ NoneIdle
      BY <1>1, <2>3 DEF CustomInv, Steady
    <3>2. i = 1 /\ free + Cardinality(tasks) = limit
      <4>1. CASE semaphore = 0
        <5>1. Custom!Outdated /\ tasks = {} /\ Cardinality({}) = 0
          BY <3>1, <4>1, FS_EmptySet DEF OneSemaphore, Custom!Outdated
        <5> QED
          BY <5>1, <4>1, <1>1, <1>5
      <4>2. CASE semaphore = 1
        <5>1. ~Custom!Outdated
          BY <3>1, <4>2 DEF OneSemaphore, Custom!Outdated
        <5>2. i = 1 /\ free = value[1] /\ granted[1] = {}
          BY <5>1, <4>2, <1>3, <1>5
        <5> QED
          BY <5>2, <3>1, <4>2, <1>1, FS_EmptySet, FS_CardinalityType DEF SlotsCounted, CustomInv, CustomTypes
      <4> QED
        BY <4>1, <4>2, <3>1 DEF OneSemaphore
    <3>3. waiters[1] = <<>> /\ granted[1] = {} /\ Waiting = {} /\ Waiting' = {}
      BY <1>2, <1>3, <3>1, <3>2, <2>4 DEF QueueExact
    <3>4. OneSemaphore'
      BY <1>1, <2>1, <2>4, <3>1, <3>2, <3>3 DEF OneSemaphore
    <3>5. value'[1] = free - 1 /\ Cardinality(tasks') = Cardinality(tasks) + 1
      BY <1>1, <2>1, <2>4, <3>2 DEF CustomInv, CustomTypes
    <3>6. Cardinality(tasks) \in Nat /\ Cardinality({}) = 0
      BY FS_CardinalityType, FS_EmptySet DEF CustomInv, CustomTypes
    <3>7. SlotsCounted'
      BY <1>1, <3>2, <3>3, <3>5, <3>6 DEF SlotsCounted
    <3>8. QueueExact' /\ NoneIdle'
      BY <1>1, <2>1, <3>3 DEF QueueExact, NoneIdle
    <3> QED
      BY <3>4, <3>7, <3>8
  <2> QED
    BY <1>1, <2>2, <2>3 DEF CustomInv, Steady
<1>4. CASE ~(free > 0 /\ waiters[i] = <<>> /\ granted[i] = {})
  <2>1. /\ value' = [value EXCEPT ![i] = free]
        /\ waiters' = [waiters EXCEPT ![i] = Append(@, c)]
        /\ call' = [call EXCEPT ![c] = "waiting"]
        /\ UNCHANGED <<held, tasks>>
    BY <1>4, <1>7
  <2>2. Waiting' = Waiting \union {c} /\ tasks' = {d \in Calls : call'[d] = "running"}
    BY <1>2, <2>1 DEF CustomInv, CustomTypes, Waiting
  <2>3. CustomTypes'
    BY <1>1, <2>1, <2>2 DEF CustomInv, CustomTypes, Custom!CallStates
  <2>4. ASSUME changes = 0 PROVE OneSemaphore' /\ SlotsCounted' /\ QueueExact' /\ NoneIdle'
    <3>1. OneSemaphore /\ SlotsCounted /\ QueueExact /\ NoneIdle
      BY <1>1, <2>4 DEF CustomInv, Steady
    <3>2. semaphore = 1 /\ i = 1 /\ free = value[1]
      BY <1>1, <1>4, <1>5, <3>1 DEF OneSemaphore, Custom!Outdated
    <3>3. value' = value /\ UNCHANGED <<semaphore, limit>>
      BY <1>1, <2>1, <3>2 DEF CustomInv, CustomTypes
    <3>4. 1 \in Custom!Made /\ waiters[1] \in Seq(Calls) /\ waiters'[1] = Append(waiters[1], c)
      BY <1>1, <2>1, <3>2 DEF CustomInv, CustomTypes
    <3>5. OneSemaphore' /\ SlotsCounted'
      BY <1>1, <2>1, <3>1, <3>2, <3>3 DEF OneSemaphore, SlotsCounted, CustomInv, CustomTypes
    <3>6. QueueExact'
      <4> DEFINE q == waiters[1]
      <4>1. /\ Len(waiters'[1]) = Len(q) + 1 /\ Len(q) \in Nat
            /\ \A j \in 1 .. Len(q) : waiters'[1][j] = q[j]
            /\ waiters'[1][Len(q) + 1] = c
        BY <3>4
      <4>2. \A j \in 1 .. Len(q) : q[j] # c
        BY <1>2, <3>1 DEF QueueExact
      <4>3. c \notin granted[1]
        BY <1>2, <3>1 DEF QueueExact
      <4>4. \A j, k \in 1 .. Len(waiters'[1]) : waiters'[1][j] = waiters'[1][k] => j = k
        <5>1. \A j, k \in 1 .. Len(q) : q[j] = q[k] => j = k
          BY <3>1 DEF QueueExact
        <5>2. \A j \in 1 .. Len(waiters'[1]) : j = Len(q) + 1 \/ j \in 1 .. Len(q)
          BY <4>1
        <5> QED
          BY <4>1, <4>2, <5>1, <5>2
      <4>5. \A j \in 1 .. Len(waiters'[1]) : waiters'[1][j] \in Waiting' \ granted[1]
        BY <4>1, <4>3, <2>2, <3>1 DEF QueueExact
      <4>6. \A d \in Waiting' : d \in granted[1] \/ \E j \in 1 .. Len(waiters'[1]) : waiters'[1][j] = d
        BY <4>1, <2>2, <3>1 DEF QueueExact
      <4> QED
        BY <4>4, <4>5, <4>6, <1>1, <2>2, <3>1 DEF QueueExact
    <3>7. NoneIdle'
      BY <1>1, <1>4, <3>1, <3>2, <3>3 DEF NoneIdle
    <3> QED
      BY <3>5, <3>6, <3>7
  <2> QED
    BY <1>1, <2>3, <2>4 DEF CustomInv, Steady
<1> QED
  BY <1>3, <1>4

LEMMA ResumeStep ==
  ASSUME CustomInv, NEW c \in Calls, NEW i \in Custom!Made, Custom!Resume(c, i)
  PROVE  CustomInv'
<1> DEFINE q == waiters[i]
           n == IF value[i] < Len(q) THEN value[i] ELSE Len(q)
           P == {q[j] : j \in 1 .. n}
<1>1. /\ q \in Seq(Calls) /\ Len(q) \in Nat /\ value[i] \in Nat /\ n \in Nat /\ n <= value[i] /\ n <= Len(q)
      /\ n < Len(q) => n = value[i]
  BY DEF CustomInv, CustomTypes
<1>2. /\ c \in granted[i]
      /\ value' = [value EXCEPT ![i] = @ - n]
      /\ waiters' = [waiters EXCEPT ![i] = SubSeq(@, n + 1, Len(@))]
      /\ granted' = [granted EXCEPT ![i] = (@ \ {c}) \union P]
      /\ Custom!Launch(c, semaphore)
      /\ UNCHANGED <<limit, changes, semaphore, sized>>
  BY DEF Custom!Resume
<1> HIDE DEF n
<1>3. IsFiniteSet(P) /\ P \subseteq Calls
  BY <1>1, PrefixSet
<1>4. ASSUME \A j, k \in 1 .. Len(q) : q[j] = q[k] => j = k PROVE Cardinality(P) = n
  BY <1>1, <1>4, PrefixSet
<1>5. /\ SubSeq(q, n + 1, Len(q)) \in Seq(Calls)
      /\ Len(SubSeq(q, n + 1, Len(q))) = Len(q) - n
      /\ \A j \in 1 .. Len(q) - n : SubSeq(q, n + 1, Len(q))[j] = q[n + j]
  BY <1>1
<1>6. semaphore \in Custom!Made
  BY DEF CustomInv, CustomTypes
<1>7. /\ call' \in [Calls -> Custom!CallStates] /\ held' \in [Calls -> Custom!Made]
      /\ tasks' = {d \in Calls : call'[d] = "running"} /\ IsFiniteSet(tasks')
      /\ call[c] # "running" => Cardinality(tasks') = Cardinality(tasks) + 1
      /\ Waiting' = Waiting \ {c}
      /\ semaphore = 1 /\ (\A d \in tasks : held[d] = 1) => \A d \in tasks' : held'[d] = 1
  BY <1>2, <1>6, LaunchFacts
<1>8. \A j \in 1 .. n : q[j] \in P
  OBVIOUS
<1>9. \A d \in P : \E j \in 1 .. n : d = q[j]
  OBVIOUS
<1> HIDE DEF P
<1>10. CustomTypes'
  <2>1. IsFiniteSet(granted'[1])
    <3>1. CASE i = 1
      <4>1. IsFiniteSet(granted[1] \ {c})
        BY FS_RemoveElement DEF CustomInv, CustomTypes
      <4> QED
        BY <1>2, <1>3, <3>1, <4>1, FS_Union DEF CustomInv, CustomTypes
    <3> QED
      BY <1>2, <3>1 DEF CustomInv, CustomTypes
  <2>2. value' \in [Custom!Made -> Nat] /\ waiters' \in [Custom!Made -> Seq(Calls)]
    BY <1>1, <1>2, <1>5 DEF CustomInv, CustomTypes
  <2>3. granted' \in [Custom!Made -> SUBSET Calls]
    BY <1>2, <1>3 DEF CustomInv, CustomTypes
  <2> QED
    BY <1>2, <1>7, <2>1, <2>2, <2>3 DEF CustomInv, CustomTypes
<1>11. ASSUME changes = 0, limit > 0 PROVE OneSemaphore' /\ SlotsCounted' /\ QueueExact' /\ NoneIdle'
  <2>1. OneSemaphore /\ SlotsCounted /\ QueueExact /\ NoneIdle
    BY <1>11 DEF CustomInv, Steady
  <2>2. i = 1 /\ semaphore = 1
    BY <1>2, <2>1 DEF OneSemaphore
  <2>3. /\ 1 \in Custom!Made /\ value'[1] = value[1] - n
        /\ waiters'[1] = SubSeq(q, n + 1, Len(q))
        /\ granted'[1] = (granted[1] \ {c}) \union P
        /\ \A j \in Custom!Made : j # 1 => waiters'[j] = waiters[j] /\ granted'[j] = granted[j]
    BY <1>2, <2>2 DEF CustomInv, CustomTypes
  <2>4. /\ \A j, k \in 1 .. Len(q) : q[j] = q[k] => j = k
        /\ \A j \in 1 .. Len(q) : q[j] \in Waiting \ granted[1]
        /\ granted[1] \subseteq Waiting /\ c \in granted[1] /\ call[c] # "running"
        /\ \A d \in Waiting : d \in granted[1] \/ \E j \in 1 .. Len(q) : q[j] = d
    BY <2>1, <2>2, <1>2 DEF QueueExact, Waiting
  <2>5. OneSemaphore'
    BY <1>2, <1>7, <2>1, <2>2, <2>3 DEF OneSemaphore
  <2>6. SlotsCounted'
    <3>1. Cardinality(P) = n /\ (granted[1] \ {c}) \intersect P = {}
      BY <1>1, <1>4, <1>9, <2>4
    <3>2. /\ IsFiniteSet(granted[1]) /\ IsFiniteSet(granted[1] \ {c})
          /\ Cardinality(granted[1] \ {c}) = Cardinality(granted[1]) - 1
      <4>1. IsFiniteSet(granted[1])
        BY DEF CustomInv, CustomTypes
      <4> QED
        BY <2>4, <4>1, FS_RemoveElement
    <3>3. Cardinality({}) = 0 /\ Cardinality(granted[1]) \in Nat /\ Cardinality(tasks) \in Nat
      BY <3>2, FS_EmptySet, FS_CardinalityType DEF CustomInv, CustomTypes
    <3>4. Cardinality((granted[1] \ {c}) \union P) = Cardinality(granted[1]) - 1 + n
      <4>1. Cardinality((granted[1] \ {c}) \union P)
              = Cardinality(granted[1] \ {c}) + Cardinality(P) - Cardinality((granted[1] \ {c}) \intersect P)
        BY <1>3, <3>2, FS_Union
      <4>2. Cardinality((granted[1] \ {c}) \intersect P) = 0
        BY <3>1, FS_EmptySet
      <4>3. Cardinality((granted[1] \ {c}) \union P) = (Cardinality(granted[1]) - 1) + n - 0
        BY <3>1, <3>2, <4>1, <4>2
      <4> QED
        BY <1>1, <3>3, <4>3
    <3>5. value[1] + Cardinality(tasks) + Cardinality(granted[1]) = limit
      BY <2>1, <2>2 DEF SlotsCounted
    <3>6. /\ Cardinality(tasks') = Cardinality(tasks) + 1
          /\ Cardinality(granted'[1]) = Cardinality(granted[1]) - 1 + n
      BY <1>7, <2>3, <2>4, <3>4
    <3>7. value[1] \in Nat
      BY <1>1, <2>2
    <3> QED
      <4>1. value'[1] + Cardinality(tasks') + Cardinality(granted'[1]) = limit
        BY <1>1, <2>3, <3>3, <3>5, <3>6, <3>7
      <4> QED
        BY <1>2, <4>1 DEF SlotsCounted
  <2>7. QueueExact'
    <3> DEFINE s == SubSeq(q, n + 1, Len(q))
    <3>0. Len(s) = Len(q) - n /\ Len(s) \in Nat /\ \A j \in 1 .. Len(s) : s[j] = q[n + j]
      BY <1>1, <1>5
    <3> HIDE DEF s
    <3>1. \A j \in 1 .. Len(s) : s[j] = q[n + j] /\ n + j \in 1 .. Len(q) /\ n + j \notin 1 .. n
      BY <1>1, <3>0
    <3>2. \A j \in 1 .. Len(q) : j \in 1 .. n \/ (j - n \in 1 .. Len(s) /\ s[j - n] = q[j])
      <4> SUFFICES ASSUME NEW j \in 1 .. Len(q), j \notin 1 .. n PROVE j - n \in 1 .. Len(s) /\ s[j - n] = q[j]
        OBVIOUS
      <4>1. j - n \in 1 .. Len(s) /\ n + (j - n) = j
        BY <1>1, <3>0
      <4> QED
        BY <3>0, <4>1
    <3>3. \A j, k \in 1 .. Len(s) : s[j] = s[k] => j = k
      BY <1>1, <2>4, <3>0, <3>1
    <3>4. \A j \in 1 .. Len(s) : s[j] \in Waiting' \ ((granted[1] \ {c}) \union P)
      <4> SUFFICES ASSUME NEW j \in 1 .. Len(s)
                   PROVE  s[j] \in Waiting' /\ s[j] \notin granted[1] /\ s[j] \notin P
        OBVIOUS
      <4>1. s[j] = q[n + j] /\ n + j \in 1 .. Len(q) /\ n + j \notin 1 .. n
        BY <3>1
      <4>2. s[j] \in Waiting /\ s[j] \notin granted[1] /\ s[j] # c
        BY <2>4, <4>1
      <4>3. s[j] \notin P
        <5> SUFFICES ASSUME NEW k \in 1 .. n, s[j] = q[k] PROVE FALSE
          BY <1>9
        <5>1. k \in 1 .. Len(q)
          BY <1>1
        <5> QED
          BY <2>4, <4>1, <5>1
      <4> QED
        BY <1>7, <4>2, <4>3
    <3>5. (granted[1] \ {c}) \union P \subseteq Waiting'
      <4>1. \A d \in P : d \in Waiting /\ d # c
        BY <1>1, <1>9, <2>4
      <4> QED
        BY <1>7, <2>4, <4>1
    <3>6. \A d \in Waiting' : d \in (granted[1] \ {c}) \union P \/ \E j \in 1 .. Len(s) : s[j] = d
      BY <1>7, <1>8, <2>4, <3>2
    <3>7. waiters'[1] = s /\ granted'[1] = (granted[1] \ {c}) \union P
      BY <2>3 DEF s
    <3> QED
      BY <3>3, <3>4, <3>5, <3>6, <3>7 DEF QueueExact
  <2>8. NoneIdle'
    <3> SUFFICES ASSUME value'[1] > 0 PROVE waiters'[1] = <<>>
      BY DEF NoneIdle
    <3>1. n = Len(q)
      BY <1>1, <2>2, <2>3
    <3> QED
      BY <1>1, <2>3, <3>1
  <2> QED
    BY <2>5, <2>6, <2>7, <2>8
<1> QED
  BY <1>2, <1>10, <1>11 DEF CustomInv, Steady

LEMMA RequestEndsStep == ASSUME CustomInv, NEW c \in Calls, Custom!RequestEnds(c) PROVE CustomInv'
<1>1. /\ c \in tasks /\ tasks' = tasks \ {c} /\ IsFiniteSet(tasks)
      /\ call' = [call EXCEPT ![c] = "over"] /\ Custom!Release(held[c])
      /\ UNCHANGED <<limit, changes, semaphore, sized, held>>
  BY DEF CustomInv, CustomTypes, Custom!RequestEnds
<1>2. IsFiniteSet(tasks') /\ Cardinality(tasks') = Cardinality(tasks) - 1
  BY <1>1, FS_RemoveElement
<1>3. Waiting' = Waiting /\ tasks' = {d \in Calls : call'[d] = "running"}
      /\ call' \in [Calls -> Custom!CallStates]
  BY <1>1 DEF CustomInv, CustomTypes, Waiting, Custom!CallStates
<1>4. held[c] \in Custom!Made /\ 1 \in Custom!Made
  BY LimitsAssumption DEF CustomInv, CustomTypes, Custom!Made
<1>5. CASE UNCHANGED <<value, waiters, granted>> /\ held[c] = 0
  <2>1. CustomTypes'
    BY <1>1, <1>2, <1>3, <1>5 DEF CustomInv, CustomTypes
  <2>2. changes = 0 /\ limit > 0 => FALSE
    BY <1>1, <1>5 DEF CustomInv, Steady, OneSemaphore
  <2> QED
    BY <1>1, <2>1, <2>2 DEF CustomInv, Steady
<1>6. CASE Custom!HandOn(held[c]) /\ UNCHANGED value
  <2> DEFINE i == held[c]
             q == waiters[i]
  <2>1. /\ q \in Seq(Calls) /\ q # <<>> /\ Len(q) \in Nat /\ Len(q) >= 1 /\ Head(q) = q[1] /\ Head(q) \in Calls
        /\ Tail(q) \in Seq(Calls) /\ Len(Tail(q)) = Len(q) - 1
        /\ \A j \in 1 .. Len(q) - 1 : Tail(q)[j] = q[j + 1]
    BY <1>4, <1>6 DEF CustomInv, CustomTypes, Custom!HandOn
  <2>2. /\ granted' = [granted EXCEPT ![i] = @ \union {Head(q)}]
        /\ waiters' = [waiters EXCEPT ![i] = Tail(q)]
    BY <1>6 DEF Custom!HandOn
  <2>3. CustomTypes'
    <3>1. IsFiniteSet(granted'[1])
      <4>1. IsFiniteSet(granted[1]) /\ IsFiniteSet(granted[1] \union {Head(q)})
        BY FS_AddElement DEF CustomInv, CustomTypes
      <4>2. granted'[1] = granted[1] \/ granted'[1] = granted[1] \union {Head(q)}
        BY <1>4, <2>2 DEF CustomInv, CustomTypes
      <4> QED
        BY <4>1, <4>2
    <3>2. granted' \in [Custom!Made -> SUBSET Calls] /\ waiters' \in [Custom!Made -> Seq(Calls)]
      BY <1>4, <2>1, <2>2 DEF CustomInv, CustomTypes
    <3> QED
      BY <1>1, <1>2, <1>3, <1>6, <3>1, <3>2 DEF CustomInv, CustomTypes
  <2>4. ASSUME changes = 0, limit > 0 PROVE OneSemaphore' /\ SlotsCounted' /\ QueueExact' /\ NoneIdle'
    <3>1. OneSemaphore /\ SlotsCounted /\ QueueExact /\ NoneIdle
      BY <2>4 DEF CustomInv, Steady
    <3>2. i = 1 /\ semaphore = 1
      BY <1>1, <3>1 DEF OneSemaphore
    <3>3. /\ waiters'[1] = Tail(q) /\ granted'[1] = granted[1] \union {q[1]}
          /\ \A j \in Custom!Made : j # 1 => waiters'[j] = waiters[j] /\ granted'[j] = granted[j]
      BY <1>4, <2>1, <2>2, <3>2 DEF CustomInv, CustomTypes
    <3>4. /\ \A j, k \in 1 .. Len(q) : q[j] = q[k] => j = k
          /\ \A j \in 1 .. Len(q) : q[j] \in Waiting \ granted[1]
          /\ granted[1] \subseteq Waiting
          /\ \A d \in Waiting : d \in granted[1] \/ \E j \in 1 .. Len(q) : q[j] = d
      BY <3>1, <3>2 DEF QueueExact
    <3>5. OneSemaphore'
      BY <1>1, <3>1, <3>2, <3>3 DEF OneSemaphore
    <3>6. SlotsCounted'
      <4>1. q[1] \notin granted[1] /\ IsFiniteSet(granted[1])
        BY <2>1, <3>4 DEF CustomInv, CustomTypes
      <4>2. Cardinality(granted'[1]) = Cardinality(granted[1]) + 1
        BY <3>3, <4>1, FS_AddElement
      <4>3. Cardinality(granted[1]) \in Nat /\ Cardinality(tasks) \in Nat /\ value[1] \in Nat
        <5>1. Cardinality(granted[1]) \in Nat
          BY <4>1, FS_CardinalityType
        <5>2. Cardinality(tasks) \in Nat
          BY <1>1, FS_CardinalityType
        <5>3. value[1] \in Nat
          BY <1>4 DEF CustomInv, CustomTypes
        <5> QED
          BY <5>1, <5>2, <5>3
      <4> QED
        BY <1>1, <1>2, <1>6, <3>1, <3>2, <4>2, <4>3 DEF SlotsCounted
    <3>7. QueueExact'
      <4>1. \A j, k \in 1 .. Len(Tail(q)) : Tail(q)[j] = Tail(q)[k] => j = k
        <5> SUFFICES ASSUME NEW j \in 1 .. Len(Tail(q)), NEW k \in 1 .. Len(Tail(q)), Tail(q)[j] = Tail(q)[k]
                     PROVE  j = k
          OBVIOUS
        <5>1. /\ Tail(q)[j] = q[j + 1] /\ j + 1 \in 1 .. Len(q)
              /\ Tail(q)[k] = q[k + 1] /\ k + 1 \in 1 .. Len(q)
          BY <2>1
        <5>2. j + 1 = k + 1
          BY <3>4, <5>1
        <5> QED
          BY <5>2
      <4>2. \A j \in 1 .. Len(Tail(q)) : Tail(q)[j] \in Waiting \ (granted[1] \union {q[1]})
        <5> SUFFICES ASSUME NEW j \in 1 .. Len(Tail(q))
                     PROVE  Tail(q)[j] \in Waiting /\ Tail(q)[j] \notin granted[1] /\ Tail(q)[j] # q[1]
          OBVIOUS
        <5>1. Tail(q)[j] = q[j + 1] /\ j + 1 \in 1 .. Len(q) /\ 1 \in 1 .. Len(q) /\ j + 1 # 1
          BY <2>1
        <5> QED
          BY <3>4, <5>1
      <4>3. granted[1] \union {q[1]} \subseteq Waiting
        <5>1. 1 \in 1 .. Len(q)
          BY <2>1
        <5> QED
          BY <3>4, <5>1
      <4>4. \A d \in Waiting : d \in granted[1] \union {q[1]} \/ \E j \in 1 .. Len(Tail(q)) : Tail(q)[j] = d
        <5> SUFFICES ASSUME NEW d \in Waiting, d \notin granted[1], d # q[1]
                     PROVE  \E j \in 1 .. Len(Tail(q)) : Tail(q)[j] = d
          OBVIOUS
        <5>1. PICK j \in 1 .. Len(q) : q[j] = d
          BY <3>4
        <5>2. j - 1 \in 1 .. Len(Tail(q)) /\ Tail(q)[j - 1] = d
          BY <2>1, <5>1
        <5> QED
          BY <5>2
      <4> QED
        BY <1>3, <3>3, <4>1, <4>2, <4>3, <4>4 DEF QueueExact
    <3>8. NoneIdle'
      BY <3>3 DEF NoneIdle
    <3> QED
      BY <3>5, <3>6, <3>7, <3>8
  <2> QED
    BY <1>1, <2>3, <2>4 DEF CustomInv, Steady
<1>7. CASE waiters[held[c]] = <<>> /\ value' = [value EXCEPT ![held[c]] = @ + 1]
           /\ UNCHANGED <<waiters, granted>>
  <2>1. CustomTypes'
    BY <1>1, <1>2, <1>3, <1>4, <1>7 DEF CustomInv, CustomTypes
  <2>2. ASSUME changes = 0, limit > 0 PROVE OneSemaphore' /\ SlotsCounted' /\ QueueExact' /\ NoneIdle'
    <3>1. OneSemaphore /\ SlotsCounted /\ QueueExact /\ NoneIdle
      BY <2>2 DEF CustomInv, Steady
    <3>2. held[c] = 1 /\ semaphore = 1
      BY <1>1, <3>1 DEF OneSemaphore
    <3>3. value'[1] = value[1] + 1 /\ waiters[1] = <<>> /\ value[1] \in Nat
      BY <1>4, <1>7, <3>2 DEF CustomInv, CustomTypes
    <3>4. Cardinality(granted[1]) \in Nat /\ Cardinality(tasks) \in Nat
      BY <1>1, FS_CardinalityType DEF CustomInv, CustomTypes
    <3>5. OneSemaphore'
      BY <1>1, <1>7, <3>1, <3>2 DEF OneSemaphore
    <3>6. SlotsCounted'
      BY <1>1, <1>2, <1>7, <3>1, <3>2, <3>3, <3>4 DEF SlotsCounted
    <3>7. QueueExact' /\ NoneIdle'
      BY <1>3, <1>7, <3>1, <3>3 DEF QueueExact, NoneIdle
    <3> QED
      BY <3>5, <3>6, <3>7
  <2> QED
    BY <1>1, <2>1, <2>2 DEF CustomInv, Steady
<1> QED
  BY <1>1, <1>5, <1>6, <1>7 DEF Custom!Release

LEMMA StepCustomInv == CustomInv /\ [Custom!Next]_(Custom!vars) => CustomInv'
<1> SUFFICES ASSUME CustomInv, [Custom!Next]_(Custom!vars) PROVE CustomInv'
  OBVIOUS
<1>0. limit \in Limits /\ limit \in Nat /\ changes \in Nat /\ call \in [Calls -> Custom!CallStates]
      /\ 0 \in Custom!Made
  BY LimitsAssumption DEF CustomInv, CustomTypes, Custom!Made
<1>1. CASE UNCHANGED Custom!vars
  BY <1>0, <1>1, CustomQuiet DEF Custom!vars
<1>2. ASSUME NEW n \in Limits, Custom!ChangeLimit(n) PROVE CustomInv'
  BY <1>0, <1>2, CustomQuiet DEF Custom!ChangeLimit
<1>3. ASSUME NEW c \in Calls, Custom!Refuse(c) PROVE CustomInv'
  <2>1. call' \in [Calls -> Custom!CallStates]
        /\ \A d \in Calls : \A s \in {"waiting", "running"} : call'[d] = s <=> call[d] = s
    BY <1>0, <1>3 DEF Custom!Refuse, Custom!CallStates
  <2> QED
    BY <1>0, <1>3, <2>1, CustomQuiet DEF Custom!Refuse
<1>4. ASSUME NEW c \in Calls, Custom!ConsumeUnlimited(c) PROVE CustomInv'
  <2>1. /\ Custom!Launch(c, 0) /\ limit = 0
        /\ UNCHANGED <<limit, changes, semaphore, sized, value, waiters, granted>>
    BY <1>4 DEF Custom!ConsumeUnlimited
  <2>2. /\ call' \in [Calls -> Custom!CallStates] /\ held' \in [Calls -> Custom!Made]
        /\ tasks' = {d \in Calls : call'[d] = "running"} /\ IsFiniteSet(tasks')
    BY <1>0, <2>1, LaunchFacts
  <2>3. CustomTypes'
    BY <2>1, <2>2 DEF CustomInv, CustomTypes
  <2> QED
    BY <2>1, <2>3 DEF CustomInv, Steady
<1>5. CASE Custom!StopCalled \/ Custom!StopReturns
  BY <1>0, <1>5, CustomQuiet DEF Custom!StopCalled, Custom!StopReturns
<1> QED
  BY <1>1, <1>2, <1>3, <1>4, <1>5, ConsumeStep, RequestEndsStep, ResumeStep DEF Custom!Next

(* datasource/localsource/custom.py: while the handler's limit stays what  *)
(* it is, at most that many requests run or are about to, and a call of    *)
(* consume() that waits while fewer do is one that a call which was handed *)
(* a slot will hand the next to.                                           *)
THEOREM CustomLimitHeld == Custom!Spec => []LimitHeld
<1>1. Custom!Init => CustomInv
  BY InitCustomInv
<1>2. CustomInv /\ [Custom!Next]_(Custom!vars) => CustomInv'
  BY StepCustomInv
<1>3. CustomInv => LimitHeld
  <2> SUFFICES ASSUME CustomInv, changes = 0, limit > 0
               PROVE  LET handed == UNION {granted[i] : i \in Custom!Made}
                      IN /\ Cardinality(tasks) + Cardinality(handed) <= limit
                         /\ Cardinality(tasks) < limit /\ handed = {} => \A c \in Calls : call[c] # "waiting"
    BY DEF LimitHeld, Custom!LimitHeld, Custom!Cardinality, Cardinality
  <2>1. OneSemaphore /\ SlotsCounted /\ QueueExact /\ NoneIdle
    BY DEF CustomInv, Steady
  <2>2. 1 \in Custom!Made /\ value[1] \in Nat /\ limit \in Nat
    BY LimitsAssumption DEF CustomInv, CustomTypes, Custom!Made
  <2>3. UNION {granted[i] : i \in Custom!Made} = granted[1]
    BY <2>1, <2>2 DEF OneSemaphore
  <2>4. Cardinality(tasks) \in Nat /\ Cardinality(granted[1]) \in Nat /\ Cardinality({}) = 0
    BY FS_CardinalityType, FS_EmptySet DEF CustomInv, CustomTypes
  <2>5. Cardinality(tasks) + Cardinality(granted[1]) <= limit
    <3>1. CASE semaphore = 0
      <4>1. Cardinality(tasks) = 0 /\ Cardinality(granted[1]) = 0
        BY <2>1, <2>4, <3>1 DEF OneSemaphore
      <4> QED
        BY <2>2, <4>1
    <3>2. CASE semaphore = 1
      BY <2>1, <2>2, <2>4, <3>2 DEF SlotsCounted
    <3> QED
      BY <2>1, <3>1, <3>2 DEF OneSemaphore
  <2>6. ASSUME Cardinality(tasks) < limit, granted[1] = {}, NEW c \in Calls PROVE call[c] # "waiting"
    <3>1. waiters[1] = <<>>
      BY <2>1, <2>2, <2>4, <2>6 DEF OneSemaphore, SlotsCounted, NoneIdle
    <3> QED
      BY <2>1, <2>6, <3>1 DEF QueueExact, Waiting
  <2> QED
    BY <2>3, <2>5, <2>6
<1> QED
  BY <1>1, <1>2, <1>3, PTL DEF Custom!Spec

(***************************************************************************)
(* The Temporal endpoint.                                                  *)
(***************************************************************************)
Executions == {"none", "running", "completed", "failed"}

TemporalTypes ==
  /\ withResult \in BOOLEAN /\ streamOf \in [Ids -> Streams]
  /\ idOf \in [Submissions -> Ids]
  /\ request \in [Submissions -> {"new", "started", "waiting", "submitted", "answered", "failed"}]
  /\ execution \in [Ids -> Executions]
  /\ foreign \in SUBSET Ids
  /\ attempt \in [Ids -> [Temporal!Attempts -> {"none", "invoking", "waiting", "returned", "raised"}]]
  /\ replying \subseteq Ids \X Temporal!Attempts

(* The entries are those of the attempts in the graph, one of a stream id. *)
EntriesTell ==
  /\ \A m \in Ids, n \in Temporal!Attempts : <<m, n>> \in replying <=> withResult /\ Temporal!Active(m, n)
  /\ \A x, y \in replying : streamOf[x[1]] = streamOf[y[1]] => x = y

(* An attempt that returned had its answer, where there are results. *)
ReturnedAnswered ==
  \A m \in Ids, n \in Temporal!Attempts :
    withResult /\ attempt[m][n] = "returned" => <<m, n>> \in answered

(* A Workflow of ours completes with an attempt that returned. *)
CompletedReturned ==
  \A m \in Ids : execution[m] = "completed" /\ m \notin foreign
    => \E n \in Temporal!Attempts : attempt[m][n] = "returned"

(* Who waits for a Workflow, or is done with it, has seen that it is ours. *)
WaitsForOurs ==
  \A r \in Submissions : request[r] \in {"waiting", "submitted", "answered"} => idOf[r] \notin foreign

AnsweredReturned ==
  \A r \in Submissions : request[r] = "answered"
    => \E n \in Temporal!Attempts : attempt[idOf[r]][n] = "returned"

TemporalInv ==
  /\ TemporalTypes /\ EntriesTell /\ ReturnedAnswered
  /\ CompletedReturned /\ WaitsForOurs /\ AnsweredReturned

LEMMA InitTemporalInv == Temporal!Init => TemporalInv
<1> SUFFICES ASSUME Temporal!Init PROVE TemporalInv
  OBVIOUS
<1> USE DEF Temporal!Init
<1>1. TemporalTypes
  BY DEF TemporalTypes, Executions
<1>2. EntriesTell
  BY DEF EntriesTell, Temporal!Active
<1>3. ReturnedAnswered /\ CompletedReturned
  BY DEF ReturnedAnswered, CompletedReturned
<1>4. WaitsForOurs /\ AnsweredReturned
  BY DEF WaitsForOurs, AnsweredReturned
<1> QED
  BY <1>1, <1>2, <1>3, <1>4 DEF TemporalInv

(* The requests of the sink. *)
LEMMA RequestStep ==
  ASSUME TemporalInv, NEW r \in Submissions, Temporal!Submit(r) \/ Temporal!Validate(r) \/ Temporal!Answer(r)
  PROVE  TemporalInv'
<1> idOf[r] \in Ids
  BY DEF TemporalInv, TemporalTypes
<1>1. UNCHANGED <<replying, attempt, answered, foreign, idOf, withResult, streamOf>>
  BY DEF Temporal!Submit, Temporal!Validate, Temporal!Answer, Temporal!setup
<1>2. EntriesTell' /\ ReturnedAnswered'
  BY <1>1 DEF TemporalInv, EntriesTell, ReturnedAnswered, Temporal!Active
<1>3. TemporalTypes'
  BY <1>1 DEF TemporalInv, TemporalTypes, Executions, Temporal!Submit, Temporal!Validate,
       Temporal!Answer, Temporal!Ask
<1>4. CompletedReturned'
  BY <1>1 DEF TemporalInv, TemporalTypes, CompletedReturned, Temporal!Submit, Temporal!Validate,
       Temporal!Answer, Executions
<1>5. WaitsForOurs'
  BY <1>1 DEF TemporalInv, TemporalTypes, WaitsForOurs, Temporal!Submit, Temporal!Validate,
       Temporal!Answer, Temporal!Ask
<1>6. AnsweredReturned'
  <2>1. ASSUME Temporal!Submit(r) \/ Temporal!Validate(r) PROVE AnsweredReturned'
    BY <1>1, <2>1 DEF TemporalInv, TemporalTypes, AnsweredReturned, Temporal!Submit,
         Temporal!Validate, Temporal!Ask
  <2>2. ASSUME Temporal!Answer(r) PROVE AnsweredReturned'
    BY <1>1, <2>2 DEF TemporalInv, TemporalTypes, AnsweredReturned, WaitsForOurs,
         CompletedReturned, Temporal!Answer, Temporal!Ask
  <2> QED
    BY <2>1, <2>2
<1> QED
  BY <1>2, <1>3, <1>4, <1>5, <1>6 DEF TemporalInv

(* Steps of the connector and the server that move no attempt. *)
LEMMA ServerStep ==
  ASSUME TemporalInv,
         \/ Temporal!Start \/ Temporal!StartAdmission \/ Temporal!StopAdmission \/ Temporal!Stop
         \/ \E m \in Ids : Temporal!Schedule(m) \/ Temporal!TimeOut(m) \/ Temporal!ForeignEnds(m)
         \/ \E i \in Streams : Temporal!ConsumeResult(i)
  PROVE  TemporalInv'
<1> USE DEF Temporal!Start, Temporal!StartAdmission, Temporal!StopAdmission, Temporal!Stop,
        Temporal!Schedule, Temporal!TimeOut, Temporal!ForeignEnds, Temporal!ConsumeResult, Temporal!Retry,
        Temporal!setup
<1>1. UNCHANGED <<replying, attempt, foreign, idOf, request, withResult, streamOf>> /\ answered \subseteq answered'
  OBVIOUS
<1>2. TemporalTypes'
  BY <1>1 DEF TemporalInv, TemporalTypes, Executions
<1>3. EntriesTell' /\ ReturnedAnswered' /\ WaitsForOurs' /\ AnsweredReturned'
  BY <1>1 DEF TemporalInv, EntriesTell, ReturnedAnswered, WaitsForOurs, AnsweredReturned, Temporal!Active
<1>4. CompletedReturned'
  <2>1. ASSUME NEW p \in Ids, p \notin foreign, execution'[p] = "completed" PROVE execution[p] = "completed"
    <3>1. CASE \E m \in Ids : Temporal!TimeOut(m)
      BY <2>1, <3>1 DEF TemporalInv, TemporalTypes
    <3>2. CASE \E m \in Ids : Temporal!ForeignEnds(m)
      BY <2>1, <3>2 DEF TemporalInv, TemporalTypes
    <3>3. CASE UNCHANGED execution
      BY <2>1, <3>3
    <3> QED
      BY <3>1, <3>2, <3>3
  <2> QED
    BY <1>1, <2>1 DEF TemporalInv, CompletedReturned
<1> QED
  BY <1>2, <1>3, <1>4 DEF TemporalInv

(* Steps of one attempt. *)
LEMMA AttemptStep ==
  ASSUME TemporalInv, NEW m \in Ids, NEW n \in Temporal!Attempts,
         Temporal!Activate(m, n) \/ Temporal!Invoked(m, n) \/ Temporal!Return(m, n) \/ Temporal!Raise(m, n)
  PROVE  TemporalInv'
<1> USE DEF Temporal!Activate, Temporal!Invoked, Temporal!Return, Temporal!Raise, Temporal!At,
        Temporal!Leave, Temporal!Retry, Temporal!Others, Temporal!Entry
<1>0. UNCHANGED <<foreign, idOf, request, answered, withResult, streamOf>> /\ attempt[m][n] # "returned"
  BY DEF Temporal!Active, Temporal!setup
<1>1. TemporalTypes'
  <2>1. attempt' \in [Ids -> [Temporal!Attempts -> {"none", "invoking", "waiting", "returned", "raised"}]]
    <3>1. PICK w \in {"invoking", "waiting", "returned", "raised"} : attempt' = [attempt EXCEPT ![m][n] = w]
      OBVIOUS
    <3> QED
      BY <3>1 DEF TemporalInv, TemporalTypes
  <2>2. replying' \subseteq Ids \X Temporal!Attempts /\ execution' \in [Ids -> Executions]
    BY DEF TemporalInv, TemporalTypes, Executions
  <2> QED
    BY <1>0, <2>1, <2>2 DEF TemporalInv, TemporalTypes
<1>2. EntriesTell'
  <2>0. /\ \A q1 \in Ids, q2 \in Temporal!Attempts : <<q1, q2>> # <<m, n>> => attempt'[q1][q2] = attempt[q1][q2]
        /\ withResult \in BOOLEAN
    BY DEF TemporalInv, TemporalTypes
  <2> USE DEF EntriesTell
  <2>1. CASE replying' = replying /\ (withResult => (Temporal!Active(m, n) <=> Temporal!Active(m, n)'))
    BY <1>0, <2>0, <2>1 DEF TemporalInv, Temporal!Active
  <2>2. CASE /\ withResult /\ replying' = replying \union {<<m, n>>} /\ Temporal!Active(m, n)'
             /\ \A x \in replying : streamOf[x[1]] # streamOf[m]
    BY <1>0, <2>0, <2>2 DEF TemporalInv, Temporal!Active
  <2>3. CASE /\ withResult /\ Temporal!Active(m, n) /\ ~Temporal!Active(m, n)'
             /\ replying' = {x \in replying : streamOf[x[1]] # streamOf[m]}
    <3>1. \A x \in replying : streamOf[x[1]] = streamOf[m] => x = <<m, n>>
      BY <2>3 DEF TemporalInv
    <3>2. <<m, n>> \notin replying' /\ \A x \in replying : x # <<m, n>> => x \in replying'
      BY <2>3, <3>1
    <3> QED
      BY <1>0, <2>0, <2>3, <3>2 DEF TemporalInv, Temporal!Active
  <2>4. CASE Temporal!Activate(m, n)
    <3>1. CASE withResult /\ Temporal!Entry(streamOf[m]) # {}
      BY <2>1, <2>4, <3>1 DEF TemporalInv, TemporalTypes, Temporal!Active
    <3>2. CASE ~withResult
      BY <2>1, <2>4, <3>2
    <3>3. CASE withResult /\ Temporal!Entry(streamOf[m]) = {}
      <4>1. \A x \in replying : streamOf[x[1]] # streamOf[m]
        BY <3>3
      <4>2. attempt'[m][n] = "invoking" /\ replying' = replying \union {<<m, n>>}
        BY <2>4, <3>3 DEF TemporalInv, TemporalTypes
      <4> QED
        BY <2>2, <3>3, <4>1, <4>2 DEF Temporal!Active
    <3> QED
      BY <2>0, <3>1, <3>2, <3>3
  <2>5. CASE Temporal!Invoked(m, n)
    BY <2>1, <2>5 DEF TemporalInv, TemporalTypes, Temporal!Active
  <2>6. CASE Temporal!Return(m, n) \/ Temporal!Raise(m, n)
    <3>1. CASE withResult
      <4>1. Temporal!Active(m, n) /\ replying' = {x \in replying : streamOf[x[1]] # streamOf[m]}
        BY <2>6, <3>1 DEF Temporal!Active
      <4>2. attempt'[m][n] \in {"returned", "raised"}
        BY <2>6 DEF TemporalInv, TemporalTypes
      <4> QED
        BY <2>3, <3>1, <4>1, <4>2 DEF Temporal!Active
    <3>2. CASE ~withResult
      BY <2>1, <2>6, <3>2
    <3> QED
      BY <2>0, <3>1, <3>2
  <2> QED
    BY <2>4, <2>5, <2>6
<1>3. ReturnedAnswered'
  <2> SUFFICES ASSUME NEW p \in Ids, NEW q \in Temporal!Attempts, withResult, attempt'[p][q] = "returned"
               PROVE  <<p, q>> \in answered
    BY <1>0 DEF ReturnedAnswered
  <2>1. CASE p = m /\ q = n
    BY <2>1 DEF TemporalInv, TemporalTypes
  <2>2. CASE ~(p = m /\ q = n)
    <3>1. attempt'[p][q] = attempt[p][q]
      BY <2>2 DEF TemporalInv, TemporalTypes
    <3> QED
      BY <3>1 DEF TemporalInv, ReturnedAnswered
  <2> QED
    BY <2>1, <2>2
<1>4. \A p \in Ids, q \in Temporal!Attempts : attempt[p][q] = "returned" => attempt'[p][q] = "returned"
  <2>1. PICK w \in {"invoking", "waiting", "returned", "raised"} : attempt' = [attempt EXCEPT ![m][n] = w]
    OBVIOUS
  <2> QED
    BY <1>0, <2>1 DEF TemporalInv, TemporalTypes
<1>5. CompletedReturned'
  <2> SUFFICES ASSUME NEW p \in Ids, execution'[p] = "completed", p \notin foreign
               PROVE  \E q \in Temporal!Attempts : attempt'[p][q] = "returned"
    BY <1>0 DEF CompletedReturned
  <2>1. CASE execution[p] = "completed"
    BY <1>4, <2>1 DEF TemporalInv, CompletedReturned
  <2>2. CASE execution[p] # "completed"
    <3>1. p = m /\ Temporal!Return(m, n)
      BY <2>2 DEF TemporalInv, TemporalTypes
    <3> QED
      BY <3>1 DEF TemporalInv, TemporalTypes
  <2> QED
    BY <2>1, <2>2
<1>6. WaitsForOurs' /\ AnsweredReturned'
  BY <1>0, <1>4 DEF TemporalInv, TemporalTypes, WaitsForOurs, AnsweredReturned
<1> QED
  BY <1>1, <1>2, <1>3, <1>5, <1>6 DEF TemporalInv

LEMMA StepTemporalInv == TemporalInv /\ [Temporal!Next]_(Temporal!vars) => TemporalInv'
<1> SUFFICES ASSUME TemporalInv, [Temporal!Next]_(Temporal!vars) PROVE TemporalInv'
  OBVIOUS
<1>1. CASE UNCHANGED Temporal!vars
  BY <1>1 DEF TemporalInv, TemporalTypes, EntriesTell, ReturnedAnswered, CompletedReturned,
       WaitsForOurs, AnsweredReturned, Temporal!Active, Temporal!vars, Temporal!setup
<1>2. CASE Temporal!Next
  BY <1>2, RequestStep, ServerStep, AttemptStep DEF Temporal!Next
<1> QED
  BY <1>1, <1>2

(* datasource/temporal/temporal.py: however often the server times an      *)
(* attempt out and tries again, however many submissions there are of one  *)
(* message and whichever messages share a stream id, with a result stream  *)
(* one attempt of an id at a time is in the graph and results reach its    *)
(* future; with or without, only an attempt that returned answers.         *)
THEOREM SharedExecution == Temporal!Spec => []OneExecution
<1>1. Temporal!Init => TemporalInv
  BY InitTemporalInv
<1>2. TemporalInv /\ [Temporal!Next]_(Temporal!vars) => TemporalInv'
  BY StepTemporalInv
<1>3. TemporalInv => OneExecution
  BY DEF TemporalInv, OneExecution, Temporal!OneExecution, EntriesTell, AnsweredReturned,
       WaitsForOurs, ReturnedAnswered, TemporalTypes
<1> QED
  BY <1>1, <1>2, <1>3, PTL DEF Temporal!Spec

(***************************************************************************)
(* The activation of a graph in a Workflow.                                *)
(***************************************************************************)
FlowTypes ==
  /\ work \in [Work -> {"none", "queued", "running", "returned", "raised"}]
  /\ workTasks \subseteq Work /\ awaiting \subseteq Work
  /\ awaited \in [tasks : SUBSET Work, pool : BOOLEAN]
  /\ failure \in BOOLEAN

(* Work of the graph that is under way is known to its pool or to the      *)
(* environment, and so is work that has failed, until the failure is on    *)
(* record.                                                                 *)
NoneForgotten ==
  \A w \in Work :
    /\ work[w] = "queued" => w \in PoolWork /\ w \in awaiting
    /\ work[w] = "running" => w \in (IF w \in PoolWork THEN awaiting ELSE workTasks)
    /\ work[w] = "raised" => failure \/ (w \notin PoolWork /\ w \in workTasks)

(* The execution succeeds with its result, and is over when nothing it     *)
(* knows of is left.                                                       *)
Concluded ==
  /\ endpoint = "quiescing" \/ outcome = "ok" => (wantsResult => result)
  /\ endpoint \in {"stopping", "over"} => awaited.tasks = {}
  /\ endpoint = "over" /\ outcome = "ok" => workTasks = {} /\ awaiting = {} /\ ~failure

FlowInv == FlowTypes /\ NoneForgotten /\ Concluded

LEMMA InitFlowInv == Flow!Init => FlowInv
<1> SUFFICES ASSUME Flow!Init PROVE FlowInv OBVIOUS
<1>1. FlowTypes
  BY DEF Flow!Init, Flow!NothingAwaited, FlowTypes
<1>2. NoneForgotten /\ Concluded
  BY DEF Flow!Init, NoneForgotten, Concluded
<1> QED BY <1>1, <1>2 DEF FlowInv

(* The graph works, until the endpoint is over.                            *)
LEMMA GraphStep ==
  ASSUME FlowInv, NEW w \in Work, Flow!Spawn(w) \/ Flow!Take(w) \/ Flow!End(w) \/ Flow!Complete(w)
  PROVE  FlowInv'
<1> USE DEF Flow!Become
<1>1. CASE Flow!Spawn(w)
  BY <1>1 DEF Flow!Spawn, FlowInv, FlowTypes, NoneForgotten, Concluded
<1>2. CASE Flow!Take(w)
  BY <1>2 DEF Flow!Take, FlowInv, FlowTypes, NoneForgotten, Concluded
<1>3. CASE Flow!End(w)
  <2>1. PICK end \in {"returned", "raised"} :
          /\ work' = [work EXCEPT ![w] = end]
          /\ IF w \in PoolWork THEN Flow!PoolDone(w, end) ELSE UNCHANGED <<awaiting, failure, awaited>>
    BY <1>3 DEF Flow!End
  <2>2. endpoint # "over" /\ work[w] = "running"
        /\ UNCHANGED <<endpoint, outcome, wantsResult, result, workTasks>>
    BY <1>3 DEF Flow!End
  <2>3. FlowTypes' /\ awaited'.tasks = awaited.tasks
    BY <2>1, <2>2 DEF Flow!PoolDone, FlowInv, FlowTypes
  <2>4. NoneForgotten'
    BY <2>1, <2>2 DEF Flow!PoolDone, FlowInv, FlowTypes, NoneForgotten
  <2>5. Concluded'
    BY <2>2, <2>3 DEF FlowInv, Concluded
  <2> QED BY <2>3, <2>4, <2>5 DEF FlowInv
<1>4. CASE Flow!Complete(w)
  BY <1>4 DEF Flow!Complete, Flow!Raised, Flow!Ended, FlowInv, FlowTypes, NoneForgotten, Concluded
<1> QED BY <1>1, <1>2, <1>3, <1>4

(* The endpoint runs the graph, waits for it and winds it up.              *)
LEMMA EndpointStep ==
  ASSUME FlowInv, Flow!Produce \/ Flow!Activated \/ Flow!Winding PROVE FlowInv'
<1> USE DEF Flow!Go, Flow!Quiescing, Flow!NothingAwaited
<1>1. CASE Flow!Produce
  BY <1>1 DEF Flow!Produce, FlowInv, FlowTypes, NoneForgotten, Concluded
<1>2. CASE Flow!Activated
  BY <1>2 DEF Flow!Activated, FlowInv, FlowTypes, NoneForgotten, Concluded
<1>3. CASE Flow!Await
  BY <1>3 DEF Flow!Await, FlowInv, FlowTypes, NoneForgotten, Concluded
<1>4. CASE Flow!QuiesceRaises
  BY <1>4 DEF Flow!QuiesceRaises, FlowInv, FlowTypes, NoneForgotten, Concluded
<1>5. CASE Flow!QuiesceAwaits
  BY <1>5 DEF Flow!QuiesceAwaits, FlowInv, FlowTypes, NoneForgotten, Concluded
<1>6. CASE Flow!AwaitedTasksEnd
  BY <1>6 DEF Flow!AwaitedTasksEnd, FlowInv, FlowTypes, NoneForgotten, Concluded
<1>7. CASE Flow!Quiesced
  BY <1>7 DEF Flow!Quiesced, FlowInv, FlowTypes, NoneForgotten, Concluded
<1>8. CASE Flow!Finished
  BY <1>8 DEF Flow!Finished, FlowInv, FlowTypes, NoneForgotten, Concluded
<1> QED BY <1>1, <1>2, <1>3, <1>4, <1>5, <1>6, <1>7, <1>8 DEF Flow!Winding

(* datasource/temporal/workflow_environment.py: however the branches of a  *)
(* graph, its result and the endpoint that waits for them interleave, an   *)
(* execution that succeeds has its result, has left no work behind, and    *)
(* none of its work has failed.                                            *)
THEOREM NoFailureHidden == Flow!Spec => []FailureNotHidden
<1>1. FlowInv /\ [Flow!Next]_(Flow!vars) => FlowInv'
  <2> SUFFICES ASSUME FlowInv, [Flow!Next]_(Flow!vars) PROVE FlowInv' OBVIOUS
  <2>1. CASE UNCHANGED Flow!vars
    BY <2>1 DEF Flow!vars, FlowInv, FlowTypes, NoneForgotten, Concluded
  <2> QED BY <2>1, GraphStep, EndpointStep DEF Flow!Next
<1>2. FlowInv => FailureNotHidden
  BY DEF FlowInv, FlowTypes, NoneForgotten, Concluded, FailureNotHidden, Flow!FailureNotHidden
<1> QED BY <1>1, <1>2, InitFlowInv, PTL DEF Flow!Spec

(* What the pool and the environment know of is under way or has just      *)
(* ended, and the pool is awaited only while it has work.                  *)
Accounted ==
  /\ \A w \in awaiting : w \in PoolWork /\ work[w] \in {"queued", "running"}
  /\ \A w \in workTasks : work[w] \in {"running", "returned", "raised"}
  /\ awaited.pool => awaiting # {}
  /\ \A w \in awaited.tasks : work[w] \in {"running", "returned", "raised"}
                           /\ (work[w] = "running" => w \in workTasks)

(* A step of the graph or of the endpoint keeps the accounts.              *)
LEMMA AccountedStep ==
  ASSUME FlowInv, Accounted, Flow!Next PROVE Accounted'
<1> USE DEF Accounted, FlowInv, FlowTypes, NoneForgotten
<1>1. ASSUME NEW w \in Work, Flow!Spawn(w) \/ Flow!Take(w) \/ Flow!Complete(w) PROVE Accounted'
  <2>1. CASE Flow!Spawn(w)
    BY <2>1 DEF Flow!Spawn, Flow!Become
  <2>2. CASE Flow!Take(w)
    BY <2>2 DEF Flow!Take, Flow!Become
  <2>3. CASE Flow!Complete(w)
    BY <2>3 DEF Flow!Complete, Flow!Ended
  <2> QED BY <1>1, <2>1, <2>2, <2>3
<1>2. ASSUME NEW w \in Work, Flow!End(w) PROVE Accounted'
  <2>1. PICK end \in {"returned", "raised"} :
          /\ work' = [work EXCEPT ![w] = end]
          /\ IF w \in PoolWork THEN Flow!PoolDone(w, end) ELSE UNCHANGED <<awaiting, failure, awaited>>
    BY <1>2 DEF Flow!End, Flow!Become
  <2>2. work[w] = "running" /\ workTasks' = workTasks
    BY <1>2 DEF Flow!End
  <2>3. /\ awaited'.tasks = awaited.tasks
        /\ awaiting' = IF w \in PoolWork THEN awaiting \ {w} ELSE awaiting
        /\ awaited'.pool => awaiting' # {}
    BY <2>1 DEF Flow!PoolDone
  <2>4. w \notin PoolWork => w \notin awaiting
    OBVIOUS
  <2> QED BY <2>1, <2>2, <2>3, <2>4
<1>3. ASSUME Flow!Produce \/ Flow!Activated \/ Flow!Winding PROVE Accounted'
  <2>1. UNCHANGED <<work, workTasks, awaiting>>
    BY <1>3 DEF Flow!Produce, Flow!Activated, Flow!Winding, Flow!Await, Flow!QuiesceRaises, Flow!QuiesceAwaits,
                Flow!AwaitedTasksEnd, Flow!Quiesced, Flow!Finished
  <2>2. \/ awaited' = awaited
        \/ awaited' = [tasks |-> workTasks, pool |-> awaiting # {}]
        \/ awaited' = [awaited EXCEPT !.tasks = {}]
    BY <1>3 DEF Flow!Produce, Flow!Activated, Flow!Winding, Flow!Await, Flow!QuiesceRaises, Flow!QuiesceAwaits,
                Flow!AwaitedTasksEnd, Flow!Quiesced, Flow!Finished
  <2> QED BY <2>1, <2>2
<1> QED BY <1>1, <1>2, <1>3 DEF Flow!Next

(* datasource/temporal/workflow_environment.py: whatever the branches of a *)
(* graph do, the endpoint waits only for work that is under way, and a     *)
(* failure that is not on record still has its callback to come.           *)
THEOREM WorkIsAccounted == Flow!Spec => []Flow!WorkAccounted
<1>1. Flow!Init => FlowInv /\ Accounted
  BY InitFlowInv DEF Flow!Init, Flow!NothingAwaited, Accounted
<1>2. FlowInv /\ Accounted /\ [Flow!Next]_(Flow!vars) => (FlowInv /\ Accounted)'
  <2> SUFFICES ASSUME FlowInv, Accounted, [Flow!Next]_(Flow!vars) PROVE (FlowInv /\ Accounted)' OBVIOUS
  <2>1. CASE UNCHANGED Flow!vars
    BY <2>1 DEF Flow!vars, FlowInv, FlowTypes, NoneForgotten, Concluded, Accounted
  <2> QED BY <2>1, GraphStep, EndpointStep, AccountedStep DEF Flow!Next
<1>3. FlowInv /\ Accounted => Flow!WorkAccounted
  BY DEF FlowInv, FlowTypes, NoneForgotten, Accounted, Flow!WorkAccounted, Flow!Ended, Flow!Raised
<1> QED BY <1>1, <1>2, <1>3, PTL DEF Flow!Spec

(***************************************************************************)
(* The occurrences of a cron endpoint.                                     *)
(***************************************************************************)
Places == {"none", "created", "between", "firing", "over"}

CronTypes ==
  /\ now \in Nat /\ due \in Nat /\ expected \in Nat
  /\ cronStarted \in BOOLEAN /\ accepting \in BOOLEAN /\ shutdown \in {"none", "draining", "done"}
  /\ scheduled \in Seq(Nat)
  /\ run \in [Runs -> [at : Places, times : Seq(Nat), slot : Nat, backlog : BOOLEAN, got : Nat]]

(* A scheduler that is stopped submits nothing, and one that is not        *)
(* started has no task.                                                    *)
Quiet ==
  /\ due # 0 => cronStarted
  /\ shutdown # "none" => ~accepting /\ due = 0
  /\ shutdown = "done" => ~cronStarted
  /\ ~cronStarted => ~accepting /\ \A r \in Runs : run[r].at \notin {"created", "between", "firing"}

(* A task of a coalescing endpoint has one run time, a slot before the     *)
(* next one, and none when it has begun.                                   *)
OneTime ==
  \A r \in Runs :
    /\ run[r].at \notin {"none", "between"} => run[r].slot > 0
    /\ run[r].at = "created" => Len(run[r].times) = 1 /\ (due # 0 => run[r].slot < due)
    /\ run[r].at = "firing" => run[r].times = <<>>
    /\ run[r].at # "between"

(* What a task of a coalescing endpoint is to take from the queue.         *)
Occurrence(r) == IF interval /\ skipMissed /\ run[r].backlog THEN Cron!Skipped ELSE run[r].slot

(* The tasks that have not begun, in the order they were made, each with   *)
(* its occurrence in the queue.                                            *)
Awaiting(order) ==
  /\ order \in Seq(Runs) /\ Len(order) = Len(scheduled)
  /\ \A i, j \in 1 .. Len(order) : i < j => run[order[i]].slot < run[order[j]].slot
  /\ \A r \in Runs : run[r].at = "created" => \E i \in 1 .. Len(order) : order[i] = r
  /\ \A i \in 1 .. Len(order) : run[order[i]].at = "created" /\ scheduled[i] = Occurrence(order[i])

CronInv ==
  /\ CronTypes /\ Quiet
  /\ Cron!Coalesced => OneTime
  /\ Cron!Coalesced /\ ~cronStarted => scheduled = <<>>
  /\ Cron!Coalesced /\ accepting => \E order \in Seq(Runs) : Awaiting(order)
  /\ FiresOwnOccurrence


LEMMA InitCronInv == Cron!Init => CronInv
<1> SUFFICES ASSUME Cron!Init PROVE CronInv OBVIOUS
<1>1. run \in [Runs -> [at : Places, times : Seq(Nat), slot : Nat, backlog : BOOLEAN, got : Nat]]
  <2>1. Cron!NoRun \in [at : Places, times : Seq(Nat), slot : Nat, backlog : BOOLEAN, got : Nat]
    BY <<>> \in Seq(Nat) DEF Cron!NoRun, Places
  <2> QED BY <2>1 DEF Cron!Init
<1>0. CronTypes
  BY <1>1, <<>> \in Seq(Nat) DEF Cron!Init, CronTypes
<1>2. Quiet /\ OneTime /\ FiresOwnOccurrence /\ ~accepting /\ scheduled = <<>>
  BY DEF Cron!Init, Cron!NoRun, Quiet, OneTime, FiresOwnOccurrence, Cron!FiresOwnOccurrence
<1> QED BY <1>0, <1>2 DEF CronInv

(* No task is made or goes on, and the queue stays what it is.             *)
LEMMA CronIdleStep ==
  ASSUME CronInv, UNCHANGED <<interval, skipMissed, skipOverlap, scheduled, run>>,
         CronTypes', Quiet',
         ~cronStarted' => ~cronStarted, accepting' => accepting \/ ~cronStarted,
         \A r \in Runs : due' # due /\ due' # 0 /\ run[r].at = "created" => run[r].slot < due'
  PROVE  CronInv'
<1>1. Cron!Coalesced' = Cron!Coalesced
  BY DEF Cron!Coalesced
<1>2. ASSUME Cron!Coalesced PROVE OneTime'
  BY <1>2 DEF CronInv, OneTime
<1>3. ASSUME Cron!Coalesced, accepting' PROVE (\E order \in Seq(Runs) : Awaiting(order))'
  <2>1. PICK order \in Seq(Runs) : Awaiting(order)
    <3>1. CASE accepting
      BY <1>3, <3>1 DEF CronInv
    <3>2. CASE ~cronStarted
      <4>1. scheduled = <<>> /\ \A r \in Runs : run[r].at # "created"
        BY <1>3, <3>2 DEF CronInv, Quiet
      <4>2. <<>> \in Seq(Runs) /\ Len(<<>>) = 0 /\ 1 .. 0 = {}
        OBVIOUS
      <4>3. Awaiting(<<>>)
        BY ONLY <4>1, <4>2 DEF Awaiting
      <4> QED BY <4>2, <4>3
    <3> QED BY <1>3, <3>1, <3>2
  <2>2. Awaiting(order)'
    BY <2>1 DEF Awaiting, Occurrence
  <2> QED BY <2>2
<1>4. FiresOwnOccurrence'
  BY <1>1 DEF CronInv, FiresOwnOccurrence, Cron!FiresOwnOccurrence
<1> QED BY <1>1, <1>2, <1>3, <1>4 DEF CronInv

(* Starting and stopping the scheduler, the clock, and a run that was      *)
(* rejected for overlap.                                                   *)
LEMMA CronControlStep ==
  ASSUME CronInv,
         Cron!Start \/ Cron!Tick \/ Cron!Overlap \/ \E c \in Callers : Cron!Stop(c) \/ Cron!GiveUp(c) \/ Cron!StopReturns(c)
  PROVE  CronInv'
<1> USE DEF Cron!policy
<1>1. CASE Cron!Start
  <2>1. CronTypes' /\ Quiet'
    BY <1>1 DEF Cron!Start, CronInv, CronTypes, Quiet
  <2>2. \A r \in Runs : run[r].at # "created"
    BY <1>1 DEF Cron!Start, CronInv, Quiet
  <2> QED BY <1>1, <2>1, <2>2, CronIdleStep DEF Cron!Start
<1>2. CASE Cron!Tick
  <2>1. CronTypes' /\ Quiet'
    BY <1>2 DEF Cron!Tick, CronInv, CronTypes, Quiet
  <2> QED BY <1>2, <2>1, CronIdleStep DEF Cron!Tick
<1>3. CASE Cron!Overlap
  <2>1. CronTypes' /\ Quiet'
    BY <1>3 DEF Cron!Overlap, CronInv, CronTypes, Quiet
  <2>2. CASE Cron!Coalesced
    <3>1. \A r \in Runs : run[r].at = "created" => run[r].slot < due'
      BY <1>3, <2>2 DEF Cron!Overlap, CronInv, CronTypes, OneTime
    <3> QED BY <1>3, <2>1, <3>1, CronIdleStep DEF Cron!Overlap
  <2>3. CASE ~Cron!Coalesced
    BY <1>3, <2>1, <2>3 DEF Cron!Overlap, CronInv, FiresOwnOccurrence, Cron!FiresOwnOccurrence, Cron!Coalesced
  <2> QED BY <2>2, <2>3
<1>4. ASSUME NEW c \in Callers, Cron!Stop(c) PROVE CronInv'
  <2>0. UNCHANGED <<interval, skipMissed, skipOverlap, now, scheduled, expected, run, cronStarted>>
    BY <1>4 DEF Cron!Stop
  <2>1. CASE UNCHANGED <<accepting, due, shutdown>>
    <3>1. CronTypes' /\ Quiet'
      BY <2>0, <2>1 DEF CronInv, CronTypes, Quiet
    <3> QED BY <2>0, <2>1, <3>1, CronIdleStep
  <2>2. CASE Cron!StopAdmission
    <3>1. CronTypes' /\ Quiet'
      BY <2>0, <2>2 DEF Cron!StopAdmission, CronInv, CronTypes, Quiet
    <3> QED BY <2>0, <2>2, <3>1, CronIdleStep DEF Cron!StopAdmission
  <2> QED BY <1>4, <2>1, <2>2 DEF Cron!Stop
<1>5. ASSUME NEW c \in Callers, Cron!GiveUp(c) \/ Cron!StopReturns(c) PROVE CronInv'
  <2>1. UNCHANGED <<interval, skipMissed, skipOverlap, now, cronStarted, shutdown, due, accepting, scheduled, expected, run>>
    BY <1>5 DEF Cron!GiveUp, Cron!StopReturns
  <2>2. CronTypes' /\ Quiet'
    BY <2>1 DEF CronInv, CronTypes, Quiet
  <2> QED BY <2>1, <2>2, CronIdleStep
<1> QED BY <1>1, <1>2, <1>3, <1>4, <1>5

(* A schedule that does not coalesce has nothing to show but its types.    *)
LEMMA CronPlainStep ==
  ASSUME CronInv, ~Cron!Coalesced, UNCHANGED Cron!policy, CronTypes', Quiet' PROVE CronInv'
BY DEF CronInv, Cron!policy, Cron!Coalesced, FiresOwnOccurrence, Cron!FiresOwnOccurrence

LEMMA RunTypes ==
  ASSUME CronTypes, NEW r \in Runs, NEW new, new \in [at : Places, times : Seq(Nat), slot : Nat, backlog : BOOLEAN, got : Nat],
         run' = [run EXCEPT ![r] = new]
  PROVE  /\ run' \in [Runs -> [at : Places, times : Seq(Nat), slot : Nat, backlog : BOOLEAN, got : Nat]]
         /\ run'[r] = new /\ \A q \in Runs \ {r} : run'[q] = run[q]
BY DEF CronTypes

(* A submission makes a task and puts its occurrence at the end.           *)
LEMMA CronSubmitStep == ASSUME CronInv, NEW r \in Runs, Cron!Submit(r) PROVE CronInv'
<1> DEFINE new == [at |-> "created", times |-> Cron!DueTimes, slot |-> now, backlog |-> now > expected, got |-> 0]
<1>0. /\ UNCHANGED <<interval, skipMissed, skipOverlap, now, cronStarted, shutdown, accepting>>
      /\ due # 0 /\ due <= now /\ run[r].at = "none" /\ run' = [run EXCEPT ![r] = new]
      /\ scheduled' = Cron!Noted /\ due' = now + 1 /\ expected' = now + 1
  BY DEF Cron!Submit, Cron!policy
<1>1. Cron!DueTimes \in Seq(Nat)
  <2>1. CASE Cron!Coalesced
    <3>1. now \in Nat
      BY DEF CronInv, CronTypes
    <3>2. <<now>> \in Seq(Nat)
      BY <3>1
    <3> QED BY <2>1, <3>2 DEF Cron!DueTimes
  <2>2. CASE ~Cron!Coalesced
    <3> DEFINE n == now - due + 1
    <3>1. n \in Nat /\ \A i \in 1 .. n : due + i - 1 \in Nat
      BY <1>0 DEF CronInv, CronTypes
    <3>2. Cron!DueTimes = [i \in 1 .. n |-> due + i - 1]
      BY <2>2 DEF Cron!DueTimes
    <3> HIDE DEF n
    <3>3. Cron!DueTimes \in [1 .. n -> Nat]
      BY <3>1, <3>2
    <3> QED BY <3>1, <3>3, SeqDef
  <2> QED BY <2>1, <2>2
<1>2. new \in [at : Places, times : Seq(Nat), slot : Nat, backlog : BOOLEAN, got : Nat]
  BY <1>1 DEF CronInv, CronTypes, Places
<1> HIDE DEF new
<1>3. /\ run' \in [Runs -> [at : Places, times : Seq(Nat), slot : Nat, backlog : BOOLEAN, got : Nat]]
      /\ run'[r] = new /\ \A q \in Runs \ {r} : run'[q] = run[q]
  BY <1>0, <1>2, RunTypes DEF CronInv
<1>4. new.at = "created" /\ new.times = Cron!DueTimes /\ new.slot = now /\ new.backlog = (now > expected)
  BY DEF new
<1>5. scheduled' \in Seq(Nat)
  BY <1>0, <1>1 DEF Cron!Noted, Cron!Admission, Cron!Skipped, CronInv, CronTypes
<1>6. CronTypes'
  BY <1>0, <1>3, <1>5 DEF CronInv, CronTypes
<1>7. Quiet'
  BY <1>0, <1>3, <1>4 DEF CronInv, CronTypes, Quiet
<1>8. CASE Cron!Coalesced
  <2>1. Cron!DueTimes = <<now>> /\ now > 0
    BY <1>0, <1>8 DEF CronInv, CronTypes, Cron!DueTimes
  <2>2. OneTime'
    <3>1. /\ run'[r].slot > 0 /\ run'[r].slot < due' /\ Len(run'[r].times) = 1
          /\ run'[r].at = "created"
      <4>1. now \in Nat /\ Len(<<now>>) = 1
        BY DEF CronInv, CronTypes
      <4>2. new.at = "created" /\ new.times = <<now>> /\ new.slot = now
        BY <1>4, <2>1
      <4> QED BY <1>0, <1>3, <2>1, <4>1, <4>2
    <3>2. ASSUME NEW q \in Runs, q # r, run[q].at = "created" PROVE run[q].slot < due'
      BY <1>0, <1>8, <3>2 DEF CronInv, CronTypes, OneTime
    <3> QED BY <1>3, <1>8, <3>1, <3>2 DEF CronInv, OneTime
  <2>3. cronStarted'
    BY <1>0 DEF CronInv, Quiet
  <2>4. ASSUME accepting PROVE (\E order \in Seq(Runs) : Awaiting(order))'
    <3>1. PICK order \in Seq(Runs) : Awaiting(order)
      BY <1>8, <2>4 DEF CronInv
    <3> DEFINE next == Append(order, r)
    <3>2. scheduled' = Append(scheduled, Occurrence(r)')
      BY <1>0, <1>1, <1>3, <1>4, <1>8, <2>1 DEF Cron!Noted, Cron!Admission, Occurrence,
           Cron!Skipped, Cron!Coalesced, CronInv,
         CronTypes
    <3>3. /\ next \in Seq(Runs) /\ Len(next) = Len(order) + 1 /\ Len(order) \in Nat
          /\ next[Len(order) + 1] = r /\ \A i \in 1 .. Len(order) : next[i] = order[i] /\ order[i] \in Runs
      OBVIOUS
    <3>4. /\ Len(scheduled') = Len(scheduled) + 1 /\ scheduled'[Len(scheduled) + 1] = Occurrence(r)'
          /\ \A i \in 1 .. Len(scheduled) : scheduled'[i] = scheduled[i]
      BY <3>2 DEF CronInv, CronTypes
    <3>5. \A i \in 1 .. Len(order) : order[i] # r
      BY <1>0, <3>1 DEF Awaiting
    <3>6. \A q \in Runs \ {r} : Occurrence(q)' = Occurrence(q)
      BY <1>0, <1>3 DEF Occurrence
    <3> HIDE DEF next
    <3>7. \A i \in 1 .. Len(order) : run'[order[i]] = run[order[i]] /\ run[order[i]].at = "created"
      BY <1>3, <3>1, <3>3, <3>5 DEF Awaiting
    <3>8. \A i, j \in 1 .. Len(next) : i < j => run'[next[i]].slot < run'[next[j]].slot
      <4> SUFFICES ASSUME NEW i \in 1 .. Len(next), NEW j \in 1 .. Len(next), i < j
                   PROVE  run'[next[i]].slot < run'[next[j]].slot
        OBVIOUS
      <4>1. i \in 1 .. Len(order) /\ next[i] = order[i] /\ run'[next[i]] = run[order[i]]
        BY <3>3, <3>7
      <4>2. CASE j = Len(order) + 1
        <5>1. run[order[i]].slot < due /\ run[order[i]].slot \in Nat
          BY <1>0, <1>8, <3>3, <3>7, <4>1 DEF CronInv, OneTime, CronTypes
        <5>2. run'[next[j]].slot = now
          BY <1>3, <1>4, <3>3, <4>2
        <5>3. due \in Nat /\ now \in Nat
          BY DEF CronInv, CronTypes
        <5>4. run'[next[i]].slot = run[order[i]].slot
          BY <4>1
        <5> QED BY <1>0, <5>1, <5>2, <5>3, <5>4
      <4>3. CASE j # Len(order) + 1
        <5>1. j \in 1 .. Len(order)
          BY <3>3, <4>3
        <5> QED BY <3>1, <3>3, <3>7, <4>1, <5>1 DEF Awaiting
      <4> QED BY <4>2, <4>3
    <3>9. \A q \in Runs : run'[q].at = "created" => \E i \in 1 .. Len(next) : next[i] = q
      <4> SUFFICES ASSUME NEW q \in Runs, run'[q].at = "created" PROVE \E i \in 1 .. Len(next) : next[i] = q
        OBVIOUS
      <4>1. CASE q = r
        BY <3>3, <4>1
      <4>2. CASE q # r
        <5>1. PICK i \in 1 .. Len(order) : order[i] = q
          BY <1>3, <3>1, <4>2 DEF Awaiting
        <5> QED BY <3>3, <5>1
      <4> QED BY <4>1, <4>2
    <3>10. \A i \in 1 .. Len(next) : run'[next[i]].at = "created" /\ scheduled'[i] = Occurrence(next[i])'
      <4> SUFFICES ASSUME NEW i \in 1 .. Len(next)
                   PROVE  run'[next[i]].at = "created" /\ scheduled'[i] = Occurrence(next[i])'
        OBVIOUS
      <4>1. CASE i = Len(order) + 1
        BY <1>3, <1>4, <3>1, <3>3, <3>4, <4>1 DEF Awaiting
      <4>2. CASE i # Len(order) + 1
        <5>1. i \in 1 .. Len(order) /\ next[i] = order[i] /\ order[i] \in Runs \ {r}
          BY <3>3, <3>5, <4>2
        <5> QED BY <3>1, <3>4, <3>6, <3>7, <5>1 DEF Awaiting
      <4> QED BY <4>1, <4>2
    <3>11. Len(next) = Len(scheduled')
      BY <3>1, <3>3, <3>4 DEF Awaiting
    <3>12. Awaiting(next)'
      BY ONLY <3>3, <3>8, <3>9, <3>10, <3>11 DEF Awaiting, Occurrence
    <3> QED BY <3>3, <3>12
  <2>5. FiresOwnOccurrence'
    BY <1>0, <1>3, <1>4 DEF CronInv, FiresOwnOccurrence, Cron!FiresOwnOccurrence, Cron!Coalesced
  <2> QED BY <1>0, <1>6, <1>7, <2>2, <2>3, <2>4, <2>5 DEF CronInv
<1>9. CASE ~Cron!Coalesced
  BY <1>0, <1>6, <1>7, <1>9, CronPlainStep DEF Cron!policy
<1> QED BY <1>8, <1>9

(* A task that begins is the first one of the order, and takes the         *)
(* occurrence that was put in the queue for it.                            *)
LEMMA CronFireStep == ASSUME CronInv, NEW r \in Runs, NEW n \in 1 .. MaxTime, Cron!Fire(r, n) PROVE CronInv'
<1> DEFINE rest == SubSeq(run[r].times, n + 1, Len(run[r].times))
           taking == accepting /\ scheduled # <<>>
           place == IF taking /\ Head(scheduled) # Cron!Skipped THEN "firing" ELSE Cron!Left(rest)
           new == [run[r] EXCEPT !.times = rest, !.got = IF taking THEN Head(scheduled) ELSE @, !.at = place]
<1>0. /\ UNCHANGED <<interval, skipMissed, skipOverlap, now, cronStarted, shutdown, due, accepting, expected>>
      /\ Cron!Runnable(r) /\ n \in DOMAIN run[r].times /\ (Cron!Coalesced => n = 1)
      /\ run' = [run EXCEPT ![r] = new]
      /\ scheduled' = IF taking THEN Tail(scheduled) ELSE scheduled
  BY DEF Cron!Fire, Cron!policy, CronInv, CronTypes
<1>1. /\ run[r] \in [at : Places, times : Seq(Nat), slot : Nat, backlog : BOOLEAN, got : Nat]
      /\ scheduled \in Seq(Nat)
  BY DEF CronInv, CronTypes
<1>2. rest \in Seq(Nat)
  <2> DEFINE times == run[r].times
  <2>1. times \in Seq(Nat) /\ n \in 1 .. Len(times)
    BY <1>0, <1>1
  <2>2. rest = SubSeq(times, n + 1, Len(times))
    OBVIOUS
  <2> HIDE DEF times, rest
  <2>3. \A i \in (n + 1) .. Len(times) : times[i] \in Nat
    BY <2>1
  <2> QED BY <2>1, <2>2, <2>3
<1>3. place \in {"firing", "over", "between"}
  BY DEF Cron!Left
<1>4. scheduled # <<>> => Head(scheduled) \in Nat /\ Tail(scheduled) \in Seq(Nat)
  BY <1>1
<1> HIDE DEF rest, place
<1>5. /\ new \in [at : Places, times : Seq(Nat), slot : Nat, backlog : BOOLEAN, got : Nat]
      /\ new.at = place /\ new.times = rest /\ new.slot = run[r].slot /\ new.backlog = run[r].backlog
      /\ taking => new.got = Head(scheduled)
  BY <1>1, <1>2, <1>3, <1>4 DEF Places
<1> HIDE DEF new
<1>6. /\ run' \in [Runs -> [at : Places, times : Seq(Nat), slot : Nat, backlog : BOOLEAN, got : Nat]]
      /\ run'[r] = new /\ \A q \in Runs \ {r} : run'[q] = run[q]
  BY <1>0, <1>5, RunTypes DEF CronInv
<1>7. CronTypes'
  BY <1>0, <1>4, <1>6 DEF CronInv, CronTypes
<1>8. Quiet'
  BY <1>0, <1>6 DEF CronInv, Quiet, Cron!Runnable
<1>9. CASE Cron!Coalesced
  <2>1. run[r].at = "created" /\ Len(run[r].times) = 1 /\ run[r].slot > 0
    BY <1>0, <1>9 DEF Cron!Runnable, CronInv, OneTime
  <2>2. rest = <<>>
    BY <1>0, <1>1, <1>9, <2>1 DEF rest
  <2>3. place \in {"firing", "over"}
    BY <2>2 DEF place, Cron!Left
  <2>4. OneTime'
    BY <1>0, <1>5, <1>6, <1>9, <2>1, <2>2, <2>3 DEF CronInv, OneTime
  <2>5. cronStarted'
    BY <1>0, <2>1 DEF CronInv, Quiet
  <2>6. ASSUME accepting
        PROVE  /\ (\E order \in Seq(Runs) : Awaiting(order))'
               /\ taking /\ Head(scheduled) = Occurrence(r)
    <3>1. PICK order \in Seq(Runs) : Awaiting(order)
      BY <1>9, <2>6 DEF CronInv
    <3>2. PICK k \in 1 .. Len(order) : order[k] = r
      BY <2>1, <3>1 DEF Awaiting
    <3>3. k = 1 /\ Len(order) \in Nat /\ Len(order) > 0
      <4>1. run[r].slot <= run[order[1]].slot /\ order[1] \in Runs
        BY <1>0, <2>1, <3>1, <3>2 DEF Awaiting, Cron!Runnable
      <4>2. k > 1 => run[order[1]].slot < run[r].slot
        BY <3>1, <3>2 DEF Awaiting
      <4>3. run[r].slot \in Nat /\ run[order[1]].slot \in Nat
        BY <4>1 DEF CronInv, CronTypes
      <4> QED BY <3>2, <4>1, <4>2, <4>3
    <3>4. taking /\ Head(scheduled) = Occurrence(r)
      BY <1>1, <2>6, <3>1, <3>2, <3>3 DEF Awaiting
    <3> DEFINE next == Tail(order)
    <3>5. /\ next \in Seq(Runs) /\ Len(next) = Len(order) - 1
          /\ \A i \in 1 .. Len(next) : next[i] = order[i + 1] /\ i + 1 \in 1 .. Len(order)
      BY <3>3
    <3>6. /\ Len(scheduled') = Len(scheduled) - 1
          /\ \A i \in 1 .. Len(next) : scheduled'[i] = scheduled[i + 1]
      BY <1>0, <1>1, <3>1, <3>3, <3>4, <3>5 DEF Awaiting
    <3> HIDE DEF next
    <3>7. \A i \in 1 .. Len(next) : next[i] \in Runs \ {r}
      <4> SUFFICES ASSUME NEW i \in 1 .. Len(next) PROVE next[i] \in Runs \ {r} OBVIOUS
      <4>1. run[r].slot < run[next[i]].slot /\ next[i] \in Runs
        BY <3>1, <3>2, <3>3, <3>5 DEF Awaiting
      <4>2. run[r].slot \in Nat
        BY <1>1
      <4> QED BY <4>1, <4>2
    <3>8. \A q \in Runs \ {r} : Occurrence(q)' = Occurrence(q)
      BY <1>0, <1>6 DEF Occurrence
    <3>9. \A i, j \in 1 .. Len(next) : i < j => run'[next[i]].slot < run'[next[j]].slot
      <4> SUFFICES ASSUME NEW i \in 1 .. Len(next), NEW j \in 1 .. Len(next), i < j
                   PROVE  run'[next[i]].slot < run'[next[j]].slot
        OBVIOUS
      <4>1. i + 1 < j + 1 /\ next[i] = order[i + 1] /\ next[j] = order[j + 1]
            /\ i + 1 \in 1 .. Len(order) /\ j + 1 \in 1 .. Len(order)
        BY <3>5
      <4>2. run[next[i]].slot < run[next[j]].slot
        BY <3>1, <4>1 DEF Awaiting
      <4> QED BY <1>6, <3>7, <4>2
    <3>10. \A q \in Runs : run'[q].at = "created" => \E i \in 1 .. Len(next) : next[i] = q
      <4> SUFFICES ASSUME NEW q \in Runs, run'[q].at = "created" PROVE \E i \in 1 .. Len(next) : next[i] = q
        OBVIOUS
      <4>1. q # r
        BY <1>5, <1>6, <2>3
      <4>2. PICK i \in 1 .. Len(order) : order[i] = q
        BY <1>6, <3>1, <4>1 DEF Awaiting
      <4>3. i - 1 \in 1 .. Len(next) /\ (i - 1) + 1 = i
        BY <3>2, <3>3, <3>5, <4>1, <4>2
      <4> QED BY <3>5, <4>2, <4>3
    <3>11. \A i \in 1 .. Len(next) : run'[next[i]].at = "created" /\ scheduled'[i] = Occurrence(next[i])'
      <4> SUFFICES ASSUME NEW i \in 1 .. Len(next)
                   PROVE  run'[next[i]].at = "created" /\ scheduled'[i] = Occurrence(next[i])'
        OBVIOUS
      <4>1. next[i] = order[i + 1] /\ i + 1 \in 1 .. Len(order) /\ next[i] \in Runs \ {r}
        BY <3>5, <3>7
      <4>2. run'[next[i]] = run[next[i]] /\ Occurrence(next[i])' = Occurrence(next[i])
        BY <1>6, <3>8, <4>1
      <4>3. run[order[i + 1]].at = "created" /\ scheduled[i + 1] = Occurrence(order[i + 1])
        BY <3>1, <4>1 DEF Awaiting
      <4> QED BY <3>6, <4>1, <4>2, <4>3
    <3>12. Len(next) = Len(scheduled')
      BY <3>1, <3>5, <3>6 DEF Awaiting
    <3>13. Awaiting(next)'
      BY ONLY <3>5, <3>9, <3>10, <3>11, <3>12 DEF Awaiting, Occurrence
    <3> QED BY <3>4, <3>5, <3>13
  <2>7. place = "firing" => accepting /\ new.got = run[r].slot /\ ~(interval /\ skipMissed /\ run[r].backlog)
    <3> SUFFICES ASSUME place = "firing"
                 PROVE  accepting /\ new.got = run[r].slot /\ ~(interval /\ skipMissed /\ run[r].backlog)
      OBVIOUS
    <3>1. taking /\ Head(scheduled) # Cron!Skipped
      BY <2>2 DEF place, Cron!Left
    <3>2. Head(scheduled) = Occurrence(r)
      BY <2>6, <3>1
    <3> QED BY <1>5, <3>1, <3>2 DEF Occurrence
  <2>8. FiresOwnOccurrence'
    BY <1>0, <1>5, <1>6, <2>7 DEF CronInv, FiresOwnOccurrence, Cron!FiresOwnOccurrence, Cron!Coalesced
  <2>9. ASSUME accepting' PROVE (\E order \in Seq(Runs) : Awaiting(order))'
    BY <1>0, <2>6, <2>9
  <2> QED BY <1>7, <1>8, <2>4, <2>5, <2>8, <2>9 DEF CronInv
<1>10. CASE ~Cron!Coalesced
  BY <1>0, <1>7, <1>8, <1>10, CronPlainStep DEF Cron!policy
<1> QED BY <1>9, <1>10

(* Tasks that end, one by one or with the scheduler.                       *)
LEMMA CronEndStep ==
  ASSUME CronInv, Cron!Drained \/ \E r \in Runs : Cron!Misfire(r) \/ Cron!FireReturns(r) PROVE CronInv'
<1> USE DEF Cron!policy
<1>1. CASE Cron!Drained
  <2>1. \A r \in Runs :
          /\ run'[r].slot = run[r].slot /\ run'[r].times = run[r].times /\ run'[r].backlog = run[r].backlog
          /\ run'[r].got = run[r].got
          /\ run'[r].at = IF run[r].at \in {"created", "between", "firing"} THEN "over" ELSE run[r].at
    BY <1>1 DEF Cron!Drained, Cron!Busy, CronInv, CronTypes
  <2>2. run' \in [Runs -> [at : Places, times : Seq(Nat), slot : Nat, backlog : BOOLEAN, got : Nat]]
    BY <1>1 DEF Cron!Drained, CronInv, CronTypes, Places
  <2>3. CronTypes'
    BY <1>1, <2>2, <<>> \in Seq(Nat) DEF Cron!Drained, CronInv, CronTypes
  <2>4. Quiet' /\ ~accepting'
    BY <1>1, <2>1 DEF Cron!Drained, CronInv, Quiet
  <2>5. Cron!Coalesced' => OneTime'
    BY <1>1, <2>1 DEF Cron!Drained, CronInv, OneTime, Cron!Coalesced
  <2>6. FiresOwnOccurrence'
    BY <2>1 DEF FiresOwnOccurrence, Cron!FiresOwnOccurrence
  <2> QED BY <1>1, <2>3, <2>4, <2>5, <2>6 DEF Cron!Drained, CronInv
<1>2. ASSUME NEW r \in Runs, Cron!Misfire(r) PROVE CronInv'
  <2> DEFINE new == [run[r] EXCEPT !.times = <<>>, !.at = "over"]
  <2>1. run' = [run EXCEPT ![r] = new] /\ ~Cron!Coalesced /\ Cron!Runnable(r)
        /\ UNCHANGED <<interval, skipMissed, skipOverlap, now, cronStarted, shutdown, due, accepting, scheduled, expected>>
    BY <1>2 DEF Cron!Misfire, CronInv, CronTypes
  <2>2. new \in [at : Places, times : Seq(Nat), slot : Nat, backlog : BOOLEAN, got : Nat]
    BY <<>> \in Seq(Nat) DEF CronInv, CronTypes, Places
  <2> HIDE DEF new
  <2>3. CronTypes'
    BY <2>1, <2>2, RunTypes DEF CronInv, CronTypes
  <2>4. Quiet'
    BY <2>1, <2>2, RunTypes DEF CronInv, Quiet, Cron!Runnable
  <2> QED BY <2>1, <2>3, <2>4, CronPlainStep
<1>3. ASSUME NEW r \in Runs, Cron!FireReturns(r) PROVE CronInv'
  <2> DEFINE new == [run[r] EXCEPT !.at = Cron!Left(run[r].times)]
  <2>1. run' = [run EXCEPT ![r] = new] /\ run[r].at = "firing"
        /\ UNCHANGED <<interval, skipMissed, skipOverlap, now, cronStarted, shutdown, due, accepting, scheduled, expected>>
    BY <1>3 DEF Cron!FireReturns
  <2>2. new \in [at : Places, times : Seq(Nat), slot : Nat, backlog : BOOLEAN, got : Nat]
        /\ new.at = Cron!Left(run[r].times) /\ new.slot = run[r].slot
    BY DEF CronInv, CronTypes, Places, Cron!Left
  <2> HIDE DEF new
  <2>3. /\ run' \in [Runs -> [at : Places, times : Seq(Nat), slot : Nat, backlog : BOOLEAN, got : Nat]]
        /\ run'[r] = new /\ \A q \in Runs \ {r} : run'[q] = run[q]
    BY <2>1, <2>2, RunTypes DEF CronInv
  <2>4. CronTypes' /\ new.at \in {"over", "between"}
    BY <2>1, <2>2, <2>3 DEF CronInv, CronTypes, Cron!Left
  <2>5. Quiet'
    BY <2>1, <2>3 DEF CronInv, Quiet
  <2>6. CASE Cron!Coalesced
    <3>1. new.at = "over" /\ run[r].slot > 0
      BY <2>1, <2>2, <2>6 DEF CronInv, OneTime, Cron!Left
    <3>2. OneTime'
      BY <2>1, <2>2, <2>3, <2>6, <3>1 DEF CronInv, OneTime
    <3>3. ASSUME accepting PROVE (\E order \in Seq(Runs) : Awaiting(order))'
      <4>1. PICK order \in Seq(Runs) : Awaiting(order)
        BY <2>6, <3>3 DEF CronInv
      <4>2. \A i \in 1 .. Len(order) : order[i] \in Runs \ {r}
        BY <2>1, <4>1 DEF Awaiting
      <4>3. Awaiting(order)'
        BY <2>1, <2>3, <3>1, <4>1, <4>2 DEF Awaiting, Occurrence
      <4> QED BY <4>3
    <3>4. FiresOwnOccurrence'
      BY <2>1, <2>3, <3>1 DEF CronInv, FiresOwnOccurrence, Cron!FiresOwnOccurrence, Cron!Coalesced
    <3> QED BY <2>1, <2>4, <2>5, <2>6, <3>2, <3>3, <3>4 DEF CronInv, Cron!Coalesced
  <2>7. CASE ~Cron!Coalesced
    BY <2>1, <2>4, <2>5, <2>7, CronPlainStep
  <2> QED BY <2>6, <2>7
<1> QED BY <1>1, <1>2, <1>3

(* Every step of the source and of its scheduler.                          *)
LEMMA CronStep == CronInv /\ [Cron!Next]_(Cron!vars) => CronInv'
<1> SUFFICES ASSUME CronInv, [Cron!Next]_(Cron!vars) PROVE CronInv' OBVIOUS
<1>1. CASE UNCHANGED Cron!vars
  <2>1. UNCHANGED <<interval, skipMissed, skipOverlap, now, cronStarted, shutdown, due, accepting, scheduled, expected, run>>
    BY <1>1 DEF Cron!vars, Cron!policy
  <2>2. CronTypes' /\ Quiet'
    BY <2>1 DEF CronInv, CronTypes, Quiet
  <2> QED BY <2>1, <2>2, CronIdleStep
<1> QED BY <1>1, CronControlStep, CronSubmitStep, CronFireStep, CronEndStep DEF Cron!Next

(* datasource/cron/apscheduler.py: whatever runs overlap, are missed or    *)
(* dropped, and however often the source is stopped and started again, a   *)
(* task that fires does so with the occurrence it was submitted for, and a *)
(* run that had a backlog does not fire when missed runs are skipped.      *)
THEOREM CronOccurrences == Cron!Spec => []FiresOwnOccurrence
<1>1. CronInv /\ [Cron!Next]_(Cron!vars) => CronInv'
  BY CronStep
<1>2. CronInv => FiresOwnOccurrence
  BY DEF CronInv
<1> QED BY <1>1, <1>2, InitCronInv, PTL DEF Cron!Spec

(* datasource/cron/apscheduler.py: from stop() on nothing is submitted and *)
(* nothing fires anew, and what has been drained leaves no task behind,    *)
(* whoever called stop() and gave up, until the source is started again.   *)
THEOREM CronStopsQuietly == Cron!Spec => Cron!StoppedIsQuiet
<1> DEFINE Stopped == /\ shutdown # "none" => ~accepting /\ due = 0
                      /\ shutdown = "done" => ~cronStarted
                      /\ ~cronStarted => Cron!Busy = {}
<1>1. CronInv /\ [Cron!Next]_(Cron!vars) => CronInv'
  BY CronStep
<1>2. CronInv => Stopped
  BY DEF CronInv, Quiet, Cron!Busy
<1>3. CronInv /\ [Cron!Next]_(Cron!vars) =>
        [shutdown # "none" => Cron!Firing' \subseteq Cron!Firing]_(Cron!vars)
  <2> SUFFICES ASSUME CronInv, [Cron!Next]_(Cron!vars), shutdown # "none"
               PROVE  Cron!Firing' \subseteq Cron!Firing \/ UNCHANGED Cron!vars
    OBVIOUS
  <2>0. ~accepting /\ due = 0
        /\ run \in [Runs -> [at : Places, times : Seq(Nat), slot : Nat, backlog : BOOLEAN, got : Nat]]
    BY DEF CronInv, CronTypes, Quiet
  <2>1. CASE \/ Cron!Start \/ Cron!Tick \/ Cron!Overlap
             \/ \E c \in Callers : Cron!Stop(c) \/ Cron!GiveUp(c) \/ Cron!StopReturns(c)
    <3>1. run' = run
      BY <2>1 DEF Cron!Start, Cron!Tick, Cron!Overlap, Cron!Stop, Cron!GiveUp, Cron!StopReturns
    <3> QED BY <3>1 DEF Cron!Firing
  <2>2. CASE Cron!Drained
    BY <2>0, <2>2 DEF Cron!Drained, Cron!Firing, Cron!Busy
  <2>3. CASE \E r \in Runs : Cron!Submit(r)
    BY <2>0, <2>3 DEF Cron!Submit
  <2>4. CASE \E r \in Runs : Cron!Misfire(r) \/ Cron!FireReturns(r)
    BY <2>0, <2>4 DEF Cron!Misfire, Cron!FireReturns, Cron!Firing, Cron!Left
  <2>5. CASE \E r \in Runs : \E n \in 1 .. MaxTime : Cron!Fire(r, n)
    <3>1. PICK r \in Runs, n \in 1 .. MaxTime : Cron!Fire(r, n)
      BY <2>5
    <3> DEFINE rest == SubSeq(run[r].times, n + 1, Len(run[r].times))
    <3>2. run' = [run EXCEPT ![r] = [@ EXCEPT !.times = rest, !.at = Cron!Left(rest)]]
      BY <2>0, <3>1 DEF Cron!Fire
    <3> HIDE DEF rest
    <3>3. run'[r].at \in {"over", "between"} /\ \A q \in Runs \ {r} : run'[q] = run[q]
      BY <2>0, <3>2 DEF Cron!Left
    <3> QED BY <3>3 DEF Cron!Firing
  <2> QED BY <2>1, <2>2, <2>3, <2>4, <2>5 DEF Cron!Next
<1> QED BY <1>1, <1>2, <1>3, InitCronInv, PTL DEF Cron!Spec, Cron!StoppedIsQuiet
=============================================================================
