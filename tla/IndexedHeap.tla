---------------------------- MODULE IndexedHeap ----------------------------
(***************************************************************************)
(* The binary heap of runtime/pool/_scheduling.py that remembers where     *)
(* each task lies, so that a task can be removed or promoted in place.     *)
(* It is the queue of the priority pool and the delay pool and the order   *)
(* of all deadlines.  items is the list (from index 1 here), positions the *)
(* dictionary; content is a reference: what the heap should hold.          *)
(***************************************************************************)
EXTENDS Integers, Sequences, SequencesExt

CONSTANTS Tasks, Priorities

Lowest == -1   \* float('-inf')

VARIABLES items, positions, counter, content

vars == <<items, positions, counter, content>>

Empty == [t \in Tasks |-> 0]     \* position 0: not in the heap

Less(k, l) == k[1] < l[1] \/ (k[1] = l[1] /\ k[2] < l[2])

Key(h, i) == h[i].key

Parent(i) == i \div 2

Swapped(h, a, b) == [h EXCEPT ![a] = h[b], ![b] = h[a]]

(* A pass of the loop of _up: the element at s.at rises unless it rests. *)
Raised(s) ==
  IF s.at = 1 \/ ~Less(Key(s.heap, s.at), Key(s.heap, Parent(s.at)))
    THEN s
    ELSE [heap |-> Swapped(s.heap, s.at, Parent(s.at)), at |-> Parent(s.at)]

(* Where the element at i comes to rest, and the heap it leaves behind: it *)
(* rests after fewer passes than the heap is long.                         *)
Up(h, i) ==
  LET pass[n \in Nat] == IF n = 0 THEN [heap |-> h, at |-> i] ELSE Raised(pass[n - 1])
  IN  pass[Len(h)]

SmallerChild(h, i) ==
  IF 2 * i + 1 <= Len(h) /\ Less(Key(h, 2 * i + 1), Key(h, 2 * i)) THEN 2 * i + 1 ELSE 2 * i

(* A pass of the loop of _down. *)
Lowered(s) ==
  LET c == SmallerChild(s.heap, s.at)
  IN  IF 2 * s.at > Len(s.heap) \/ ~Less(Key(s.heap, c), Key(s.heap, s.at))
        THEN s
        ELSE [heap |-> Swapped(s.heap, s.at, c), at |-> c]

Down(h, i) ==
  LET pass[n \in Nat] == IF n = 0 THEN [heap |-> h, at |-> i] ELSE Lowered(pass[n - 1])
  IN  pass[Len(h)].heap

(* Every swap of the code also moves the two entries of positions. *)
PositionsOf(old, h) ==
  [t \in Tasks |-> IF \E i \in 1 .. Len(h) : h[i].task = t
                     THEN CHOOSE i \in 1 .. Len(h) : h[i].task = t
                     ELSE old[t]]

RemovedDownOnly(h, i) ==        \* Fault: the replacement never rises
  LET short == Front(h)
  IN  IF i > Len(short) THEN short ELSE Down([short EXCEPT ![i] = Last(h)], i)

Removed(h, i) ==
  LET short == Front(h)
  IN  IF i > Len(short) THEN short
      ELSE LET up == Up([short EXCEPT ![i] = Last(h)], i) IN Down(up.heap, up.at)

-----------------------------------------------------------------------------
Init == items = <<>> /\ positions = Empty /\ counter = 0 /\ content = {}

Push(t, p) ==
  /\ positions[t] = 0
  /\ LET e == [key |-> <<p, counter>>, task |-> t]
         h == Up(Append(items, e), Len(items) + 1).heap
     IN  /\ items' = h
         /\ positions' = PositionsOf(positions, h)
         /\ content' = content \union {e}
  /\ counter' = counter + 1

Discard(t) ==
  /\ positions[t] # 0
  /\ LET h == Removed(items, positions[t])
     IN  /\ items' = h
         /\ positions' = PositionsOf([positions EXCEPT ![t] = 0], h)
  /\ content' = {e \in content : e.task # t}
  /\ UNCHANGED counter

Pop == items # <<>> /\ Discard(items[1].task)

Promote(t) ==
  /\ positions[t] # 0
  /\ LET i == positions[t]
         k == <<Lowest, items[i].key[2]>>
         h == Up([items EXCEPT ![i].key = k], i).heap
     IN  /\ items' = h
         /\ positions' = PositionsOf(positions, h)
         /\ content' = {e \in content : e.task # t} \union {[key |-> k, task |-> t]}
  /\ UNCHANGED counter

Next == \/ \E t \in Tasks : Discard(t) \/ Promote(t) \/ \E p \in Priorities : Push(t, p)
        \/ Pop

Spec == Init /\ [][Next]_vars

-----------------------------------------------------------------------------
(* A removal or promotion in the middle of the heap loses and invents      *)
(* nothing.                                                                *)
ContentKept == ToSet(items) = content /\ Len(items) = Cardinality(content)

(* positions names the place of every task, so that remove and promote     *)
(* reach the right entry.                                                  *)
PositionsExact ==
  /\ \A i \in 1 .. Len(items) : positions[items[i].task] = i
  /\ \A t \in Tasks : positions[t] # 0 => positions[t] <= Len(items) /\ items[positions[t]].task = t

(* No parent is after its child, so that peek and pop give the least        *)
(* (priority, counter), also after a removal from the middle.              *)
HeapOrdered ==
  \A i \in 2 .. Len(items) : ~Less(Key(items, i), Key(items, Parent(i)))
=============================================================================
