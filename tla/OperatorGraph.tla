--------------------------- MODULE OperatorGraph ---------------------------
(***************************************************************************)
(* A message walks through a graph of operators (operators/*.py): each     *)
(* consume() calls the consumer of its stream, in its own task or in one   *)
(* that is made for it, until the values reach sinks, or a delay or a join *)
(* holds them back, or a failure unwinds the calls.                        *)
(*                                                                         *)
(* A graph is a sequence of nodes; a node has an operator, the types and   *)
(* the number of the values its function may emit, and its outputs, each   *)
(* the node it leads to and how: by a "call", in a "task" or in the task   *)
(* of a "pool".  Node 1 gets the message, 0 is the endpoint's result       *)
(* consumer.  A value is known by its type.  User functions do whatever    *)
(* they may: emit, handle or pass on failures, fail.                       *)
(***************************************************************************)
EXTENDS Sequences, SequencesExt, Naturals

CONSTANTS Graphs,      (* the graphs to be tried *)
          ValueTypes,
          MaxTasks,    (* bound on the tasks of one message *)
          MaxDelayed   (* bound on the values that are delayed *)

VARIABLES
  graph,     \* the graph
  durable,   \* it runs inside a Temporal Workflow
  selector,  \* _when_func of each case: the branch of a type; Unbuilt before build()
  built,     \* build() of the graph: "pending", "built" or "failed"
  stacks,    \* the calls each task is in; task 1 is the source's
  source,    \* what the source's consume() came to
  waiting,   \* the values in the delay pool
  fate,      \* what became of each value that was delayed
  group,     \* of a join: how many sides its item lists, the sides with a value
  locked,    \* the joins whose item is locked
  ended,     \* the request has expired or was cancelled
  sealed,    \* the pools are stopped
  exited     \* terminate_background_failure, or the failure of the Workflow

graphVars == <<graph, durable, selector, built>>
joinVars == <<group, locked>>
lifeVars == <<ended, sealed, exited>>
vars == <<graphVars, stacks, source, waiting, fate, joinVars, lifeVars>>

Nodes == 1 .. Len(graph)
Op(n) == graph[n].op
Gives(n) == graph[n].gives
To(n) == graph[n].to

Unbuilt == <<>>
NoBranch == 0
EmptyGroup == [width |-> 0, sides |-> {}]

(* A call: its node, the value it got on one of its sides, what it does,   *)
(* how many values its function may still emit, the delayed value it is    *)
(* about.                                                                  *)
Frame(n, value, side, at) ==
  [node |-> n, value |-> value, side |-> side, at |-> at, left |-> graph[n].emits, id |-> 0]

Init ==
  /\ graph \in Graphs /\ durable \in BOOLEAN
  /\ selector = [n \in Nodes |-> Unbuilt] /\ built = "pending"
  /\ stacks = <<>> /\ source = "none"
  /\ waiting = {} /\ fate = <<>>
  /\ group = [n \in Nodes |-> EmptyGroup] /\ locked = {}
  /\ ended = FALSE /\ sealed = FALSE /\ exited = FALSE

-----------------------------------------------------------------------------
(* build() of the cases.  when_index binds the name of a branch and raises *)
(* unless one branch has it; default_build_switch maps the type of every   *)
(* branch, the last of a type winning.                                     *)

Forks(n) == DOMAIN To(n)
ForksOf(n, type) == {i \in Forks(n) : graph[To(n)[i].node].type = type}

WhenIndex(n, type) ==
  LET found == ForksOf(n, type)
  IN  IF \E i \in found : found = {i} THEN CHOOSE i \in found : TRUE ELSE NoBranch

DefaultSwitch(n, type) ==
  LET found == ForksOf(n, type)
  IN  IF found = {} THEN NoBranch ELSE CHOOSE i \in found : \A j \in found : j <= i

Cases == {n \in Nodes : Op(n) = "case"}

Bound(switch(_, _)) ==
  [n \in Nodes |-> IF n \in Cases THEN [v \in ValueTypes |-> switch(n, v)] ELSE Unbuilt]

Build ==
  /\ built = "pending"
  /\ \/ selector' = Bound(DefaultSwitch) /\ built' = "built"
     \/ IF \A n \in Cases, v \in ValueTypes : WhenIndex(n, v) # NoBranch
          THEN selector' = Bound(WhenIndex) /\ built' = "built"
          ELSE built' = "failed" /\ UNCHANGED selector
  /\ UNCHANGED <<graph, durable, stacks, source, waiting, fate, joinVars, lifeVars>>

-----------------------------------------------------------------------------
(* The endpoint hands a message to the first stream. *)
Consume ==
  /\ built = "built" /\ source = "none"
  /\ \E v \in Gives(1) : stacks' = <<<<Frame(1, v, 1, "call")>>>>
  /\ source' = "running"
  /\ UNCHANGED <<graphVars, waiting, fate, joinVars, lifeVars>>

EndRequest == ~ended /\ source # "none" /\ ended' = TRUE
              /\ UNCHANGED <<graphVars, stacks, source, waiting, fate, joinVars, sealed, exited>>

(* stop() of the service; a Workflow has pools of its own. *)
Seal == ~sealed /\ ~durable /\ source # "none" /\ sealed' = TRUE
        /\ UNCHANGED <<graphVars, stacks, source, waiting, fate, joinVars, ended, exited>>

-----------------------------------------------------------------------------
Running(t) == t \in DOMAIN stacks /\ ~exited /\ stacks[t] # <<>>
Top(t) == Last(stacks[t])
Node(t) == Top(t).node

WithTop(t, f) == [stacks EXCEPT ![t] = Append(Front(@), f)]

Over(f) == [f EXCEPT !.at = "return"]
Failed(f) == [f EXCEPT !.at = "raise"]
Spent(f) == [f EXCEPT !.left = @ - 1]

(* A value leaves through output k: the consumer is called, or a task is   *)
(* made for the call; without a consumer nothing happens.  A stopped pool  *)
(* raises.                                                                 *)
Emitted(t, f, k, value) ==
  IF k \notin Forks(f.node) \/ To(f.node)[k].node = 0 THEN WithTop(t, f)
  ELSE LET out == To(f.node)[k]
           call == Frame(out.node, value, out.side, "call")
       IN  CASE out.how = "call" -> [WithTop(t, f) EXCEPT ![t] = Append(@, call)]
             [] out.how = "pool" /\ sealed -> WithTop(t, Failed(f))
             [] OTHER -> Append(WithTop(t, f), <<call>>)

Emit(t, f, k, value) ==
  /\ stacks' = Emitted(t, f, k, value) /\ Len(stacks') <= MaxTasks
  /\ UNCHANGED <<graphVars, source, waiting, fate, joinVars, lifeVars>>

(* consume() returns: to the consume() that called it, or the task ends. *)
Return(t) ==
  /\ stacks' = [stacks EXCEPT ![t] = Front(@)]
  /\ source' = IF t = 1 /\ Len(stacks[1]) = 1 THEN "returned" ELSE source
  /\ UNCHANGED <<graphVars, waiting, fate, joinVars, lifeVars>>

Functions == {"map", "flatmap", "keyby", "process"}

(* An exception in the frame at the top: the top is gone, and it goes on   *)
(* in the call below.  A function may handle it; the delay that has waited *)
(* inside a Workflow reports it to delay_error; all others pass it on.     *)
(* Out of the last frame it is the source's, or ends the process.          *)
Unwind(t) ==
  LET rest == Front(stacks[t])
      below == Last(rest)
      goesOn(f) == stacks' = [stacks EXCEPT ![t] = Append(Front(rest), f)]
  IN  /\ Running(t) /\ Top(t).at = "raise"
      /\ CASE rest = <<>> ->
                /\ stacks' = [stacks EXCEPT ![t] = <<>>]
                /\ IF t = 1 THEN source' = "raised" /\ UNCHANGED exited
                            ELSE exited' = TRUE /\ UNCHANGED source
                /\ UNCHANGED <<fate, locked>>
           [] rest # <<>> /\ below.at = "delivering" ->
                /\ goesOn([below EXCEPT !.at = "error"])
                /\ fate' = [fate EXCEPT ![below.id] = @ \union {"reported"}]
                /\ UNCHANGED <<source, exited, locked>>
           [] OTHER ->
                /\ \/ goesOn(Failed(below)) /\ locked' = locked \ ({below.node} \cap {n \in Nodes : below.at = "joining"})
                   \/ below.at = "call" /\ Op(below.node) \in Functions /\ goesOn(below) /\ UNCHANGED locked
                /\ UNCHANGED <<source, exited, fate>>
      /\ UNCHANGED <<graphVars, waiting, group, ended, sealed>>

(* The function, or the operator, raises by itself. *)
Raise(t) ==
  /\ stacks' = WithTop(t, Failed(Top(t)))
  /\ UNCHANGED <<graphVars, source, waiting, fate, joinVars, lifeVars>>

Returns(t) == Running(t) /\ Top(t).at = "return" /\ Return(t)

-----------------------------------------------------------------------------
(* The operators. *)

At(t, ops) == Running(t) /\ Top(t).at = "call" /\ Op(Node(t)) \in ops

(* Streams that hand every value on. *)
PassOn(t) == Emit(t, Over(Top(t)), 1, Top(t).value)

Input(t) == At(t, {"input"}) /\ PassOn(t)
Merge(t) == At(t, {"merge"}) /\ PassOn(t)
Link(t) == At(t, {"link"}) /\ PassOn(t)
When(t) == At(t, {"when"}) /\ PassOn(t)
Error(t) == At(t, {"error"}) /\ PassOn(t)

(* A function emits what it likes. *)
Call(t) ==
  \/ /\ Top(t).left > 0
     /\ \E v \in Gives(Node(t)), k \in Forks(Node(t)) : Emit(t, Spent(Top(t)), k, v)
  \/ Return(t)
  \/ Raise(t)

Map(t) == At(t, {"map"}) /\ Call(t)
FlatMap(t) == At(t, {"flatmap"}) /\ Call(t)
KeyBy(t) == At(t, {"keyby"}) /\ Call(t)

(* Its second output is the error stream. *)
Process(t) == At(t, {"process"}) /\ Call(t)

Filter(t) ==
  /\ At(t, {"filter"})
  /\ \/ Emit(t, Over(Top(t)), 1, Top(t).value)
     \/ Return(t)
     \/ Raise(t)

(* flatmapiterable: one element after the other, until one is not of the   *)
(* element type.                                                           *)
Iterate(t) ==
  /\ At(t, {"iterable"})
  /\ \/ Top(t).left > 0 /\ \E v \in Gives(Node(t)) : Emit(t, Spent(Top(t)), 1, v)
     \/ Return(t)
     \/ Raise(t)

(* A type that no branch has raises. *)
Select(t) ==
  /\ At(t, {"case"})
  /\ LET i == selector[Node(t)][Top(t).value]
     IN  IF i \in Forks(Node(t)) THEN Emit(t, Over(Top(t)), i, Top(t).value) ELSE Raise(t)

(* The endpoint's consumer; a sink may have results. *)
Deliver(t) ==
  /\ At(t, {"sink"})
  /\ \/ Return(t)
     \/ Raise(t)
     \/ To(Node(t)) # <<>> /\ \E v \in Gives(Node(t)) : Emit(t, Over(Top(t)), 1, v)

-----------------------------------------------------------------------------
(* Joins, of one key.  The store lists the sides up to the largest that    *)
(* has had a value.                                                        *)

(* _join_callback of a join; the function gets values[0] and values[1],    *)
(* and of those there may be one only.                                     *)
JoinCalled(f, g) ==
  LET can == CASE graph[f.node].type = "Inner" -> {1, 2} \subseteq g.sides
               [] graph[f.node].type = "Left"  -> 1 \in g.sides
               [] graph[f.node].type = "Right" -> 2 \in g.sides
               [] OTHER -> TRUE   \* Outer
  IN  CASE can /\ g.width >= 2 -> [f EXCEPT !.at = "joining"]
        [] can /\ g.width < 2  -> Failed(f)
        [] OTHER               -> Over(f)

(* _join_callback of a multi-join: the first side decides. *)
MultiJoinCalled(f, g) == IF 1 \in g.sides THEN [f EXCEPT !.at = "joining"] ELSE Over(f)

Called(f, g) == IF Op(f.node) = "join" THEN JoinCalled(f, g) ELSE MultiJoinCalled(f, g)

(* join_value, under the lock of the item. *)
Stored(t) ==
  /\ Node(t) \notin locked
  /\ LET n == Node(t)
         side == Top(t).side
         g == [width |-> IF group[n].width < side THEN side ELSE group[n].width,
               sides |-> group[n].sides \union {side}]
     IN  /\ group' = [group EXCEPT ![n] = g]
         /\ stacks' = WithTop(t, Called(Top(t), g))
         /\ locked' = IF Called(Top(t), g).at = "joining" THEN locked \union {n} ELSE locked
  /\ UNCHANGED <<graphVars, source, waiting, fate, lifeVars>>

Join(t) == At(t, {"join"}) /\ Stored(t)
MultiJoin(t) == At(t, {"multijoin"}) /\ Stored(t)

JoiningLocked(t) ==   \* Fault: a function that raises leaves the item locked
  /\ Running(t) /\ Top(t).at \in {"joining", "expiring"}
  /\ \/ Top(t).left > 0 /\ \E v \in Gives(Node(t)) : Emit(t, Spent(Top(t)), 1, v)
     \/ /\ Top(t).at = "joining"
        /\ \E done \in BOOLEAN : group' = IF done THEN [group EXCEPT ![Node(t)] = EmptyGroup] ELSE group
        /\ stacks' = WithTop(t, Over(Top(t))) /\ locked' = locked \ {Node(t)}
        /\ UNCHANGED <<graphVars, source, waiting, fate, lifeVars>>
     \/ Top(t).at = "expiring" /\ Return(t)
     \/ Raise(t)

(* The join's function: it emits, and says whether the group is complete.  *)
(* An expired item is not locked any more.                                 *)
Joining(t) ==
  /\ Running(t) /\ Top(t).at \in {"joining", "expiring"}
  /\ \/ Top(t).left > 0 /\ \E v \in Gives(Node(t)) : Emit(t, Spent(Top(t)), 1, v)
     \/ /\ Top(t).at = "joining"
        /\ \/ \E done \in BOOLEAN : /\ group' = IF done THEN [group EXCEPT ![Node(t)] = EmptyGroup] ELSE group
                                    /\ stacks' = WithTop(t, Over(Top(t)))
           \/ stacks' = WithTop(t, Failed(Top(t))) /\ UNCHANGED group
        /\ locked' = locked \ {Node(t)}
        /\ UNCHANGED <<graphVars, source, waiting, fate, lifeVars>>
     \/ Top(t).at = "expiring" /\ (Return(t) \/ Raise(t))

(* The item expires: its task calls the callback once more. *)
Expire(n) ==
  /\ ~exited /\ group[n] # EmptyGroup /\ n \notin locked /\ Len(stacks) < MaxTasks
  /\ group' = [group EXCEPT ![n] = EmptyGroup]
  /\ LET f == Called(Frame(n, n, 1, "expiring"), group[n])
     IN  stacks' = Append(stacks, <<IF f.at = "joining" THEN [f EXCEPT !.at = "expiring"] ELSE f>>)
  /\ UNCHANGED <<graphVars, source, waiting, fate, locked, lifeVars>>

-----------------------------------------------------------------------------
(* Delays. *)

Fresh == Len(fate) + 1
Settle(id, what) == [fate EXCEPT ![id] = @ \union {what}]

DelayKept(t) ==   \* Fault: the pool has the value when the end of the request is noticed
  /\ At(t, {"delay"})
  /\ \/ Emit(t, Over(Top(t)), 1, Top(t).value)
     \/ Raise(t)
     \/ /\ Len(fate) < MaxDelayed
        /\ LET keep(at) == stacks' = WithTop(t, [Top(t) EXCEPT !.at = at, !.id = Fresh])
               value == [id |-> Fresh, node |-> Node(t), value |-> Top(t).value]
           IN  CASE durable -> keep("sleeping") /\ fate' = Append(fate, {}) /\ UNCHANGED waiting
                 [] ~durable /\ (ended \/ sealed) -> /\ keep("error") /\ fate' = Append(fate, {"reported"})
                                                     /\ waiting' = waiting \union {value}
                 [] OTHER -> /\ stacks' = WithTop(t, Over(Top(t)))
                             /\ waiting' = waiting \union {value} /\ fate' = Append(fate, {})
        /\ UNCHANGED <<graphVars, source, joinVars, lifeVars>>

(* duration() fails, or is not positive and the value goes on; otherwise   *)
(* the value waits, in the Workflow or in the pool.  A stopped pool, or a  *)
(* request that has ended, has delay_error called.                         *)
Delay(t) ==
  /\ At(t, {"delay"})
  /\ \/ Emit(t, Over(Top(t)), 1, Top(t).value)
     \/ Raise(t)
     \/ /\ Len(fate) < MaxDelayed
        /\ LET keep(at) == stacks' = WithTop(t, [Top(t) EXCEPT !.at = at, !.id = Fresh])
           IN  CASE durable -> keep("sleeping") /\ fate' = Append(fate, {}) /\ UNCHANGED waiting
                 [] ~durable /\ (ended \/ sealed) -> keep("error") /\ fate' = Append(fate, {"reported"}) /\ UNCHANGED waiting
                 [] OTHER -> /\ stacks' = WithTop(t, Over(Top(t)))
                             /\ waiting' = waiting \union {[id |-> Fresh, node |-> Node(t), value |-> Top(t).value]}
                             /\ fate' = Append(fate, {})
        /\ UNCHANGED <<graphVars, source, joinVars, lifeVars>>

(* The Workflow's timer: the value goes on unless the request has ended. *)
Wake(t) ==
  /\ Running(t) /\ Top(t).at = "sleeping"
  /\ IF ended
       THEN fate' = Settle(Top(t).id, "dropped") /\ stacks' = WithTop(t, Over(Top(t)))
       ELSE /\ fate' = Settle(Top(t).id, "delivered")
            /\ stacks' = Emitted(t, [Top(t) EXCEPT !.at = "delivering"], 1, Top(t).value)
            /\ Len(stacks') <= MaxTasks
  /\ UNCHANGED <<graphVars, source, waiting, joinVars, lifeVars>>

Delivered(t) == Running(t) /\ Top(t).at = "delivering" /\ Return(t)

(* The pool runs what it has accepted: when it is due, or at once when the *)
(* request ends.                                                           *)
Due(h) ==
  /\ ~exited /\ h \in waiting /\ Len(stacks) < MaxTasks
  /\ waiting' = waiting \ {h}
  /\ IF ended THEN fate' = Settle(h.id, "dropped") /\ UNCHANGED stacks
              ELSE /\ fate' = Settle(h.id, "delivered")
                   /\ stacks' = Append(stacks, <<Frame(h.node, h.value, 1, "late")>>)
  /\ UNCHANGED <<graphVars, source, joinVars, lifeVars>>

Late(t) == Running(t) /\ Top(t).at = "late" /\ Emit(t, Over(Top(t)), 1, Top(t).value)

(* delay_error may emit, too. *)
Report(t) ==
  /\ Running(t) /\ Top(t).at = "error"
  /\ \/ Top(t).left > 0 /\ Emit(t, Spent(Top(t)), 1, Top(t).value)
     \/ Return(t)
     \/ Raise(t)

-----------------------------------------------------------------------------
Step(t) ==
  \/ Input(t) \/ Merge(t) \/ Link(t) \/ When(t) \/ Error(t)
  \/ Map(t) \/ FlatMap(t) \/ KeyBy(t) \/ Process(t) \/ Filter(t) \/ Iterate(t)
  \/ Select(t) \/ Deliver(t)
  \/ Join(t) \/ MultiJoin(t) \/ Joining(t)
  \/ Delay(t) \/ Wake(t) \/ Delivered(t) \/ Late(t) \/ Report(t)
  \/ Returns(t) \/ Unwind(t)

Next ==
  \/ Build \/ Consume \/ EndRequest \/ Seal
  \/ \E t \in 1 .. MaxTasks : Step(t)
  \/ \E n \in Nodes : Expire(n)
  \/ \E h \in waiting : Due(h)

Spec == Init /\ [][Next]_vars

(* The event loop runs some task that can go on; the pool's timers expire. *)
Fairness == WF_vars((\E t \in 1 .. MaxTasks : Step(t)) \/ (\E h \in waiting : Due(h)))

FairSpec == Spec /\ Fairness

-----------------------------------------------------------------------------
Sleeping(id) ==
  \E t \in DOMAIN stacks : \E i \in DOMAIN stacks[t] : stacks[t][i].id = id /\ stacks[t][i].at = "sleeping"

(* A delayed value waits or has met its fate, never both: it was delivered *)
(* once, or dropped when its request had ended, or handed to delay_error.  *)
(* Only a Workflow delivers it and reports it as well, when what it was    *)
(* delivered to raised.                                                    *)
OneFate ==
  \A id \in DOMAIN fate :
    LET waits == \E h \in waiting : h.id = id
    IN  \/ fate[id] = {} /\ waits # Sleeping(id)
        \/ /\ ~waits /\ ~Sleeping(id)
           /\ \/ fate[id] \in {{"delivered"}, {"reported"}}
              \/ fate[id] = {"dropped"} /\ ended
              \/ durable /\ fate[id] = {"delivered", "reported"}

(* A value that a case hands to a branch is of the branch's type.          *)
RightBranch ==
  \A t \in DOMAIN stacks : \A i \in DOMAIN stacks[t] :
    LET f == stacks[t][i] IN Op(f.node) = "when" => f.value = graph[f.node].type

(* consume() of the source returns or raises, whatever waits for a join's  *)
(* item or fails below it, unless a background failure ends everything.    *)
MessageSettles == (source = "running") ~> (source # "running" \/ exited)
=============================================================================
