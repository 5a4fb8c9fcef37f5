---------------------------- MODULE StreamGraph ----------------------------
(***************************************************************************)
(* From the configuration of the links to a message at a split:            *)
(* service_init validates the links and creates the pools they name        *)
(* (runtime/serviceapp.py), each link gets a caller (make_caller,          *)
(* runtime/common.py), build() orders the branches and consume() serves    *)
(* them one after another (operators/split.py).                            *)
(*                                                                         *)
(* A link is described by the side that concerns this service: its own     *)
(* side when the split belongs to the service, the income side otherwise;  *)
(* the other side is a function call.                                      *)
(***************************************************************************)
EXTENDS Naturals

CONSTANTS Branches,   (* the branches of the split are 1 .. Branches *)
          Pools       (* pools the configuration declares *)

Nothing == "none"

Semantics == {"Inherited", "FunctionCall", "TaskPool", "PriorityTaskPool", "ParallelCall"}

Pooled == {"TaskPool", "PriorityTaskPool"}

(* The settings of a link that differ in what the code does with them. *)
Side(semantics, pool, priority) == [semantics |-> semantics, pool |-> pool, priority |-> priority]

Sides ==
  {Side(s, Nothing, FALSE) : s \in Semantics}
    \union {Side(s, p, pr) : s \in Pooled, p \in Pools \union {"undeclared"}, pr \in BOOLEAN}

Unset == Side(Nothing, Nothing, FALSE)

NoLink == Side("no link", Nothing, FALSE)

VARIABLES
  local,    \* the split is a stream of this service
  default,  \* default_call_semantics of the service
  link,     \* the configured link of each branch, or NoLink
  async,    \* branches whose link says async
  phase,    \* how far the service and then the message are
  created,  \* (kind, name) of the pools that service_init made
  caller,   \* semantics and pool of the caller of each branch
  order,    \* _links of the split: the pairs of branches, the earlier one first
  branch    \* what became of the message in each branch

vars == <<local, default, link, async, phase, created, caller, order, branch>>

All == 1 .. Branches

Init ==
  /\ local \in BOOLEAN
  /\ default \in {"Inherited", "TaskPool", "ParallelCall"}
  /\ link \in [All -> Sides \union {Unset, NoLink}]
  /\ local => Unset \notin {link[b] : b \in All}   \* only the income side is optional
  /\ async \in SUBSET All
  /\ phase = "configured"
  /\ created = {}
  /\ caller = [b \in All |-> Unset]
  /\ order = {ab \in All \X All : ab[1] < ab[2]}
  /\ branch = [b \in All |-> "unserved"]

Linked(b) == link[b] # NoLink

-----------------------------------------------------------------------------
(* What service_init requires of a link. *)
Accepts(side) ==
  /\ side.semantics \in Semantics \ {"Inherited"}
  /\ side.semantics \in Pooled => side.pool \in Pools
  /\ side.semantics = "PriorityTaskPool" => side.priority

PoolsOf(sides) == {<<side.semantics, side.pool>> : side \in {s \in sides : s.semantics \in Pooled}}

(* The links of service_init: the first that is invalid raises. *)
ServiceInit ==
  /\ phase = "configured"
  /\ LET sides == {link[b] : b \in {x \in All : Linked(x)}} IN
       IF \A side \in sides : Accepts(side)
         THEN phase' = "constructing" /\ created' = PoolsOf(sides)
         ELSE phase' = "rejected" /\ UNCHANGED created
  /\ UNCHANGED <<local, default, link, async, caller, order, branch>>

(* The semantics of a caller: the link's, else the service's, else a call. *)
Resolve(b) ==
  LET own == IF Linked(b) THEN link[b].semantics ELSE Nothing
  IN  IF own \notin {Nothing, "Inherited"} THEN own
      ELSE IF default # "Inherited" THEN default
      ELSE "FunctionCall"

(* make_caller, called when the consumer of a branch is set; what lacks    *)
(* (a link, a pool's name, a priority, the pool) raises.                   *)
MakeCaller(b) ==
  /\ phase = "constructing" /\ caller[b] = Unset
  /\ LET semantics == Resolve(b)
         made == IF semantics \in Pooled THEN [link[b] EXCEPT !.semantics = semantics]
                                         ELSE Side(semantics, Nothing, FALSE)
     IN  IF /\ semantics \in Pooled
             /\ \/ ~Linked(b)
                \/ link[b].pool = Nothing
                \/ semantics = "PriorityTaskPool" /\ ~link[b].priority
                \/ <<semantics, link[b].pool>> \notin created
           THEN phase' = "failed" /\ UNCHANGED caller
           ELSE caller' = [caller EXCEPT ![b] = made] /\ UNCHANGED phase
  /\ UNCHANGED <<local, default, link, async, created, order, branch>>

(* is_async of a caller; a direct caller repeats what its link says, and   *)
(* asks the link's own side, which the income side leaves a function call. *)
IsAsync(b) ==
  \/ caller[b].semantics \in Pooled \union {"ParallelCall"}
  \/ caller[b].semantics = "FunctionCall" /\ Linked(b) /\ b \in async

BuildUnsorted ==   \* Fault: the branches stay in the order of their declaration
  /\ phase = "constructing" /\ \A b \in All : caller[b] # Unset
  /\ phase' = "serving"
  /\ UNCHANGED <<local, default, link, async, created, caller, order, branch>>

(* build(): asynchronous branches first, each group in its order. *)
Build ==
  /\ phase = "constructing" /\ \A b \in All : caller[b] # Unset
  /\ order' = {ab \in All \X All : IF IsAsync(ab[1]) = IsAsync(ab[2]) THEN ab \in order ELSE IsAsync(ab[1])}
  /\ phase' = "serving"
  /\ UNCHANGED <<local, default, link, async, created, caller, branch>>

-----------------------------------------------------------------------------
Unserved == {b \in All : branch[b] = "unserved"}

Handed(b) == caller[b].semantics # "FunctionCall"

(* consume(): the next branch is called, or handed over to a pool or task. *)
Serve(b) ==
  /\ phase = "serving" /\ b \in Unserved
  /\ \A a \in Unserved \ {b} : <<b, a>> \in order
  /\ \A a \in All : branch[a] # "called"
  /\ branch' = [branch EXCEPT ![b] = IF Handed(b) THEN "handed" ELSE "called"]
  /\ UNCHANGED <<local, default, link, async, phase, created, caller, order>>

Returns(b) ==
  /\ branch[b] \in {"called", "handed"}
  /\ branch' = [branch EXCEPT ![b] = "done"]
  /\ UNCHANGED <<local, default, link, async, phase, created, caller, order>>

(* A branch that is called fails: the later ones are not served. *)
Raises(b) ==
  /\ branch[b] = "called"
  /\ branch' = [branch EXCEPT ![b] = "raised"]
  /\ phase' = "raised"
  /\ UNCHANGED <<local, default, link, async, created, caller, order>>

Served ==
  /\ phase = "serving" /\ Unserved = {} /\ \A b \in All : branch[b] # "called"
  /\ phase' = "served"
  /\ UNCHANGED <<local, default, link, async, created, caller, order, branch>>

Next ==
  \/ ServiceInit \/ Build \/ Served
  \/ \E b \in All : MakeCaller(b) \/ Serve(b) \/ Returns(b) \/ Raises(b)

Spec == Init /\ [][Next]_vars

-----------------------------------------------------------------------------
(* What service_init accepts can be built: a caller is refused only when   *)
(* its branch has no link and the service's default needs a pool, and each *)
(* caller is the one that was validated, on a pool of its kind and name.   *)
ValidatedBuilds ==
  /\ phase = "failed" => \E b \in All : ~Linked(b) /\ default \in Pooled
  /\ \A b \in All : Linked(b) /\ caller[b] # Unset =>
       /\ caller[b].semantics = link[b].semantics
       /\ caller[b].semantics \in Pooled => <<caller[b].semantics, link[b].pool>> \in created

(* However the branches were declared, a branch that runs inside consume() *)
(* keeps no asynchronous branch from its message: neither by taking long   *)
(* nor by failing.  (A function call whose link says async counts as       *)
(* asynchronous, although it runs inside consume().)                       *)
AsyncBranchesServed ==
  \A a, d \in All : ~IsAsync(d) /\ branch[d] # "unserved" /\ IsAsync(a) => branch[a] # "unserved"
=============================================================================
