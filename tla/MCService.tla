----------------------------- MODULE MCService -----------------------------
(***************************************************************************)
(* ServiceApp, ConfigLoader, StreamGraph and OperatorGraph, side by side:  *)
(* subject says which of them moves, the others stay in one initial state. *)
(***************************************************************************)
EXTENDS ServiceApp, TLC

CONSTANTS Targets, MaxVersion,  (* ConfigLoader *)
          Branches, Pools,      (* StreamGraph *)
          Graphs, ValueTypes, MaxTasks, MaxDelayed  (* OperatorGraph *)

ASSUME TargetsAssumption == Targets # {}
ASSUME BranchesAssumption == Branches \in Nat \ {0}
ASSUME PoolsAssumption == "none" \notin Pools

VARIABLES
  subject,
  mounted, link, exists, contents, newest, bad, loading, path, draft, watcher,
  events, batch, override, applied, overridden,
  local, default, edge, async, building, created, caller, order, branch,
  graph, durable, selector, built, stacks, source, delayed, fate, group, locked,
  ended, stopping, crashed

loaderVars == <<mounted, link, exists, contents, newest, bad, loading, path, draft, watcher,
                events, batch, override, applied, overridden>>
linkVars == <<local, default, edge, async, building, created, caller, order, branch>>
operatorVars == <<graph, durable, selector, built, stacks, source, delayed, fate, group, locked,
                  ended, stopping, crashed>>

Loader == INSTANCE ConfigLoader WITH content <- contents

Links == INSTANCE StreamGraph WITH link <- edge, phase <- building

-----------------------------------------------------------------------------
(* A graph of operators: the first stream is no branch of a case, and only *)
(* a case has branches (WhenStream.__init__).                               *)
IsGraph(g) ==
  LET Outputs == [node : 0 .. Len(g), how : {"call", "task", "pool"}, side : {1, 2}]
      BranchAt(n) == n # 0 /\ g[n].op = "when"
  IN  /\ g # <<>> /\ ~BranchAt(1)
      /\ g \in Seq([op : STRING, type : STRING, emits : Nat, gives : SUBSET ValueTypes, to : Seq(Outputs)])
      /\ \A n \in 1 .. Len(g) : \A k \in DOMAIN g[n].to : BranchAt(g[n].to[k].node) => g[n].op = "case"

ASSUME GraphsAssumption == \A g \in Graphs : IsGraph(g)

(* The graphs of OperatorGraph: a delay behind a flatmap, whose consumer   *)
(* it calls or starts; a process with its error stream; a switch whose     *)
(* branches meet in a join; one with two branches of a type and none of    *)
(* the other.                                                              *)

Operator(op, emits, to) == [op |-> op, type |-> "", emits |-> emits, gives |-> {"a"}, to |-> to]
Left(n, how) == [node |-> n, how |-> how, side |-> 1]
Right(n, how) == [node |-> n, how |-> how, side |-> 2]
Typed(t, node) == [node EXCEPT !.type = t]

DelayGraph(how) ==
  <<Operator("input", 0, <<Left(2, "call")>>), Operator("merge", 0, <<Left(3, "call")>>),
    Operator("flatmap", 2, <<Left(4, "call")>>), Operator("delay", 1, <<Left(5, how)>>),
    Operator("link", 0, <<Left(6, "call")>>), Operator("sink", 0, <<>>)>>

ProcessGraph ==
  <<Operator("process", 2, <<Left(2, "call"), Left(5, "call")>>), Operator("iterable", 1, <<Left(3, "pool")>>),
    Operator("filter", 0, <<Left(4, "call")>>), Operator("keyby", 1, <<Left(0, "call")>>),
    Operator("error", 0, <<Left(6, "call")>>), Operator("sink", 1, <<Left(7, "call")>>),
    Operator("map", 1, <<Left(0, "call")>>)>>

JoinGraph(join) ==
  <<[Operator("flatmap", 2, <<Left(2, "call")>>) EXCEPT !.gives = ValueTypes],
    Operator("case", 0, <<Left(3, "call"), Left(4, "pool")>>),
    Typed("a", Operator("when", 0, <<Left(5, "call")>>)), Typed("b", Operator("when", 0, <<Right(5, "call")>>)),
    join, Operator("sink", 0, <<>>)>>

SwitchGraph ==
  <<[Operator("map", 1, <<Left(2, "call")>>) EXCEPT !.gives = ValueTypes],
    Operator("case", 0, <<Left(3, "call"), Left(4, "call")>>),
    Typed("a", Operator("when", 0, <<>>)), Typed("a", Operator("when", 0, <<>>))>>

MCGraphs ==
  {DelayGraph("call"), DelayGraph("task"), ProcessGraph, SwitchGraph,
   JoinGraph(Typed("Left", Operator("join", 1, <<Left(6, "call")>>))),
   JoinGraph(Operator("multijoin", 1, <<Left(6, "call")>>))}

Operators ==
  INSTANCE OperatorGraph WITH waiting <- delayed, sealed <- stopping, exited <- crashed

-----------------------------------------------------------------------------
MCInit ==
  /\ subject \in {"app", "loader", "links", "operators"}
  /\ subject # "operators" => graph = (CHOOSE g \in Graphs : TRUE) /\ durable = FALSE
  /\ subject # "links" => local = TRUE /\ default = "ParallelCall" /\ async = {}
                          /\ edge = [b \in 1 .. Branches |-> Links!NoLink]
  /\ subject # "loader" => mounted = FALSE /\ override = FALSE /\ link = CHOOSE t \in Targets : TRUE
  /\ Init /\ Loader!Init /\ Links!Init /\ Operators!Init

(* Items are interchangeable: they come in the order of their names. *)
AppNext ==
  /\ subject = "app" /\ Next
  /\ \A i, j \in Items : (i < j /\ state'[i] = "new") => state'[j] = "new"
  /\ UNCHANGED <<subject, loaderVars, linkVars, operatorVars>>

LoaderNext ==
  subject = "loader" /\ Loader!Next /\ UNCHANGED <<subject, vars, linkVars, operatorVars>>

LinksNext ==
  subject = "links" /\ Links!Next /\ UNCHANGED <<subject, vars, loaderVars, operatorVars>>

OperatorsNext ==
  subject = "operators" /\ Operators!Next /\ UNCHANGED <<subject, vars, loaderVars, linkVars>>

MCNext == AppNext \/ LoaderNext \/ LinksNext \/ OperatorsNext

MCSpec == MCInit /\ [][MCNext]_<<subject, vars, loaderVars, linkVars, operatorVars>>

(* A loader loads from the start, but only where it moves. *)
LoaderMoves(A) == subject = "loader" /\ A

LoaderFairness ==
  /\ WF_loaderVars(LoaderMoves(Loader!Resolve)) /\ WF_loaderVars(LoaderMoves(Loader!StartWatching))
  /\ WF_loaderVars(LoaderMoves(Loader!ReadValues)) /\ WF_loaderVars(LoaderMoves(Loader!InitService))
  /\ WF_loaderVars(LoaderMoves(Loader!Report)) /\ WF_loaderVars(LoaderMoves(Loader!Consider))
  /\ WF_loaderVars(LoaderMoves(Loader!Reload))

MCFairSpec == MCSpec /\ Fairness /\ LoaderFairness /\ Operators!Fairness

(* ConfigLoader's: a version written to a plain values file is noticed and *)
(* reaches the configuration of the running service.                       *)
WriteReaches == [](subject = "loader" => Loader!WriteNoticed) /\ (subject # "loader" \/ Loader!WriteReaches)

(* StreamGraph's: links that service_init accepts can be built, each on    *)
(* the pool it names, and a branch that runs inside consume() keeps the    *)
(* message from no asynchronous branch.                                    *)
LinksServed == Links!ValidatedBuilds /\ Links!AsyncBranchesServed

(* OperatorGraph's: a delayed value meets one fate, and a value that a     *)
(* case hands to a branch is of the branch's type.                         *)
OneFate == Operators!OneFate /\ Operators!RightBranch

(* OperatorGraph's: the source's consume() comes to an end.                *)
MessageSettles == Operators!MessageSettles
=============================================================================
