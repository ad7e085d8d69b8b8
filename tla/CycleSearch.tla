---------------------------- MODULE CycleSearch ----------------------------
(***************************************************************************)
(* The depth-first search of services/task_dependencies.py (_has_cycle)    *)
(* call by call, on every graph over the tasks of a board: does it answer  *)
(* TRUE exactly for the graphs with a cycle?                               *)
(***************************************************************************)
EXTENDS Naturals, Sequences, TaskGraph

VARIABLES
  edges,     \* <<task, dependency>> pairs of the graph searched
  roots,     \* start nodes not tried yet
  tried,     \* edges the loops of the active and returned calls went over
  visited,   \* nodes dfs() has been called on
  inStack,   \* nodes whose dfs() call is active
  stack,     \* the active calls, innermost last
  answer     \* what the search returned, or "searching"

searchVars == <<edges, roots, tried, visited, inStack, stack, answer>>

SearchStart ==
  /\ edges \in SUBSET (Task \X Task)
  /\ roots = Task
  /\ tried = {} /\ visited = {} /\ inStack = {} /\ stack = <<>>
  /\ answer = "searching"

(* dfs(n): a node in the stack ends the whole search, a node visited before *)
(* returns at once, any other becomes the innermost call.                   *)
ClosesOnVisited(n) == n \in visited   \* variant
ClosesCycle(n) == n \in inStack

Call(n) ==
  \/ /\ ClosesCycle(n)
     /\ answer' = "cycle"
     /\ UNCHANGED <<visited, inStack, stack>>
  \/ /\ ~ClosesCycle(n) /\ n \in visited
     /\ UNCHANGED <<visited, inStack, stack, answer>>
  \/ /\ ~ClosesCycle(n) /\ n \notin visited
     /\ visited' = visited \cup {n} /\ inStack' = inStack \cup {n}
     /\ stack' = Append(stack, n)
     /\ UNCHANGED answer

Searching == answer = "searching"
Innermost == stack[Len(stack)]

(* any(dfs(start_node) for start_node in nodes)                             *)
TryRoot(n) ==
  /\ Searching /\ stack = <<>> /\ n \in roots
  /\ roots' = roots \ {n}
  /\ Call(n)
  /\ UNCHANGED <<edges, tried>>

(* for nxt in edges.get(current, set()): a set is iterated in any order.    *)
FollowEdge(n) ==
  /\ Searching /\ stack # <<>>
  /\ <<Innermost, n>> \in edges \ tried
  /\ tried' = tried \cup {<<Innermost, n>>}
  /\ Call(n)
  /\ UNCHANGED <<edges, roots>>

StillInStack(n) == inStack   \* variant
LeaveStack(n) == inStack \ {n}

Return ==
  /\ Searching /\ stack # <<>>
  /\ \A n \in Task : <<Innermost, n>> \in edges => <<Innermost, n>> \in tried
  /\ inStack' = LeaveStack(Innermost)
  /\ stack' = SubSeq(stack, 1, Len(stack) - 1)
  /\ UNCHANGED <<edges, roots, tried, visited, answer>>

NothingFound ==
  /\ Searching /\ stack = <<>> /\ roots = {}
  /\ answer' = "acyclic"
  /\ UNCHANGED <<edges, roots, tried, visited, inStack, stack>>

SearchNext ==
  \/ \E n \in Task : TryRoot(n) \/ FollowEdge(n)
  \/ Return \/ NothingFound

SearchSpec == SearchStart /\ [][SearchNext]_searchVars

-----------------------------------------------------------------------------
(* Properties *)

SearchTyped ==
  /\ edges \subseteq Task \X Task /\ tried \subseteq edges
  /\ roots \subseteq Task /\ visited \subseteq Task /\ inStack \subseteq visited
  /\ stack \in Seq(Task)
  /\ answer \in {"searching", "cycle", "acyclic"}

(* Nodes whose call has returned.                                           *)
Finished == visited \ inStack

(* The active calls form a path of distinct nodes.                          *)
StackIsPath ==
  /\ inStack = {stack[i] : i \in 1..Len(stack)}
  /\ \A i, j \in 1..Len(stack) : stack[i] = stack[j] => i = j
  /\ \A i \in 1..(Len(stack) - 1) : <<stack[i], stack[i + 1]>> \in edges

(* Edges followed lead to a finished node or to the next call.              *)
TriedLead ==
  Searching =>
    \A i \in 1..Len(stack), m \in Task :
      <<stack[i], m>> \in tried => m \in Finished \/ (i < Len(stack) /\ m = stack[i + 1])

FinishedClosed == \A n \in Finished, m \in Task : <<n, m>> \in edges => m \in Finished
FinishedAcyclic ==
  \A S \in SUBSET Finished : S # {} => \E x \in S : \A y \in S : <<x, y>> \notin edges

(* Every node is still to try or visited; edges are followed from visited   *)
(* nodes.                                                                   *)
Progress ==
  /\ Task \subseteq roots \cup visited
  /\ \A n, m \in Task : <<n, m>> \in tried => n \in visited

AnswerInv ==
  /\ answer = "cycle" => ~Acyclic(edges)
  /\ answer = "acyclic" => stack = <<>> /\ roots = {}

\* The search in progress (the inductive invariant): what has been searched is
\* closed and free of cycles, what is being searched is a path.
SearchInv ==
  SearchTyped /\ StackIsPath /\ TriedLead /\ FinishedClosed /\ FinishedAcyclic
  /\ Progress /\ AnswerInv

\* The search answers "cycle" exactly on the graphs that have one, whatever the
\* order in which the sets of nodes and successors are iterated.
AnswersRightly == ~Searching => (answer = "cycle" <=> ~Acyclic(edges))
=============================================================================
