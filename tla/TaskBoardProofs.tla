-------------------------- MODULE TaskBoardProofs --------------------------
(***************************************************************************)
(* Proofs about TaskBoard for any number of tasks, agents, approvals and   *)
(* request slots.  BoardInv is inductive however the requests overlap: the *)
(* integrity of links is what keeps at most one approval pending when a    *)
(* deletion hands an approval over.                                        *)
(*                                                                         *)
(* That the graph stays acyclic, and that blocked tasks stay parked, holds *)
(* for one request at a time only, and is proved for one slot: two edits   *)
(* that are validated before either commits save a cycle.                  *)
(*                                                                         *)
(* The last part is about the search of CycleSearch, on which the edits of *)
(* dependencies rely: it answers rightly on every graph over the tasks     *)
(* (partial correctness of _has_cycle), so that what it answers on the     *)
(* graph of an edit is what the handlers are modelled to require.          *)
(***************************************************************************)
EXTENDS TaskBoard, CycleSearch, TLAPS

BoardInv == ColumnsOK /\ LinksIntact /\ OnePendingPerTask

\* An empty board satisfies the invariant.
LEMMA InitInv == Init => BoardInv
<1>1. ASSUME Init PROVE ColumnsOK
  BY <1>1, BoardAssumption
     DEF Init, ColumnsOK, Row, NewRow, ApprovalRow, NoApproval, Request, Idle, Phase, Status, Edges
<1>2. ASSUME Init PROVE LinksIntact /\ OnePendingPerTask
  BY <1>2 DEF Init, LinksIntact, OnePendingPerTask, NoApproval
<1>3. QED BY <1>1, <1>2 DEF BoardInv

\* Removing edges keeps a graph acyclic.
LEMMA AcyclicMonotone ==
  ASSUME NEW E, NEW F, F \subseteq E, Acyclic(E)
  PROVE  Acyclic(F)
BY DEF Acyclic

\* Whatever others committed since an edit was validated, its rows lead from a task
\* of the board to tasks of the board.
LEMMA EditKeepsLinks ==
  ASSUME BoardInv, NEW s \in Slot, req[s].task \in tasks, EdgesFit(s),
         tasks' = tasks, deps' = SetDeps(s)
  PROVE  /\ deps' \subseteq Task \X Task
         /\ \A e \in deps' : e[1] \in tasks' /\ e[2] \in tasks'
<1>1. CASE req[s].new = Keep
  BY <1>1 DEF BoardInv, ColumnsOK, LinksIntact, SetDeps
<1>2. CASE req[s].new # Keep
  <2>1. /\ deps' = Overlay(req[s].task, req[s].new \cup OthersEdges(s))
        /\ req[s].new \subseteq tasks
    BY <1>2 DEF SetDeps, EdgesFit
  <2>2. OthersEdges(s) \subseteq tasks
    BY DEF OthersEdges, DependsOn, BoardInv, LinksIntact
  <2>3. QED BY <2>1, <2>2 DEF Overlay, BoardInv, ColumnsOK, LinksIntact
<1>3. QED BY <1>1, <1>2

\* The columns the ORM writes are columns of a row.
LEMMA FlushType ==
  ASSUME NEW now \in Row, NEW loaded \in Row, NEW wanted \in Row, NEW touched
  PROVE  Flush(now, loaded, wanted, touched) \in Row
BY DEF Flush, Row

\* A field of the payload, or the loaded value, is of the column's type.
LEMMA OrLoadedType ==
  ASSUME NEW S, NEW field \in S \cup {Keep}, NEW current \in S
  PROVE  OrLoaded(field, current) \in S
BY DEF OrLoaded

\* A handler that leaves tasks, dependencies and approvals alone, and writes rows
\* and its slot with values of their types.
LEMMA RowsKeepInv ==
  ASSUME BoardInv, UNCHANGED <<tasks, deps, approval>>,
         row' \in [Task -> Row], rules' \in Rules, agents' \subseteq Worker,
         req' \in [Slot -> Request]
  PROVE  BoardInv'
BY DEF BoardInv, ColumnsOK, LinksIntact, OnePendingPerTask, PendingOn, LinkedTasks

\* The first commit of a worker's or admin's PATCH.
LEMMA CommitTaskKeepsInv ==
  ASSUME BoardInv, NEW s \in Slot, NEW wanted \in Row, NEW touched, NEW requested,
         CommitTask(s, wanted, touched, requested)
  PROVE  BoardInv'
<1> DEFINE t == req[s].task
           after == Flush(row[t], req[s].snap, wanted, touched)
<1>1. t \in tasks /\ t \in Task /\ req[s].snap \in Row /\ row[t] \in Row
  BY DEF CommitTask, BoardInv, ColumnsOK, Request
<1>2. after \in Row
  BY <1>1, FlushType
<1>3. row' = [row EXCEPT ![t] = after] /\ deps' = SetDeps(s) /\ EdgesFit(s)
      /\ UNCHANGED <<tasks, approval, rules, agents>>
  BY DEF CommitTask
<1>4. row' \in [Task -> Row]
  BY <1>1, <1>2, <1>3 DEF BoardInv, ColumnsOK
<1>5. req' \in [Slot -> Request]
  <2>1. Idle \in Request
    BY DEF Idle, Request, Phase, NewRow, Row, Status, Edges
  <2>2. PICK b \in BOOLEAN :
          req' = [req EXCEPT ![s] =
                    [Idle EXCEPT !.phase = "committed", !.task = t, !.reopened = b]]
    BY DEF CommitTask
  <2>3. [Idle EXCEPT !.phase = "committed", !.task = t, !.reopened = b] \in Request
    BY <1>1, <2>1 DEF Request, Phase
  <2>4. QED BY <2>2, <2>3 DEF BoardInv, ColumnsOK
<1>6. /\ deps' \subseteq Task \X Task
      /\ \A e \in deps' : e[1] \in tasks' /\ e[2] \in tasks'
  BY <1>1, <1>3, EditKeepsLinks
<1>7. QED
  BY <1>3, <1>4, <1>5, <1>6
     DEF BoardInv, ColumnsOK, LinksIntact, OnePendingPerTask, PendingOn, LinkedTasks

\* A worker's update asks for a row.
LEMMA WorkerUpdateKeepsInv ==
  ASSUME BoardInv, NEW s \in Slot, NEW w \in Worker, NEW to \in Status,
         WorkerUpdate(s, w, to)
  PROVE  BoardInv'
<1> DEFINE loaded == req[s].snap
           leaves == to \in {"inbox", "review"}
           wanted == [status |-> to, assignee |-> IF leaves THEN NoOne ELSE w,
                      started |-> ~leaves /\ (to = "in_progress" \/ loaded.started)]
<1>1. wanted \in Row
  BY DEF Row, Agent
<1>2. PICK touched : CommitTask(s, wanted, touched, to # loaded.status)
  BY DEF WorkerUpdate
<1>3. QED BY <1>1, <1>2, CommitTaskKeepsInv

\* An admin's update asks for a row, whichever fields its payload sets.
LEMMA AdminUpdateKeepsInv ==
  ASSUME BoardInv, NEW s \in Slot, NEW to \in Status \cup {Keep},
         NEW who \in Agent \cup {NoOne, Keep},
         AdminUpdate(s, to, who)
  PROVE  BoardInv'
<1> DEFINE t == req[s].task
           loaded == req[s].snap
           target == OrLoaded(to, loaded.status)
           reset == /\ BlockedBy(EffectiveDeps(s)) # {}
                    /\ ~(loaded.status = "done" /\ target = "done")
           status == IF reset THEN "inbox" ELSE target
           statusSet == reset \/ to # Keep
           leaves == statusSet /\ status \in {"inbox", "review"}
           stamped == statusSet /\ status = "in_progress"
           wanted == [status |-> status,
                      assignee |-> IF reset THEN NoOne
                                   ELSE OrLoaded(who, IF leaves THEN NoOne
                                                      ELSE loaded.assignee),
                      started |-> ~leaves /\ (loaded.started \/ stamped)]
<1>1. loaded \in Row
  BY DEF BoardInv, ColumnsOK, Request
<1>2. loaded.status \in Status /\ loaded.assignee \in Agent \cup {NoOne}
      /\ loaded.started \in BOOLEAN
  BY <1>1 DEF Row
<1>3. target \in Status
  BY <1>2, OrLoadedType
<1>4. OrLoaded(who, IF leaves THEN NoOne ELSE loaded.assignee) \in Agent \cup {NoOne}
  BY <1>2 DEF OrLoaded
<1>5. status \in Status
  BY <1>3 DEF Status
<1>6. (~leaves /\ (loaded.started \/ stamped)) \in BOOLEAN
  OBVIOUS
<1>7. wanted \in Row
  <2> HIDE DEF target, reset, status, statusSet, leaves, stamped
  <2>1. QED BY <1>4, <1>5, <1>6 DEF Row
<1>8. PICK touched : CommitTask(s, wanted, touched, to # Keep /\ to # loaded.status)
  BY DEF AdminUpdate
<1>9. QED
  <2> HIDE DEF wanted
  <2>1. QED BY <1>7, <1>8, CommitTaskKeepsInv

\* The lead's update, in one transaction.
LEMMA LeadUpdateKeepsInv ==
  ASSUME BoardInv, NEW s \in Slot, NEW to \in {"inbox", "done", Keep},
         NEW who \in Worker \cup {NoOne, Keep},
         LeadUpdate(s, to, who)
  PROVE  BoardInv'
<1> DEFINE t == req[s].task
           loaded == req[s].snap
           wanted == [status |-> OrLoaded(to, loaded.status),
                      assignee |-> IF to = "inbox" THEN NoOne
                                   ELSE OrLoaded(who, loaded.assignee),
                      started |-> to # "inbox" /\ loaded.started]
           after == Flush(row[t], loaded, wanted, {})
<1>1. t \in tasks /\ t \in Task /\ loaded \in Row /\ row[t] \in Row
  BY DEF LeadUpdate, BoardInv, ColumnsOK, Request
<1>2. loaded.status \in Status /\ loaded.assignee \in Agent \cup {NoOne}
      /\ loaded.started \in BOOLEAN
  BY <1>1 DEF Row
<1>3. OrLoaded(to, loaded.status) \in Status
  BY <1>2 DEF OrLoaded, Status
<1>4. OrLoaded(who, loaded.assignee) \in Agent \cup {NoOne}
  BY <1>2 DEF OrLoaded, Agent
<1>5. wanted \in Row
  BY <1>2, <1>3, <1>4 DEF Row
<1>6. after \in Row
  <2> HIDE DEF wanted
  <2>1. QED BY <1>1, <1>5, FlushType
<1>7. /\ row' = [row EXCEPT ![t] = after] /\ deps' = SetDeps(s) /\ EdgesFit(s)
      /\ req' = [req EXCEPT ![s] = Idle]
      /\ UNCHANGED <<tasks, approval, rules, agents>>
  BY DEF LeadUpdate
<1>8. row' \in [Task -> Row]
  <2> HIDE DEF after
  <2>1. QED BY <1>1, <1>6, <1>7 DEF BoardInv, ColumnsOK
<1>9. req' \in [Slot -> Request]
  BY <1>7 DEF BoardInv, ColumnsOK, Request, Idle, Phase, NewRow, Row, Status, Edges
<1>10. /\ deps' \subseteq Task \X Task
       /\ \A e \in deps' : e[1] \in tasks' /\ e[2] \in tasks'
  BY <1>1, <1>7, EditKeepsLinks
<1>11. QED
  BY <1>7, <1>8, <1>9, <1>10
     DEF BoardInv, ColumnsOK, LinksIntact, OnePendingPerTask, PendingOn, LinkedTasks

\* A created task has no dependents yet, and no approval is linked to it.
LEMMA CreateKeepsInv ==
  ASSUME BoardInv, NEW t \in Task, NEW D \in SUBSET Task, Fresh(t), ValidDeps(t, D),
         tasks' = tasks \cup {t}, row' \in [Task -> Row],
         deps' = deps \cup {<<t, d>> : d \in D},
         req' \in [Slot -> Request], UNCHANGED <<approval, rules, agents>>
  PROVE  BoardInv'
<1>1. ColumnsOK'
  BY DEF BoardInv, ColumnsOK
<1>2. LinksIntact'
  <2>1. \A e \in deps' : e[1] \in tasks' /\ e[2] \in tasks'
    BY DEF ValidDeps, BoardInv, LinksIntact
  <2>2. QED BY <2>1 DEF BoardInv, LinksIntact
<1>3. OnePendingPerTask'
  <2>1. \A u \in Task : PendingOn(u)' = PendingOn(u)
    BY DEF PendingOn, LinkedTasks
  <2>2. PendingOn(t) = {}
    <3>1. \A a \in Approval : LinkedTasks(a) \subseteq tasks
      BY DEF BoardInv, LinksIntact, LinkedTasks
    <3>2. QED BY <3>1 DEF Fresh, PendingOn
  <2>3. QED BY <2>1, <2>2 DEF BoardInv, ColumnsOK, OnePendingPerTask
<1>4. QED BY <1>1, <1>2, <1>3 DEF BoardInv

\* Deleting a task repairs every approval that was linked to it.
LEMMA DeleteKeepsInv ==
  ASSUME BoardInv, NEW s \in Slot, NEW t \in Task, NEW byLead \in BOOLEAN,
         DeleteTask(s, t, byLead)
  PROVE  BoardInv'
<1>1. PICK heir \in [Approval -> Task] :
        /\ \A a \in Approval :
             approval[a].primary = t /\ approval[a].links \ {t} # {}
               => heir[a] \in approval[a].links \ {t}
        /\ approval' = [a \in Approval |-> Unlinked(a, t, heir[a])]
  BY DEF DeleteTask
<1>2. /\ tasks' = tasks \ {t} /\ row' = [row EXCEPT ![t] = NewRow]
      /\ deps' = {e \in deps : e[1] # t /\ e[2] # t}
      /\ req' = [req EXCEPT ![s] = IF byLead THEN Idle ELSE Raised]
      /\ UNCHANGED <<rules, agents>>
  BY DEF DeleteTask
<1>3. ASSUME NEW a \in Approval
      PROVE  /\ approval'[a] \in ApprovalRow
             /\ approval'[a].links = {} \/ approval'[a].links = approval[a].links \ {t}
             /\ IF approval'[a].links = {} THEN approval'[a].primary = NoTask
                ELSE approval'[a].primary \in approval'[a].links
             /\ approval'[a].status = "none" => approval'[a] = NoApproval
             /\ approval'[a] = NoApproval \/ approval'[a].status = approval[a].status
  <2> DEFINE links == approval[a].links \ {t}
  <2>1. /\ approval[a] \in ApprovalRow
        /\ IF approval[a].links = {} THEN approval[a].primary = NoTask
           ELSE approval[a].primary \in approval[a].links
        /\ approval[a].status = "none" => approval[a] = NoApproval
    BY DEF BoardInv, ColumnsOK, LinksIntact
  <2>2. approval'[a] = Unlinked(a, t, heir[a])
    BY <1>1
  <2>3. CASE approval[a].primary # t
    <3>1. approval'[a] = [approval[a] EXCEPT !.links = links]
      BY <2>2, <2>3 DEF Unlinked
    <3>2. /\ approval'[a] \in ApprovalRow /\ approval'[a].links = links
          /\ approval'[a].status = approval[a].status
          /\ approval'[a].primary = approval[a].primary
      BY <2>1, <3>1 DEF ApprovalRow
    <3>3. approval[a].links = {} => approval'[a] = approval[a]
      BY <2>1, <3>1 DEF ApprovalRow
    <3>4. approval[a].status = "none" => approval'[a] = NoApproval
      BY <2>1, <3>3 DEF NoApproval
    <3>5. IF links = {} THEN approval[a].primary = NoTask
          ELSE approval[a].primary \in links
      BY <2>1, <2>3
    <3>6. QED BY <3>2, <3>4, <3>5
  <2>4. CASE approval[a].primary = t /\ links = {}
    <3>1. approval'[a] = NoApproval
      BY <2>2, <2>4 DEF Unlinked
    <3>2. QED BY <3>1 DEF ApprovalRow, NoApproval
  <2>5. CASE approval[a].primary = t /\ links # {}
    <3>1. approval'[a] = [status |-> approval[a].status, primary |-> heir[a], links |-> links]
      BY <2>2, <2>5 DEF Unlinked
    <3>2. heir[a] \in links /\ links \in SUBSET Task
      BY <1>1, <2>1, <2>5 DEF ApprovalRow
    <3>3. approval[a].status # "none"
      BY <2>1, <2>5, BoardAssumption DEF NoApproval
    <3>4. QED BY <2>1, <3>1, <3>2, <3>3 DEF ApprovalRow
  <2>6. QED BY <2>3, <2>4, <2>5
<1>4. ColumnsOK'
  <2>1. approval' \in [Approval -> ApprovalRow]
    BY <1>1, <1>3
  <2>2. row' \in [Task -> Row]
    BY <1>2 DEF BoardInv, ColumnsOK, NewRow, Row, Status
  <2>3. req' \in [Slot -> Request]
    <3>1. Idle \in Request /\ Raised \in Request
      BY DEF Idle, Raised, Request, Phase, NewRow, Row, Status, Edges
    <3>2. QED BY <1>2, <3>1 DEF BoardInv, ColumnsOK
  <2>4. QED BY <1>2, <2>1, <2>2, <2>3 DEF BoardInv, ColumnsOK
<1>5. LinksIntact'
  <2>1. \A e \in deps' : e[1] \in tasks' /\ e[2] \in tasks'
    BY <1>2 DEF BoardInv, LinksIntact
  <2>2. \A a \in Approval : approval'[a].links \subseteq tasks'
    BY <1>2, <1>3 DEF BoardInv, LinksIntact
  <2>3. QED BY <1>3, <2>1, <2>2 DEF LinksIntact
<1>6. OnePendingPerTask'
  <2>1. ASSUME NEW u \in tasks', NEW a \in Approval, a \in PendingOn(u)'
        PROVE  a \in PendingOn(u)
    <3>1. /\ approval'[a].status = "pending" /\ approval[a].status = "pending"
          /\ u \in IF approval'[a].links = {} THEN {approval'[a].primary} \ {NoTask}
                  ELSE approval'[a].links
      BY <1>3, <2>1 DEF PendingOn, LinkedTasks, NoApproval
    <3>2. u \in approval[a].links
      BY <1>3, <3>1
    <3>3. QED BY <3>1, <3>2 DEF PendingOn, LinkedTasks
  <2>2. \A u \in tasks' : PendingOn(u)' \subseteq PendingOn(u)
    BY <2>1 DEF PendingOn
  <2>3. QED BY <1>2, <2>2 DEF BoardInv, OnePendingPerTask
<1>7. QED BY <1>4, <1>5, <1>6 DEF BoardInv

\* A new approval finds its tasks free of pending ones.
LEMMA CreateApprovalKeepsInv ==
  ASSUME BoardInv, NEW a \in Approval, NEW v \in Verdict, NEW T \in SUBSET Task,
         NEW p \in Task \cup {NoTask}, CreateApproval(a, v, T, p)
  PROVE  BoardInv'
<1> DEFINE new == [status |-> v, primary |-> p, links |-> T]
<1>1. /\ approval[a] = NoApproval /\ T \subseteq tasks
      /\ IF T = {} THEN p = NoTask ELSE p \in T
      /\ v = "pending" => NoConflict(a, T)
      /\ approval' = [approval EXCEPT ![a] = new]
      /\ UNCHANGED <<tasks, row, deps, rules, agents, req>>
  BY DEF CreateApproval
<1>2. new \in ApprovalRow /\ v # "none"
  BY DEF ApprovalRow, Verdict
<1>3. approval'[a] = new /\ \A b \in Approval : b # a => approval'[b] = approval[b]
  BY <1>1 DEF BoardInv, ColumnsOK
<1>4. ColumnsOK'
  <2> HIDE DEF new
  <2>1. QED BY <1>1, <1>2 DEF BoardInv, ColumnsOK
<1>5. LinksIntact'
  BY <1>1, <1>2, <1>3 DEF BoardInv, LinksIntact
<1>6. ASSUME NEW t \in tasks
      PROVE  \/ PendingOn(t)' \subseteq PendingOn(t)
             \/ PendingOn(t)' \subseteq {a}
  <2>1. CASE t \in T /\ v = "pending"
    <3>1. PendingOn(t) \subseteq {a}
      BY <1>1, <2>1 DEF NoConflict
    <3>2. QED BY <1>3, <3>1 DEF PendingOn, LinkedTasks
  <2>2. CASE ~(t \in T /\ v = "pending")
    <3>1. t # NoTask
      BY BoardAssumption DEF BoardInv, ColumnsOK
    <3>2. QED BY <1>1, <1>3, <2>2, <3>1 DEF PendingOn, LinkedTasks
  <2>3. QED BY <2>1, <2>2
<1>7. OnePendingPerTask'
  BY <1>1, <1>6 DEF BoardInv, OnePendingPerTask
<1>8. QED BY <1>4, <1>5, <1>7 DEF BoardInv

\* A reopened approval finds its tasks free of other pending ones.
LEMMA UpdateApprovalKeepsInv ==
  ASSUME BoardInv, NEW a \in Approval, NEW v \in Verdict, UpdateApproval(a, v)
  PROVE  BoardInv'
<1>1. /\ approval[a] # NoApproval
      /\ v = "pending" /\ approval[a].status # "pending"
           => NoConflict(a, LinkedTasks(a))
      /\ approval' = [approval EXCEPT ![a].status = v]
      /\ UNCHANGED <<tasks, row, deps, rules, agents, req>>
  BY DEF UpdateApproval
<1>2. /\ approval'[a].status = v /\ approval'[a].links = approval[a].links
      /\ approval'[a].primary = approval[a].primary /\ v # "none"
      /\ \A b \in Approval : b # a => approval'[b] = approval[b]
  BY <1>1 DEF BoardInv, ColumnsOK, ApprovalRow, Verdict
<1>3. ColumnsOK'
  BY <1>1 DEF BoardInv, ColumnsOK, ApprovalRow
<1>4. LinksIntact'
  BY <1>1, <1>2 DEF BoardInv, LinksIntact
<1>5. \A b \in Approval : LinkedTasks(b)' = LinkedTasks(b)
  BY <1>2 DEF LinkedTasks
<1>6. ASSUME NEW t \in tasks
      PROVE  \/ PendingOn(t)' \subseteq PendingOn(t)
             \/ PendingOn(t)' \subseteq {a}
  <2>1. CASE t \in LinkedTasks(a) /\ v = "pending" /\ approval[a].status # "pending"
    <3>1. PendingOn(t) \subseteq {a}
      BY <1>1, <2>1 DEF NoConflict
    <3>2. QED BY <1>2, <1>5, <3>1 DEF PendingOn
  <2>2. CASE ~(t \in LinkedTasks(a) /\ v = "pending" /\ approval[a].status # "pending")
    BY <1>2, <1>5, <2>2 DEF PendingOn
  <2>3. QED BY <2>1, <2>2
<1>7. OnePendingPerTask'
  BY <1>1, <1>6 DEF BoardInv, OnePendingPerTask
<1>8. QED BY <1>3, <1>4, <1>7 DEF BoardInv

\* Every handler's step preserves the invariant.
LEMMA HandlerKeepsInv ==
  ASSUME BoardInv, NEW s \in Slot, Handler(s)
  PROVE  BoardInv'
<1>1. /\ NewRow \in Row /\ Idle \in Request /\ Raised \in Request
      /\ row \in [Task -> Row] /\ rules \in Rules /\ agents \subseteq Worker
      /\ req \in [Slot -> Request] /\ tasks \subseteq Task
  BY DEF BoardInv, ColumnsOK, Idle, Raised, Request, Phase, NewRow, Row, Status, Edges
<1>2. ASSUME NEW t \in Task, Load(s, t) PROVE BoardInv'
  <2>1. [Idle EXCEPT !.phase = "loaded", !.task = t,
                     !.snap = row[t], !.callers = agents] \in Request
    BY <1>1 DEF Request, Phase
  <2>2. req' \in [Slot -> Request]
    BY <1>1, <1>2, <2>1 DEF Load
  <2>3. QED BY <1>1, <1>2, <2>2, RowsKeepInv DEF Load
<1>3. CASE Abandon(s)
  BY <1>1, <1>3, RowsKeepInv DEF Abandon
<1>4. ASSUME AnyUpdate(s) PROVE BoardInv'
  BY <1>4, WorkerUpdateKeepsInv, AdminUpdateKeepsInv, LeadUpdateKeepsInv DEF AnyUpdate
<1>5. CASE Reconcile(s)
  BY <1>1, <1>5, RowsKeepInv DEF Reconcile
<1>6. CASE Leave(s)
  BY <1>1, <1>6, RowsKeepInv DEF Leave
<1>7. ASSUME NEW t \in Task, NEW status \in Status, NEW who \in Agent \cup {NoOne},
             NEW D \in SUBSET Task, NEW byLead \in BOOLEAN,
             CreateTask(s, t, status, who, D, byLead)
      PROVE  BoardInv'
  <2> DEFINE new == [status |-> status, assignee |-> who, started |-> FALSE]
  <2>1. new \in Row
    BY DEF Row
  <2>2. row' = [row EXCEPT ![t] = new]
    BY <1>7 DEF CreateTask
  <2>3. row' \in [Task -> Row]
    BY <1>1, <2>1, <2>2
  <2>4. req' \in [Slot -> Request]
    BY <1>1, <1>7 DEF CreateTask
  <2>5. QED BY <1>7, <2>3, <2>4, CreateKeepsInv DEF CreateTask
<1>8. ASSUME NEW t \in Task, NEW byLead \in BOOLEAN, DeleteTask(s, t, byLead)
      PROVE  BoardInv'
  BY <1>8, DeleteKeepsInv
<1>9. ASSUME NEW to \in Status, SocketMove(s, to) PROVE BoardInv'
  <2> DEFINE t == req[s].task
             wanted == [req[s].snap EXCEPT !.status = to]
             after == Flush(row[t], req[s].snap, wanted, {})
  <2>1. t \in Task /\ req[s].snap \in Row /\ row[t] \in Row
    BY <1>1, <1>9 DEF SocketMove, Request
  <2>2. wanted \in Row
    BY <2>1 DEF Row
  <2>3. after \in Row
    BY <2>1, <2>2, FlushType
  <2>4. row' = [row EXCEPT ![t] = after]
    BY <1>9 DEF SocketMove
  <2>5. row' \in [Task -> Row]
    BY <1>1, <2>1, <2>3, <2>4
  <2>6. req' \in [Slot -> Request]
    BY <1>1, <1>9 DEF SocketMove
  <2>7. QED BY <1>1, <1>9, <2>5, <2>6, RowsKeepInv DEF SocketMove
<1>10. ASSUME NEW D \in Edges, Validate(s, D) PROVE BoardInv'
  <2>1. DependsOn(req[s].task) \in Edges
    BY DEF DependsOn, Edges
  <2>2. [req[s] EXCEPT !.new = D, !.old = DependsOn(req[s].task)] \in Request
    BY <1>1, <1>10, <2>1 DEF Request
  <2>3. req' \in [Slot -> Request]
    BY <1>1, <1>10, <2>2 DEF Validate
  <2>4. QED BY <1>1, <1>10, <2>3, RowsKeepInv DEF Validate
<1>11. QED
  BY <1>2, <1>3, <1>4, <1>5, <1>6, <1>7, <1>8, <1>9, <1>10 DEF Handler

\* Every step of the board preserves the invariant.
LEMMA BoardStepKeepsInv == BoardInv /\ [Next]_vars => BoardInv'
<1>1. /\ NewRow \in Row /\ row \in [Task -> Row] /\ RuleSet \subseteq Rules
      /\ BoardInv => rules \in Rules /\ agents \subseteq Worker
      \/ ~BoardInv
  BY BoardAssumption DEF BoardInv, ColumnsOK, NewRow, Row, Status
<1>2. ASSUME BoardInv, NEW t \in Task, NEW status \in Status, SocketCreate(t, status)
      PROVE  BoardInv'
  <2> DEFINE new == [NewRow EXCEPT !.status = status]
  <2>1. new \in Row
    BY <1>1, <1>2 DEF Row
  <2>2. row' = [row EXCEPT ![t] = new]
    BY <1>2 DEF SocketCreate
  <2>3. row' \in [Task -> Row]
    BY <1>1, <1>2, <2>1, <2>2
  <2>4. ValidDeps(t, {}) /\ {<<t, d>> : d \in {}} = {}
    BY DEF ValidDeps
  <2>5. deps' = deps \cup {<<t, d>> : d \in {}}
    BY <1>2, <2>4 DEF SocketCreate
  <2>6. req' \in [Slot -> Request]
    BY <1>2 DEF SocketCreate, BoardInv, ColumnsOK
  <2>7. QED BY <1>2, <2>3, <2>4, <2>5, <2>6, CreateKeepsInv DEF SocketCreate
<1>3. ASSUME BoardInv, NEW w \in Worker, DeleteAgent(w) PROVE BoardInv'
  <2>1. row' \in [Task -> Row]
    <3>1. \A t \in Task : [row[t] EXCEPT !.assignee = NoOne] \in Row
      BY <1>1, <1>3 DEF Row
    <3>2. QED BY <1>1, <1>3, <3>1 DEF DeleteAgent
  <2>2. QED BY <1>1, <1>3, <2>1, RowsKeepInv DEF DeleteAgent, BoardInv, ColumnsOK
<1>4. ASSUME BoardInv, NEW r \in RuleSet, SetRules(r) PROVE BoardInv'
  BY <1>1, <1>4, RowsKeepInv DEF SetRules, BoardInv, ColumnsOK
<1>5. ASSUME BoardInv, Next PROVE BoardInv'
  BY <1>2, <1>3, <1>4, <1>5, HandlerKeepsInv, CreateApprovalKeepsInv, UpdateApprovalKeepsInv
     DEF Next
<1>6. ASSUME BoardInv, UNCHANGED vars PROVE BoardInv'
  BY <1>6 DEF vars, BoardInv, ColumnsOK, LinksIntact, OnePendingPerTask,
              PendingOn, LinkedTasks
<1>7. QED BY <1>5, <1>6

\* However requests overlap, the columns keep their types, no dependency or approval
\* link dangles, and no task has two pending approvals.
THEOREM BoardInvariant == Spec => []BoardInv
BY InitInv, BoardStepKeepsInv, PTL DEF Spec

\* The assignee of every task, deleted ids included, is an agent that exists.
AssigneesExist == \A t \in Task : row[t].assignee \in agents \cup {Lead, NoOne}

\* The updates check the foreign key of the row they write.
LEMMA UpdateKeepsAssignees ==
  ASSUME BoardInv, AssigneesExist, NEW s \in Slot, AnyUpdate(s)
  PROVE  AssigneesExist'
<1>1. ASSUME NEW wanted, NEW touched, NEW requested,
             CommitTask(s, wanted, touched, requested)
      PROVE  AssigneesExist'
  <2>1. PICK after : /\ ForeignKeys(after)
                     /\ row' = [row EXCEPT ![req[s].task] = after]
                     /\ agents' = agents
    BY <1>1 DEF CommitTask
  <2>2. QED BY <2>1 DEF BoardInv, ColumnsOK, AssigneesExist, ForeignKeys
<1>2. ASSUME NEW w \in Worker, NEW to \in Status, WorkerUpdate(s, w, to)
      PROVE  AssigneesExist'
  BY <1>1, <1>2 DEF WorkerUpdate
<1>3. ASSUME NEW to, NEW who, AdminUpdate(s, to, who)
      PROVE  AssigneesExist'
  BY <1>1, <1>3 DEF AdminUpdate
<1>4. ASSUME NEW to, NEW who, LeadUpdate(s, to, who)
      PROVE  AssigneesExist'
  <2>1. PICK after : /\ ForeignKeys(after)
                     /\ row' = [row EXCEPT ![req[s].task] = after]
                     /\ agents' = agents
    BY <1>4 DEF LeadUpdate
  <2>2. QED BY <2>1 DEF BoardInv, ColumnsOK, AssigneesExist, ForeignKeys
<1>5. QED BY <1>2, <1>3, <1>4 DEF AnyUpdate

\* Nobody assigns a task to a deleted agent, and a deletion gives tasks back.
LEMMA StepKeepsAssignees ==
  BoardInv /\ AssigneesExist /\ [Next]_vars => AssigneesExist'
<1> SUFFICES ASSUME BoardInv, AssigneesExist, [Next]_vars PROVE AssigneesExist'
  OBVIOUS
<1>1. row \in [Task -> Row] /\ req \in [Slot -> Request]
  BY DEF BoardInv, ColumnsOK
<1>2. CASE UNCHANGED <<row, agents>>
  BY <1>2 DEF AssigneesExist
<1>3. ASSUME NEW s \in Slot, Handler(s) PROVE AssigneesExist'
  <2>1. CASE \E t \in Task : Load(s, t)
    BY <2>1, <1>2 DEF Load
  <2>2. CASE Abandon(s) \/ Leave(s) \/ \E D \in Edges : Validate(s, D)
    BY <2>2, <1>2 DEF Abandon, Leave, Validate
  <2>3. CASE Reconcile(s)
    BY <2>3, <1>1 DEF Reconcile, AssigneesExist, NewRow
  <2>4. CASE AnyUpdate(s)
    BY <2>4, UpdateKeepsAssignees
  <2>5. ASSUME NEW t \in Task, NEW status \in Status, NEW who \in Agent \cup {NoOne},
               NEW D \in SUBSET Task, NEW byLead \in BOOLEAN,
               CreateTask(s, t, status, who, D, byLead)
        PROVE  AssigneesExist'
    BY <2>5, <1>1 DEF CreateTask, AssigneesExist, ForeignKeys
  <2>6. ASSUME NEW t \in Task, NEW byLead \in BOOLEAN, DeleteTask(s, t, byLead)
        PROVE  AssigneesExist'
    BY <2>6, <1>1 DEF DeleteTask, AssigneesExist, NewRow
  <2>7. ASSUME NEW to \in Status, SocketMove(s, to) PROVE AssigneesExist'
    <3>1. req[s].snap \in Row
      BY <1>1 DEF Request
    <3>2. PICK r : r.assignee = row[req[s].task].assignee
                   /\ row' = [row EXCEPT ![req[s].task] = r] /\ agents' = agents
      BY <2>7, <3>1 DEF SocketMove, Flush, Row
    <3>3. QED BY <1>1, <3>2 DEF AssigneesExist
  <2>8. QED
    BY <1>3, <2>1, <2>2, <2>3, <2>4, <2>5, <2>6, <2>7 DEF Handler
<1>4. ASSUME NEW t \in Task, NEW status \in Status, SocketCreate(t, status)
      PROVE  AssigneesExist'
  BY <1>4, <1>1 DEF SocketCreate, AssigneesExist, NewRow
<1>5. ASSUME NEW w \in Worker, DeleteAgent(w) PROVE AssigneesExist'
  <2>1. ASSUME NEW t \in Task
        PROVE  row'[t].assignee \in (agents \ {w}) \cup {Lead, NoOne}
    <3>1. row[t] \in Row /\ row[t].assignee \in agents \cup {Lead, NoOne}
      BY <1>1 DEF AssigneesExist
    <3>2. [row[t] EXCEPT !.assignee = NoOne].assignee = NoOne
      BY <3>1 DEF Row
    <3>3. QED BY <1>5, <3>1, <3>2 DEF DeleteAgent, NewRow
  <2>2. QED BY <1>5, <2>1 DEF DeleteAgent, AssigneesExist
<1>6. ASSUME NEW a \in Approval, NEW v \in Verdict, NEW T \in SUBSET Task,
             NEW p \in Task \cup {NoTask}, CreateApproval(a, v, T, p)
      PROVE  AssigneesExist'
  BY <1>6, <1>2 DEF CreateApproval
<1>7. ASSUME NEW a \in Approval, NEW v \in Verdict, UpdateApproval(a, v)
      PROVE  AssigneesExist'
  BY <1>7, <1>2 DEF UpdateApproval
<1>8. ASSUME NEW r \in RuleSet, SetRules(r) PROVE AssigneesExist'
  BY <1>8, <1>2 DEF SetRules
<1>9. CASE UNCHANGED vars
  BY <1>9, <1>2 DEF vars
<1>10. QED BY <1>3, <1>4, <1>5, <1>6, <1>7, <1>8, <1>9 DEF Next

\* Every column and every request slot holds a value of its type, and no task is
\* assigned to a deleted agent.
THEOREM TypeCorrect == Spec => []TypeOK
<1>1. Init => AssigneesExist
  BY DEF Init, AssigneesExist, NewRow
<1>2. BoardInv /\ AssigneesExist => TypeOK
  BY DEF BoardInv, TypeOK, AssigneesExist
<1>3. QED BY <1>1, <1>2, BoardInvariant, StepKeepsAssignees, PTL DEF Spec

\* No dependency or approval is left dangling by the deletion of tasks.
THEOREM LinksStayIntact == Spec => []LinksIntact
<1>1. BoardInv => LinksIntact
  BY DEF BoardInv
<1>2. QED BY <1>1, BoardInvariant, PTL

\* At most one approval is pending on a task, deletions and reopening included.
THEOREM OnePendingOnBoard == Spec => []OnePendingPerTask
<1>1. BoardInv => OnePendingPerTask
  BY DEF BoardInv
<1>2. QED BY <1>1, BoardInvariant, PTL

-----------------------------------------------------------------------------
(* What a step may do to a status, on a board without websocket clients *)

\* A handler that changes a status went from the one it had loaded through the
\* gates; it does so unasked only to send a task that has dependencies to the inbox.
PassedGates(t) ==
  \E from \in Status \ {row'[t].status}, requested \in BOOLEAN :
     /\ Gates(t, from, row'[t].status, requested)
     /\ \/ requested
        \/ row'[t].status = "inbox" /\ \E d \in Task : <<t, d>> \in deps'

\* Or a reset did, of the dependents of a reopened task or of a deleted agent's work.
SentBack(t) ==
  /\ row'[t].status = "inbox"
  /\ agents' # agents \/ \E d \in Task : <<t, d>> \in deps'

\* A status is written only when it differs from the one that was loaded.
LEMMA WrittenStatus ==
  ASSUME NEW now, NEW loaded, NEW wanted, NEW touched,
         Flush(now, loaded, wanted, touched).status # now.status
  PROVE  /\ Flush(now, loaded, wanted, touched).status = wanted.status
         /\ wanted.status # loaded.status
BY DEF Flush

\* The common tail of the worker's and the admin's update changes one task.
LEMMA CommitChanges ==
  ASSUME BoardInv, NEW s \in Slot, NEW wanted, NEW touched, NEW requested \in BOOLEAN,
         CommitTask(s, wanted, touched, requested),
         NEW t \in tasks, row'[t].status # row[t].status
  PROVE  /\ t = req[s].task /\ deps' = SetDeps(s)
         /\ req[s].snap \in Row /\ row'[t].status = wanted.status
         /\ wanted.status # req[s].snap.status
         /\ Gates(t, req[s].snap.status, wanted.status, requested)
<1> DEFINE u == req[s].task
           after == Flush(row[u], req[s].snap, wanted, touched)
<1>1. /\ row \in [Task -> Row] /\ u \in Task /\ t \in Task /\ req[s].snap \in Row
      /\ row' = [row EXCEPT ![u] = after] /\ deps' = SetDeps(s)
      /\ Gates(u, req[s].snap.status, wanted.status, requested)
  BY DEF CommitTask, BoardInv, ColumnsOK, Request
<1>2. t = u /\ row'[t] = after
  BY <1>1
<1>3. after.status = wanted.status /\ wanted.status # req[s].snap.status
  <2>1. after.status # row[u].status
    BY <1>2
  <2>2. QED BY <2>1, WrittenStatus
<1>4. QED BY <1>1, <1>2, <1>3

\* A worker's update asks for the status it writes.
LEMMA WorkerChanges ==
  ASSUME BoardInv, NEW s \in Slot, NEW w \in Worker, NEW to \in Status,
         WorkerUpdate(s, w, to), NEW t \in tasks, row'[t].status # row[t].status
  PROVE  PassedGates(t)
<1>1. PICK wanted, touched :
        /\ wanted.status = to
        /\ CommitTask(s, wanted, touched, to # req[s].snap.status)
  <2> DEFINE leaves == to \in {"inbox", "review"}
             r == [status |-> to, assignee |-> IF leaves THEN NoOne ELSE w,
                   started |-> ~leaves /\ (to = "in_progress" \/ req[s].snap.started)]
  <2>1. r.status = to
    OBVIOUS
  <2>2. \E touched : CommitTask(s, r, touched, to # req[s].snap.status)
    BY DEF WorkerUpdate
  <2>3. QED
    <3> HIDE DEF r
    <3>1. QED BY <2>1, <2>2
<1>2. /\ req[s].snap \in Row /\ row'[t].status = to /\ to # req[s].snap.status
      /\ Gates(t, req[s].snap.status, to, to # req[s].snap.status)
  <2> DEFINE asked == to # req[s].snap.status
  <2>1. asked \in BOOLEAN /\ CommitTask(s, wanted, touched, asked)
    BY <1>1
  <2>2. /\ req[s].snap \in Row /\ row'[t].status = wanted.status
        /\ wanted.status # req[s].snap.status
        /\ Gates(t, req[s].snap.status, wanted.status, asked)
    <3> HIDE DEF asked
    <3>1. QED BY <2>1, CommitChanges
  <2>3. QED BY <1>1, <2>2
<1>3. req[s].snap.status \in Status
  BY <1>2 DEF Row
<1>4. (to # req[s].snap.status) = TRUE
  BY <1>2
<1>5. Gates(t, req[s].snap.status, row'[t].status, TRUE)
  BY <1>2, <1>4
<1>6. QED BY <1>2, <1>3, <1>5 DEF PassedGates

\* An admin's update writes a status it was not asked for only to a blocked task.
LEMMA AdminChanges ==
  ASSUME BoardInv, NEW s \in Slot, NEW to \in Status \cup {Keep},
         NEW who \in Agent \cup {NoOne, Keep},
         AdminUpdate(s, to, who), NEW t \in tasks, row'[t].status # row[t].status
  PROVE  PassedGates(t)
<1> DEFINE u == req[s].task
           loaded == req[s].snap
           target == OrLoaded(to, loaded.status)
           reset == /\ BlockedBy(EffectiveDeps(s)) # {}
                    /\ ~(loaded.status = "done" /\ target = "done")
           status == IF reset THEN "inbox" ELSE target
           requested == to # Keep /\ to # loaded.status
<1>1. PICK wanted, touched :
        wanted.status = status /\ CommitTask(s, wanted, touched, requested)
  <2> DEFINE statusSet == reset \/ to # Keep
             leaves == statusSet /\ status \in {"inbox", "review"}
             stamped == statusSet /\ status = "in_progress"
             r == [status |-> status,
                   assignee |-> IF reset THEN NoOne
                                ELSE OrLoaded(who, IF leaves THEN NoOne ELSE loaded.assignee),
                   started |-> ~leaves /\ (loaded.started \/ stamped)]
  <2>1. r.status = status
    OBVIOUS
  <2>2. \E touched : CommitTask(s, r, touched, requested)
    BY DEF AdminUpdate
  <2>3. QED
    <3> HIDE DEF r, status, requested
    <3>1. QED BY <2>1, <2>2
<1>2. requested \in BOOLEAN
  OBVIOUS
<1>3. /\ t = u /\ deps' = SetDeps(s) /\ loaded \in Row /\ row'[t].status = status
      /\ status # loaded.status /\ Gates(t, loaded.status, status, requested)
  <2> HIDE DEF status, requested, loaded, u
  <2>1. QED BY <1>1, <1>2, CommitChanges DEF loaded, u
<1>4. loaded.status \in Status
  BY <1>3 DEF Row
<1>5. CASE requested
  BY <1>3, <1>4, <1>5 DEF PassedGates
<1>6. CASE ~requested
  <2>1. target = loaded.status
    BY <1>6 DEF OrLoaded
  <2>2. reset
    BY <1>3, <2>1
  <2>3. PICK d : d \in EffectiveDeps(s)
    BY <1>3, <2>2 DEF BlockedBy
  <2>4. d \in Task /\ <<t, d>> \in deps'
    <3>1. CASE req[s].new = Keep
      BY <1>3, <2>3, <3>1 DEF EffectiveDeps, OrLoaded, DependsOn, SetDeps
    <3>2. CASE req[s].new # Keep
      <4>1. req[s].new \subseteq Task /\ d \in req[s].new
        BY <2>3, <3>2 DEF EffectiveDeps, OrLoaded, BoardInv, ColumnsOK, Request, Edges
      <4>2. QED BY <1>3, <3>2, <4>1 DEF SetDeps, Overlay
    <3>3. QED BY <3>1, <3>2
  <2>5. row'[t].status = "inbox"
    BY <1>3, <2>2
  <2>6. QED BY <1>2, <1>3, <1>4, <2>4, <2>5 DEF PassedGates
<1>7. QED BY <1>5, <1>6

\* The lead's update writes a status only when it was asked to.
LEMMA LeadChanges ==
  ASSUME BoardInv, NEW s \in Slot, NEW to \in {"inbox", "done", Keep},
         NEW who \in Worker \cup {NoOne, Keep},
         LeadUpdate(s, to, who), NEW t \in tasks, row'[t].status # row[t].status
  PROVE  PassedGates(t)
<1> DEFINE u == req[s].task
           loaded == req[s].snap
           status == OrLoaded(to, loaded.status)
<1>1. PICK wanted, touched :
        /\ wanted.status = status
        /\ row' = [row EXCEPT ![u] = Flush(row[u], loaded, wanted, touched)]
  <2> DEFINE r == [status |-> status,
                   assignee |-> IF to = "inbox" THEN NoOne ELSE OrLoaded(who, loaded.assignee),
                   started |-> to # "inbox" /\ loaded.started]
  <2>1. r.status = status
    OBVIOUS
  <2>2. row' = [row EXCEPT ![u] = Flush(row[u], loaded, r, {})]
    BY DEF LeadUpdate
  <2>3. QED
    <3> HIDE DEF r, status, loaded, u
    <3>1. QED BY <2>1, <2>2
<1>2. /\ u \in Task /\ t \in Task /\ row \in [Task -> Row] /\ loaded \in Row
      /\ Gates(u, loaded.status, status, to # Keep)
  BY DEF LeadUpdate, BoardInv, ColumnsOK, Request
<1> HIDE DEF u, loaded, status
<1>3. t = u /\ row'[t] = Flush(row[u], loaded, wanted, touched)
  BY <1>1, <1>2
<1>4. row'[t].status = status /\ status # loaded.status
  BY <1>1, <1>3, WrittenStatus
<1>5. loaded.status \in Status
  BY <1>2 DEF Row
<1>6. (to # Keep) = TRUE
  BY <1>4 DEF status, OrLoaded
<1>7. Gates(t, loaded.status, row'[t].status, TRUE)
  BY <1>2, <1>3, <1>4, <1>6
<1>8. QED BY <1>4, <1>5, <1>7 DEF PassedGates

\* So does every step that changes the status of a task.
LEMMA StatusChanges ==
  ASSUME BoardInv, BoardSocket = FALSE, [Next]_vars,
         NEW t \in tasks, row'[t].status # row[t].status
  PROVE  PassedGates(t) \/ SentBack(t) \/ (t \notin tasks' /\ row'[t].status = "inbox")
<1>1. row \in [Task -> Row] /\ t \in Task /\ NewRow.status = "inbox"
  BY DEF BoardInv, ColumnsOK, NewRow
<1>2. row' # row
  OBVIOUS
<1>3. ASSUME NEW s \in Slot, AnyUpdate(s) PROVE PassedGates(t)
  BY <1>3, WorkerChanges, AdminChanges, LeadChanges DEF AnyUpdate
<1>4. ASSUME NEW s \in Slot, Reconcile(s) PROVE SentBack(t)
  <2>1. row'[t] = NewRow /\ <<t, req[s].task>> \in deps /\ deps' = deps
    BY <1>1, <1>4 DEF Reconcile
  <2>2. req[s].task \in Task
    BY <2>1 DEF BoardInv, ColumnsOK
  <2>3. QED BY <1>1, <2>1, <2>2 DEF SentBack
<1>5. ASSUME NEW s \in Slot, NEW u \in Task, NEW status, NEW who, NEW D, NEW byLead,
             CreateTask(s, u, status, who, D, byLead)
      PROVE  FALSE
  <2>1. u # t
    BY <1>5 DEF CreateTask, Fresh
  <2>2. QED BY <1>1, <1>5, <2>1 DEF CreateTask
<1>6. ASSUME NEW s \in Slot, NEW u \in Task, NEW byLead, DeleteTask(s, u, byLead)
      PROVE  t \notin tasks' /\ row'[t].status = "inbox"
  BY <1>1, <1>6 DEF DeleteTask
<1>7. ASSUME NEW w \in Worker, DeleteAgent(w) PROVE SentBack(t)
  <2>1. agents' # agents
    BY <1>7 DEF DeleteAgent
  <2>2. row'[t] = NewRow
    <3>1. [row[t] EXCEPT !.assignee = NoOne].status = row[t].status
      BY <1>1 DEF Row
    <3>2. QED BY <1>1, <1>7, <3>1 DEF DeleteAgent
  <2>3. QED BY <1>1, <2>1, <2>2 DEF SentBack
<1>8. ASSUME NEW s \in Slot, Handler(s)
      PROVE  PassedGates(t) \/ SentBack(t) \/ (t \notin tasks' /\ row'[t].status = "inbox")
  <2>1. CASE \/ \E u \in Task : Load(s, u)
             \/ \E D \in Edges : Validate(s, D)
             \/ Abandon(s) \/ Leave(s)
    BY <1>2, <2>1 DEF Load, Validate, Abandon, Leave
  <2>2. ~ \E to \in Status : SocketMove(s, to)
    BY DEF SocketMove
  <2>3. QED BY <1>3, <1>4, <1>5, <1>6, <1>8, <2>1, <2>2 DEF Handler
<1>9. /\ ~ \E u \in Task, status \in Status : SocketCreate(u, status)
      /\ ~ \E a \in Approval, v \in Verdict, T \in SUBSET Task, p \in Task \cup {NoTask} :
             CreateApproval(a, v, T, p)
      /\ ~ \E a \in Approval, v \in Verdict : UpdateApproval(a, v)
      /\ ~ \E r \in RuleSet : SetRules(r)
      /\ ~ UNCHANGED vars
  BY <1>2 DEF SocketCreate, CreateApproval, UpdateApproval, SetRules, vars
<1>10. QED BY <1>7, <1>8, <1>9 DEF Next

\* No interleaving of requests marks a task done without an approved approval,
\* whatever the row was when they loaded it.
THEOREM DoneOnlyApproved ==
  ASSUME BoardSocket = FALSE
  PROVE  Spec => DoneNeedsApproval
<1>1. ASSUME BoardInv, [Next]_vars, NEW t \in tasks,
             row[t].status # "done", row'[t].status = "done", rules.approvalForDone
      PROVE  HasApproved(t)
  <2>1. PassedGates(t)
    BY <1>1, StatusChanges DEF SentBack
  <2>2. QED BY <1>1, <2>1 DEF PassedGates, Gates, ApprovalGate
<1>2. BoardInv /\ [Next]_vars =>
        [\A t \in tasks : row[t].status # "done" /\ row'[t].status = "done"
                          /\ rules.approvalForDone => HasApproved(t)]_vars
  BY <1>1, Zenon
<1>3. QED BY <1>2, BoardInvariant, PTL DEF Spec, DoneNeedsApproval

\* A pending approval freezes the status of its task, except for resets to the inbox.
THEOREM PendingKeepsStatus ==
  ASSUME BoardSocket = FALSE
  PROVE  Spec => PendingFreezes
<1>1. ASSUME BoardInv, [Next]_vars, NEW t \in tasks \cap tasks', rules.blockOnPending,
             PendingOn(t) # {}, row'[t].status # row[t].status
      PROVE  SentBack(t)
  <2>1. PassedGates(t) \/ SentBack(t)
    BY <1>1, StatusChanges
  <2>2. PassedGates(t) => SentBack(t)
    BY <1>1 DEF PassedGates, Gates, PendingGate, SentBack
  <2>3. QED BY <2>1, <2>2
<1>2. BoardInv /\ [Next]_vars =>
        [\A t \in tasks \cap tasks' :
           /\ rules.blockOnPending /\ PendingOn(t) # {}
           /\ row'[t].status # row[t].status
           => /\ row'[t].status = "inbox"
              /\ agents' # agents \/ \E d \in Task : <<t, d>> \in deps']_vars
  BY <1>1, Zenon DEF SentBack
<1>3. QED BY <1>2, BoardInvariant, PTL DEF Spec, PendingFreezes
-----------------------------------------------------------------------------
(* The graph, when requests come one at a time *)

OneSlot == \A s, q \in Slot : s = q

\* Between the validation of the only request's edit and its commit nobody else
\* changes the graph.
EditInv ==
  /\ AcyclicDeps
  /\ \A s \in Slot :
       req[s].phase = "loaded" /\ req[s].new # Keep =>
         /\ ValidDeps(req[s].task, req[s].new)
         /\ req[s].old = DependsOn(req[s].task)

\* So what it commits is the graph that was validated.
LEMMA CommitKeepsAcyclic ==
  ASSUME EditInv, NEW s \in Slot, req[s].phase = "loaded", deps' = SetDeps(s)
  PROVE  AcyclicDeps'
<1> DEFINE t == req[s].task
           D == req[s].new
<1>1. CASE D = Keep
  BY <1>1 DEF EditInv, AcyclicDeps, SetDeps
<1>2. CASE D # Keep
  <2>1. ValidDeps(t, D) /\ OthersEdges(s) = {}
    BY <1>2 DEF EditInv, OthersEdges
  <2>2. deps' = Overlay(t, D)
    <3>1. D \cup OthersEdges(s) = D
      BY <2>1
    <3>2. deps' = Overlay(t, D \cup OthersEdges(s))
      BY <1>2 DEF SetDeps
    <3>3. QED BY <3>1, <3>2
  <2>3. CASE D = {}
    <3>1. deps' \subseteq deps
      BY <2>2, <2>3 DEF Overlay
    <3>2. QED BY <3>1, AcyclicMonotone DEF EditInv, AcyclicDeps
  <2>4. CASE D # {}
    BY <2>1, <2>2, <2>4 DEF ValidDeps, AcyclicDeps
  <2>5. QED BY <2>3, <2>4
<1>3. QED BY <1>1, <1>2

\* A new task has no dependents, so its dependencies close no cycle.
LEMMA CreateKeepsAcyclic ==
  ASSUME BoardInv, EditInv, NEW s \in Slot, NEW t \in Task, NEW status, NEW who,
         NEW D \in SUBSET Task, NEW byLead, CreateTask(s, t, status, who, D, byLead)
  PROVE  AcyclicDeps'
<1>1. ValidDeps(t, D) /\ t \notin tasks /\ deps' = deps \cup {<<t, d>> : d \in D}
  BY DEF CreateTask, Fresh
<1>2. Overlay(t, D) = deps'
  BY <1>1 DEF Overlay, BoardInv, LinksIntact
<1>3. CASE D = {}
  BY <1>1, <1>3 DEF EditInv, AcyclicDeps
<1>4. CASE D # {}
  BY <1>1, <1>2, <1>4 DEF ValidDeps, AcyclicDeps
<1>5. QED BY <1>3, <1>4

\* Every step of the only request keeps the graph, and what it validated, acyclic.
LEMMA StepKeepsEdit ==
  ASSUME OneSlot, BoardInv, EditInv, [Next]_vars
  PROVE  EditInv'
<1>1. /\ req \in [Slot -> Request] /\ Idle.phase # "loaded" /\ Raised.phase # "loaded"
      /\ Idle.new = Keep
  BY DEF BoardInv, ColumnsOK, Idle, Raised
<1>2. ASSUME NEW s \in Slot, req'[s].phase # "loaded" \/ req'[s].new = Keep, AcyclicDeps'
      PROVE  EditInv'
  <2>1. \A q \in Slot : q = s
    BY DEF OneSlot
  <2>2. \A q \in Slot : req'[q].phase # "loaded" \/ req'[q].new = Keep
    BY <1>2, <2>1
  <2>3. QED BY <1>2, <2>2 DEF EditInv
<1>3. CASE tasks \subseteq tasks' /\ UNCHANGED <<deps, req>>
  <2>1. AcyclicDeps'
    BY <1>3 DEF EditInv, AcyclicDeps
  <2>2. ASSUME NEW s \in Slot, req[s].phase = "loaded", req[s].new # Keep
        PROVE  ValidDeps(req[s].task, req[s].new)' /\ req'[s].old = DependsOn(req[s].task)'
    <3>1. ValidDeps(req[s].task, req[s].new) /\ req[s].old = DependsOn(req[s].task)
      BY <2>2 DEF EditInv
    <3>2. QED BY <1>3, <3>1 DEF ValidDeps, Overlay, DependsOn
  <2>3. QED BY <1>3, <2>1, <2>2 DEF EditInv
<1>4. ASSUME NEW s \in Slot, Handler(s) PROVE EditInv'
  <2>1. ASSUME NEW t \in Task, Load(s, t) PROVE EditInv'
    <3>1. req'[s].new = Keep /\ deps' = deps
      BY <1>1, <2>1 DEF Load, Idle
    <3>2. QED BY <1>2, <3>1 DEF EditInv, AcyclicDeps
  <2>2. ASSUME NEW D \in Edges, Validate(s, D) PROVE EditInv'
    <3>1. /\ req'[s].new = D /\ req'[s].task = req[s].task
          /\ req'[s].old = DependsOn(req[s].task)
          /\ ValidDeps(req[s].task, D) /\ UNCHANGED <<tasks, deps>>
      BY <1>1, <2>2 DEF Validate, Request
    <3>2. ValidDeps(req[s].task, D)' /\ DependsOn(req[s].task)' = DependsOn(req[s].task)
      BY <3>1 DEF ValidDeps, Overlay, DependsOn
    <3>3. AcyclicDeps'
      BY <3>1 DEF EditInv, AcyclicDeps
    <3>4. ASSUME NEW q \in Slot
          PROVE  /\ ValidDeps(req[q].task, req[q].new)'
                 /\ req'[q].old = DependsOn(req[q].task)'
      <4>1. q = s
        BY DEF OneSlot
      <4>2. QED BY <3>1, <3>2, <4>1 DEF ValidDeps, Overlay, DependsOn
    <3>5. QED BY <3>3, <3>4 DEF EditInv
  <2>3. CASE Abandon(s) \/ Leave(s) \/ Reconcile(s)
    BY <1>1, <1>2, <2>3 DEF Abandon, Leave, Reconcile, EditInv, AcyclicDeps
  <2>4. CASE AnyUpdate(s)
    <3>1. ASSUME NEW wanted, NEW touched, NEW requested,
                 CommitTask(s, wanted, touched, requested), req[s].phase = "loaded"
          PROVE  EditInv'
      <4>1. req'[s].phase = "committed" /\ deps' = SetDeps(s)
        BY <1>1, <3>1 DEF CommitTask, Idle
      <4>2. QED BY <1>2, <3>1, <4>1, CommitKeepsAcyclic
    <3>2. ASSUME NEW w, NEW to, WorkerUpdate(s, w, to) PROVE EditInv'
      BY <3>1, <3>2 DEF WorkerUpdate
    <3>3. ASSUME NEW to, NEW who, AdminUpdate(s, to, who) PROVE EditInv'
      BY <3>1, <3>3 DEF AdminUpdate
    <3>4. ASSUME NEW to, NEW who, LeadUpdate(s, to, who) PROVE EditInv'
      <4>1. req[s].phase = "loaded" /\ req'[s] = Idle /\ deps' = SetDeps(s)
        BY <1>1, <3>4 DEF LeadUpdate
      <4>2. QED BY <1>1, <1>2, <4>1, CommitKeepsAcyclic
    <3>5. QED BY <2>4, <3>2, <3>3, <3>4 DEF AnyUpdate
  <2>5. ASSUME NEW t \in Task, NEW status, NEW who, NEW D \in SUBSET Task,
               NEW byLead \in BOOLEAN, CreateTask(s, t, status, who, D, byLead)
        PROVE  EditInv'
    <3>1. req'[s].phase # "loaded"
      BY <1>1, <2>5 DEF CreateTask
    <3>2. QED BY <1>2, <2>5, <3>1, CreateKeepsAcyclic
  <2>6. ASSUME NEW t, NEW byLead \in BOOLEAN, DeleteTask(s, t, byLead) PROVE EditInv'
    <3>1. req'[s].phase # "loaded" /\ deps' \subseteq deps
      BY <1>1, <2>6 DEF DeleteTask
    <3>2. QED BY <1>2, <3>1, AcyclicMonotone DEF EditInv, AcyclicDeps
  <2>7. ASSUME NEW to \in Status, SocketMove(s, to) PROVE EditInv'
    BY <1>1, <1>2, <2>7 DEF SocketMove, EditInv, AcyclicDeps
  <2>8. QED BY <1>4, <2>1, <2>2, <2>3, <2>4, <2>5, <2>6, <2>7 DEF Handler
<1>5. ASSUME NEW t \in Task, NEW status \in Status, SocketCreate(t, status) PROVE EditInv'
  BY <1>3, <1>5 DEF SocketCreate
<1>6. CASE \/ \E w \in Worker : DeleteAgent(w)
           \/ \E a \in Approval, v \in Verdict, T \in SUBSET Task, p \in Task \cup {NoTask} :
                CreateApproval(a, v, T, p)
           \/ \E a \in Approval, v \in Verdict : UpdateApproval(a, v)
           \/ \E r \in RuleSet : SetRules(r)
           \/ UNCHANGED vars
  BY <1>3, <1>6 DEF DeleteAgent, CreateApproval, UpdateApproval, SetRules, vars
<1>7. QED BY <1>4, <1>5, <1>6 DEF Next

\* With one request at a time an empty board is acyclic, and stays so.
LEMMA EditInvariant ==
  ASSUME OneSlot
  PROVE  Spec => []EditInv
<1>1. Init => EditInv
  BY DEF Init, EditInv, AcyclicDeps, Acyclic, Idle
<1>2. BoardInv /\ EditInv /\ [Next]_vars => EditInv'
  BY StepKeepsEdit
<1>3. QED BY <1>1, <1>2, BoardInvariant, PTL DEF Spec

\* With one request at a time (websocket clients beside it), no edit, creation or
\* deletion saves a cycle.
THEOREM DepsStayAcyclic ==
  ASSUME OneSlot
  PROVE  Spec => []AcyclicDeps
<1>1. EditInv => AcyclicDeps
  BY DEF EditInv
<1>2. QED BY <1>1, EditInvariant, PTL

-----------------------------------------------------------------------------
(* Blocked tasks, when requests come one at a time *)

OneAtATime == BoardSocket = FALSE /\ OneSlot

\* Between the load and the commit of the only request, only the deletion of an
\* agent writes its row: it frees the task, and takes it out of work.
LoadedStays ==
  \A s \in Slot :
    req[s].phase = "loaded" =>
      /\ req[s].task \in Task
      /\ req[s].snap.status \in {"inbox", "done"} => row[req[s].task].status = req[s].snap.status
      /\ req[s].snap.assignee = NoOne => row[req[s].task].assignee = NoOne

\* No step lets a loaded row go stale in another way.
LEMMA StepKeepsLoaded ==
  ASSUME OneAtATime, BoardInv, LoadedStays, [Next]_vars
  PROVE  LoadedStays'
<1>1. /\ row \in [Task -> Row] /\ req \in [Slot -> Request]
      /\ Idle.phase # "loaded" /\ Raised.phase # "loaded"
  BY DEF BoardInv, ColumnsOK, Idle, Raised
<1>2. ASSUME NEW s \in Slot, req'[s].phase # "loaded" PROVE LoadedStays'
  BY <1>2 DEF OneAtATime, OneSlot, LoadedStays
<1>3. CASE UNCHANGED <<row, req>>
  BY <1>3 DEF LoadedStays
<1>4. ASSUME NEW s \in Slot, Handler(s) PROVE LoadedStays'
  <2>1. ASSUME NEW t \in Task, Load(s, t) PROVE LoadedStays'
    <3>1. req'[s].task = t /\ req'[s].snap = row[t] /\ row' = row
      BY <1>1, <2>1 DEF Load
    <3>2. QED BY <3>1 DEF OneAtATime, OneSlot, LoadedStays
  <2>2. CASE Abandon(s) \/ Leave(s) \/ Reconcile(s)
    BY <1>1, <1>2, <2>2 DEF Abandon, Leave, Reconcile
  <2>3. CASE AnyUpdate(s)
    <3>1. ASSUME NEW wanted, NEW touched, NEW requested,
                 CommitTask(s, wanted, touched, requested)
          PROVE  LoadedStays'
      BY <1>1, <1>2, <3>1 DEF CommitTask
    <3>2. ASSUME NEW w, NEW to, WorkerUpdate(s, w, to) PROVE LoadedStays'
      BY <3>1, <3>2 DEF WorkerUpdate
    <3>3. ASSUME NEW to, NEW who, AdminUpdate(s, to, who) PROVE LoadedStays'
      BY <3>1, <3>3 DEF AdminUpdate
    <3>4. ASSUME NEW to, NEW who, LeadUpdate(s, to, who) PROVE LoadedStays'
      BY <1>1, <1>2, <3>4 DEF LeadUpdate
    <3>5. QED BY <2>3, <3>2, <3>3, <3>4 DEF AnyUpdate
  <2>4. ASSUME NEW t, NEW status, NEW who, NEW D, NEW byLead \in BOOLEAN,
               CreateTask(s, t, status, who, D, byLead)
        PROVE  LoadedStays'
    BY <1>1, <1>2, <2>4 DEF CreateTask
  <2>5. ASSUME NEW t, NEW byLead \in BOOLEAN, DeleteTask(s, t, byLead) PROVE LoadedStays'
    BY <1>1, <1>2, <2>5 DEF DeleteTask
  <2>6. ~ \E to \in Status : SocketMove(s, to)
    BY DEF SocketMove, OneAtATime
  <2>7. ASSUME NEW D \in Edges, Validate(s, D) PROVE LoadedStays'
    <3>1. /\ row' = row /\ req'[s].task = req[s].task /\ req'[s].snap = req[s].snap
          /\ req'[s].phase = req[s].phase
      BY <1>1, <2>7 DEF Validate, Request
    <3>2. QED BY <3>1 DEF OneAtATime, OneSlot, LoadedStays
  <2>8. QED BY <1>4, <2>1, <2>2, <2>3, <2>4, <2>5, <2>6, <2>7 DEF Handler
<1>5. ASSUME NEW w \in Worker, DeleteAgent(w) PROVE LoadedStays'
  <2>1. ASSUME NEW s \in Slot, req[s].phase = "loaded"
        PROVE  /\ row[req[s].task].status \in {"inbox", "done"} =>
                    row'[req[s].task].status = row[req[s].task].status
               /\ row[req[s].task].assignee = NoOne => row'[req[s].task].assignee = NoOne
    <3> DEFINE t == req[s].task
    <3>1. t \in Task
      BY <2>1 DEF LoadedStays
    <3>2. /\ [row[t] EXCEPT !.assignee = NoOne].status = row[t].status
          /\ [row[t] EXCEPT !.assignee = NoOne].assignee = NoOne
      BY <1>1, <3>1 DEF Row
    <3>3. row'[t] = IF row[t].assignee # w THEN row[t]
                    ELSE IF row[t].status = "in_progress" THEN NewRow
                    ELSE [row[t] EXCEPT !.assignee = NoOne]
      BY <1>5, <3>1 DEF DeleteAgent
    <3>4. QED BY <3>2, <3>3 DEF NewRow
  <2>2. req' = req
    BY <1>5 DEF DeleteAgent
  <2>3. QED BY <2>1, <2>2 DEF LoadedStays
<1>6. CASE \E t \in Task, status \in Status : SocketCreate(t, status)
  BY <1>6 DEF SocketCreate, OneAtATime
<1>7. CASE \/ \E a \in Approval, v \in Verdict, T \in SUBSET Task, p \in Task \cup {NoTask} :
                CreateApproval(a, v, T, p)
           \/ \E a \in Approval, v \in Verdict : UpdateApproval(a, v)
           \/ \E r \in RuleSet : SetRules(r)
           \/ UNCHANGED vars
  BY <1>3, <1>7 DEF CreateApproval, UpdateApproval, SetRules, vars
<1>8. QED BY <1>4, <1>5, <1>6, <1>7 DEF Next

\* With an acyclic graph no task waits for itself.
LEMMA NoSelfLoop ==
  ASSUME NEW E, Acyclic(E), NEW t \in Task
  PROVE  <<t, t>> \notin E
<1>1. {t} \in SUBSET Task /\ {t} # {}
  OBVIOUS
<1>2. QED BY <1>1 DEF Acyclic

\* A task that waits for an unfinished one after an update that wrote only its own
\* row and dependencies waited for it when the handler looked.
LEMMA SawTheBlock ==
  ASSUME BoardInv, EditInv, EditInv', NEW s \in Slot, req[s].phase = "loaded",
         req[s].task \in Task, NEW r,
         row' = [row EXCEPT ![req[s].task] = r], deps' = SetDeps(s),
         NEW d \in Task, <<req[s].task, d>> \in deps', row'[d].status # "done"
  PROVE  d \in BlockedBy(EffectiveDeps(s))
<1> DEFINE t == req[s].task
<1>1. d # t
  BY NoSelfLoop DEF EditInv, AcyclicDeps
<1>2. row'[d] = row[d]
  BY <1>1 DEF BoardInv, ColumnsOK
<1>3. d \in EffectiveDeps(s)
  <2>1. req[s].new # Keep => OthersEdges(s) = {}
    BY DEF EditInv, OthersEdges
  <2>2. QED BY <2>1 DEF EffectiveDeps, OrLoaded, SetDeps, DependsOn, Overlay
<1>4. QED BY <1>2, <1>3 DEF BlockedBy

\* Writing "inbox" and nobody over a row that did not go stale parks it.
LEMMA ParkedByFlush ==
  ASSUME NEW now, NEW loaded, NEW wanted, NEW touched,
         wanted.status = "inbox", wanted.assignee = NoOne,
         loaded.status = "inbox" => now.status = "inbox",
         loaded.assignee = NoOne => now.assignee = NoOne
  PROVE  Parked(Flush(now, loaded, wanted, touched))
BY DEF Parked, Flush

\* A worker may only give a blocked task back.
LEMMA WorkerParks ==
  ASSUME BoardInv, EditInv, EditInv', LoadedStays, NEW s \in Slot, NEW w \in Worker,
         NEW to \in Status, WorkerUpdate(s, w, to), NEW d \in Task,
         <<req[s].task, d>> \in deps', row'[d].status # "done"
  PROVE  Parked(row'[req[s].task])
<1> DEFINE t == req[s].task
<1>1. PICK wanted, touched :
        /\ wanted.status = to
        /\ to = "inbox" => wanted.assignee = NoOne
        /\ CommitTask(s, wanted, touched, to # req[s].snap.status)
  <2> DEFINE leaves == to \in {"inbox", "review"}
             r == [status |-> to, assignee |-> IF leaves THEN NoOne ELSE w,
                   started |-> ~leaves /\ (to = "in_progress" \/ req[s].snap.started)]
  <2>1. r.status = to /\ (to = "inbox" => r.assignee = NoOne)
    OBVIOUS
  <2>2. \E touched : CommitTask(s, r, touched, to # req[s].snap.status)
    BY DEF WorkerUpdate
  <2>3. QED
    <3> HIDE DEF r
    <3>1. QED BY <2>1, <2>2
<1> DEFINE after == Flush(row[t], req[s].snap, wanted, touched)
<1>2. /\ row' = [row EXCEPT ![t] = after] /\ deps' = SetDeps(s)
      /\ req[s].phase = "loaded" /\ req[s].new = Keep
      /\ (to # "inbox" => ~Blocked(t))
  BY <1>1 DEF CommitTask, WorkerUpdate
<1>3. t \in Task /\ row \in [Task -> Row]
  BY <1>2 DEF LoadedStays, BoardInv, ColumnsOK
<1>4. to = "inbox"
  <2>1. d \in BlockedBy(EffectiveDeps(s))
    <3> HIDE DEF after
    <3>1. QED BY <1>2, <1>3, SawTheBlock
  <2>2. QED BY <1>2, <2>1 DEF Blocked, EffectiveDeps, OrLoaded
<1>5. row'[t] = after
  BY <1>2, <1>3
<1>6. Parked(after)
  <2>1. /\ req[s].snap.status = "inbox" => row[t].status = "inbox"
        /\ req[s].snap.assignee = NoOne => row[t].assignee = NoOne
    BY <1>2 DEF LoadedStays
  <2>2. QED BY <1>1, <1>4, <2>1, ParkedByFlush
<1>7. QED BY <1>5, <1>6

\* An admin's update resets a blocked task, whatever was asked.
LEMMA AdminParks ==
  ASSUME BoardInv, EditInv, EditInv', LoadedStays, NEW s \in Slot, NEW to \in Status \cup {Keep},
         NEW who \in Agent \cup {NoOne, Keep},
         AdminUpdate(s, to, who), NEW d \in Task,
         <<req[s].task, d>> \in deps', row'[d].status # "done"
  PROVE  row'[req[s].task].status = "done" \/ Parked(row'[req[s].task])
<1> DEFINE t == req[s].task
           loaded == req[s].snap
           target == OrLoaded(to, loaded.status)
           reset == /\ BlockedBy(EffectiveDeps(s)) # {}
                    /\ ~(loaded.status = "done" /\ target = "done")
           status == IF reset THEN "inbox" ELSE target
<1>1. PICK wanted, touched :
        /\ wanted.status = status
        /\ reset => wanted.assignee = NoOne
        /\ CommitTask(s, wanted, touched, to # Keep /\ to # loaded.status)
  <2> DEFINE statusSet == reset \/ to # Keep
             leaves == statusSet /\ status \in {"inbox", "review"}
             stamped == statusSet /\ status = "in_progress"
             r == [status |-> status,
                   assignee |-> IF reset THEN NoOne
                                ELSE OrLoaded(who, IF leaves THEN NoOne ELSE loaded.assignee),
                   started |-> ~leaves /\ (loaded.started \/ stamped)]
  <2>1. r.status = status /\ (reset => r.assignee = NoOne)
    BY DEF r
  <2>2. \E touched : CommitTask(s, r, touched, to # Keep /\ to # loaded.status)
    BY DEF AdminUpdate
  <2>3. QED
    <3> HIDE DEF r, status, reset
    <3>1. QED BY <2>1, <2>2
<1> DEFINE after == Flush(row[t], loaded, wanted, touched)
<1>2. /\ row' = [row EXCEPT ![t] = after] /\ deps' = SetDeps(s)
      /\ req[s].phase = "loaded"
  BY <1>1 DEF CommitTask, AdminUpdate
<1>3. t \in Task /\ row \in [Task -> Row]
      /\ (loaded.status \in {"inbox", "done"} => row[t].status = loaded.status)
      /\ (loaded.assignee = NoOne => row[t].assignee = NoOne)
  BY <1>2 DEF LoadedStays, BoardInv, ColumnsOK
<1>4. row'[t] = after
  BY <1>2, <1>3
<1>5. BlockedBy(EffectiveDeps(s)) # {}
  <2> HIDE DEF after
  <2>1. QED BY <1>2, <1>3, SawTheBlock
<1>6. CASE reset
  <2>1. wanted.status = "inbox" /\ wanted.assignee = NoOne
    BY <1>1, <1>6
  <2>2. Parked(after)
    <3> HIDE DEF reset
    <3>1. QED BY <1>3, <2>1, ParkedByFlush
  <2>3. QED BY <1>4, <2>2
<1>7. CASE ~reset
  <2>1. loaded.status = "done" /\ wanted.status = "done"
    BY <1>1, <1>5, <1>7
  <2>2. after.status = "done"
    BY <1>3, <2>1 DEF Flush
  <2>3. QED BY <1>4, <2>2
<1>8. QED BY <1>6, <1>7

\* The lead may only edit the dependencies of a blocked task.
LEMMA LeadLeavesBlocked ==
  ASSUME BoardInv, EditInv, EditInv', NEW s \in Slot, NEW to \in {"inbox", "done", Keep},
         NEW who \in Worker \cup {NoOne, Keep},
         LeadUpdate(s, to, who), NEW d \in Task,
         <<req[s].task, d>> \in deps', row'[d].status # "done"
  PROVE  row' = row
<1> DEFINE t == req[s].task
           loaded == req[s].snap
           wanted == [status |-> OrLoaded(to, loaded.status),
                      assignee |-> IF to = "inbox" THEN NoOne
                                   ELSE OrLoaded(who, loaded.assignee),
                      started |-> to # "inbox" /\ loaded.started]
           after == Flush(row[t], loaded, wanted, {})
<1>1. /\ row' = [row EXCEPT ![t] = after] /\ deps' = SetDeps(s)
      /\ (to # Keep \/ who # Keep) => BlockedBy(EffectiveDeps(s)) = {}
      /\ t \in Task /\ row \in [Task -> Row] /\ loaded \in Row /\ req[s].phase = "loaded"
  BY DEF LeadUpdate, BoardInv, ColumnsOK, Request
<1>2. BlockedBy(EffectiveDeps(s)) # {}
  <2> HIDE DEF after
  <2>1. QED BY <1>1, SawTheBlock
<1>3. to = Keep /\ who = Keep
  BY <1>1, <1>2
<1>4. wanted.status = loaded.status /\ wanted.assignee = loaded.assignee
  BY <1>3, BoardAssumption DEF OrLoaded, Status
<1>5. wanted.started = loaded.started
  <2>1. loaded.started \in BOOLEAN /\ (to # "inbox") = TRUE
    BY <1>1, <1>3, BoardAssumption DEF Row, Status
  <2>2. QED BY <2>1
<1>6. after = [status |-> row[t].status, assignee |-> row[t].assignee,
               started |-> row[t].started]
  <2> HIDE DEF wanted
  <2>1. QED BY <1>4, <1>5 DEF Flush
<1>7. after = row[t]
  <2> HIDE DEF after
  <2>1. row[t] \in Row
    BY <1>1
  <2>2. QED BY <1>6, <2>1 DEF Row
<1>8. QED
  <2> HIDE DEF after
  <2>1. QED BY <1>1, <1>7

\* A created task that waits starts parked: nothing that waited for it, or that it
\* waited for, was left behind.
LEMMA CreateParks ==
  ASSUME BoardInv, NEW s \in Slot, NEW u \in Task, NEW status \in Status,
         NEW who \in Agent \cup {NoOne}, NEW D \in SUBSET Task, NEW byLead \in BOOLEAN,
         CreateTask(s, u, status, who, D, byLead), NEW d \in Task,
         <<u, d>> \in deps', row'[d].status # "done"
  PROVE  Parked(row'[u])
<1> DEFINE new == [status |-> status, assignee |-> who, started |-> FALSE]
<1>1. /\ u \notin tasks /\ u \notin D /\ row \in [Task -> Row]
      /\ BlockedBy(D) # {} => Parked(new)
      /\ row' = [row EXCEPT ![u] = new]
      /\ deps' = deps \cup {<<u, e>> : e \in D}
  BY DEF CreateTask, Fresh, ValidDeps, BoardInv, ColumnsOK
<1>2. row'[u] = new /\ \A v \in Task : v # u => row'[v] = row[v]
  BY <1>1
<1>3. d \in D
  <2>1. <<u, d>> \notin deps
    BY <1>1 DEF BoardInv, LinksIntact
  <2>2. QED BY <1>1, <2>1
<1>4. d \in BlockedBy(D)
  <2> HIDE DEF new
  <2>1. row'[d] = row[d]
    BY <1>1, <1>2, <1>3
  <2>2. QED BY <1>3, <2>1 DEF BlockedBy
<1>5. QED BY <1>1, <1>2, <1>4

\* An update that leaves the task it works on waiting finishes it, parks it, or was
\* the lead's and wrote no row.
LEMMA UpdateParks ==
  ASSUME BoardInv, EditInv, EditInv', LoadedStays, NEW s \in Slot, AnyUpdate(s),
         NEW d \in Task, <<req[s].task, d>> \in deps', row'[d].status # "done",
         row'[req[s].task].status # "done", ~Parked(row'[req[s].task])
  PROVE  row' = row
BY WorkerParks, AdminParks, LeadLeavesBlocked DEF AnyUpdate

\* An update writes nothing else of tasks and dependencies.
LEMMA UpdateWritesOne ==
  ASSUME BoardInv, NEW s \in Slot, AnyUpdate(s)
  PROVE  /\ tasks' = tasks
         /\ \A u \in Task : u # req[s].task => row'[u] = row[u]
         /\ \A e \in deps' : e[1] # req[s].task => e \in deps
<1>1. row \in [Task -> Row]
  BY DEF BoardInv, ColumnsOK
<1>2. deps' = SetDeps(s) => \A e \in deps' : e[1] # req[s].task => e \in deps
  BY DEF SetDeps, Overlay
<1>3. ASSUME NEW wanted, NEW touched, NEW requested, CommitTask(s, wanted, touched, requested)
      PROVE  /\ tasks' = tasks /\ deps' = SetDeps(s)
             /\ \A u \in Task : u # req[s].task => row'[u] = row[u]
  BY <1>1, <1>3 DEF CommitTask
<1>4. ASSUME NEW w, NEW to, WorkerUpdate(s, w, to)
      PROVE  /\ tasks' = tasks /\ deps' = SetDeps(s)
             /\ \A u \in Task : u # req[s].task => row'[u] = row[u]
  BY <1>3, <1>4 DEF WorkerUpdate
<1>5. ASSUME NEW to, NEW who, AdminUpdate(s, to, who)
      PROVE  /\ tasks' = tasks /\ deps' = SetDeps(s)
             /\ \A u \in Task : u # req[s].task => row'[u] = row[u]
  BY <1>3, <1>5 DEF AdminUpdate
<1>6. ASSUME NEW to, NEW who, LeadUpdate(s, to, who)
      PROVE  /\ tasks' = tasks /\ deps' = SetDeps(s)
             /\ \A u \in Task : u # req[s].task => row'[u] = row[u]
  BY <1>1, <1>6 DEF LeadUpdate
<1>7. QED BY <1>2, <1>4, <1>5, <1>6 DEF AnyUpdate

\* A task that waits for d and is neither done nor parked after a step was left as it
\* was, and waited for d already unless the step wrote no row.
LEMMA StepParks ==
  ASSUME OneAtATime, BoardInv, EditInv, EditInv', LoadedStays, [Next]_vars,
         agents' = agents, NEW t \in Task, t \in tasks',
         NEW d \in Task, <<t, d>> \in deps', row'[d].status # "done",
         row'[t].status # "done", ~Parked(row'[t])
  PROVE  t \in tasks /\ row'[t] = row[t] /\ (<<t, d>> \in deps \/ row' = row)
<1> DEFINE Left == t \in tasks /\ row'[t] = row[t] /\ (<<t, d>> \in deps \/ row' = row)
<1>1. row \in [Task -> Row]
  BY DEF BoardInv, ColumnsOK
<1>2. CASE UNCHANGED <<tasks, row>>
  BY <1>2
<1>3. ASSUME NEW s \in Slot, AnyUpdate(s) PROVE Left
  <2>1. CASE t = req[s].task
    <3>1. row' = row
      BY <1>3, <2>1, UpdateParks
    <3>2. QED BY <1>3, <3>1, UpdateWritesOne
  <2>2. CASE t # req[s].task
    BY <1>3, <2>2, UpdateWritesOne
  <2>3. QED BY <2>1, <2>2
<1>4. ASSUME NEW s \in Slot, Reconcile(s) PROVE Left
  <2>1. row'[t] = NewRow \/ row'[t] = row[t]
    BY <1>1, <1>4 DEF Reconcile
  <2>2. Parked(NewRow)
    BY DEF Parked, NewRow
  <2>3. QED BY <1>4, <2>1, <2>2 DEF Reconcile
<1>5. ASSUME NEW s \in Slot, NEW u \in Task, NEW status \in Status,
             NEW who \in Agent \cup {NoOne}, NEW D \in SUBSET Task, NEW byLead \in BOOLEAN,
             CreateTask(s, u, status, who, D, byLead)
      PROVE  Left
  <2>1. t # u
    BY <1>5, CreateParks
  <2>2. QED BY <1>1, <1>5, <2>1 DEF CreateTask
<1>6. ASSUME NEW s \in Slot, NEW u \in Task, NEW byLead \in BOOLEAN, DeleteTask(s, u, byLead)
      PROVE  Left
  <2>1. t \in tasks /\ t # u /\ <<t, d>> \in deps
    BY <1>6 DEF DeleteTask
  <2>2. QED BY <1>1, <1>6, <2>1 DEF DeleteTask
<1>7. ASSUME NEW s \in Slot, Handler(s) PROVE Left
  <2>1. CASE \/ \E u \in Task : Load(s, u)
             \/ \E D \in Edges : Validate(s, D)
             \/ Abandon(s) \/ Leave(s)
    BY <1>2, <2>1 DEF Load, Validate, Abandon, Leave
  <2>2. ~ \E to \in Status : SocketMove(s, to)
    BY DEF SocketMove, OneAtATime
  <2>3. QED
    <3> HIDE DEF Left
    <3>1. QED BY <1>3, <1>4, <1>5, <1>6, <1>7, <2>1, <2>2 DEF Handler, Left
<1>8. /\ ~ \E u \in Task, status \in Status : SocketCreate(u, status)
      /\ ~ \E w \in Worker : DeleteAgent(w)
  BY DEF SocketCreate, DeleteAgent, OneAtATime
<1>9. CASE \/ \E a \in Approval, v \in Verdict, T \in SUBSET Task, p \in Task \cup {NoTask} :
                CreateApproval(a, v, T, p)
           \/ \E a \in Approval, v \in Verdict : UpdateApproval(a, v)
           \/ \E r \in RuleSet : SetRules(r)
           \/ UNCHANGED vars
  BY <1>2, <1>9 DEF CreateApproval, UpdateApproval, SetRules, vars
<1>10. QED
  <2> HIDE DEF Left
  <2>1. Left
    BY <1>7, <1>8, <1>9 DEF Next, Left
  <2>2. QED BY <2>1 DEF Left

\* So a task can come to be at risk by a reopening or the lead's new edges only.
LEMMA RiskComes ==
  ASSUME OneAtATime, BoardInv, EditInv, EditInv', LoadedStays, [Next]_vars,
         agents' = agents, NEW t \in Task, AtRisk(t)'
  PROVE  \/ AtRisk(t) /\ row'[t] = row[t]
         \/ LeadRelinks(t)
         \/ \E d \in DependsOn(t) : Reopens(d)
<1>1. /\ t \in tasks' /\ row'[t].status # "done" /\ ~Parked(row'[t])
      /\ \E d \in Task : <<t, d>> \in deps' /\ row'[d].status # "done"
  BY DEF AtRisk, Blocked, BlockedBy, DependsOn, Parked
<1>2. PICK d \in Task : <<t, d>> \in deps' /\ row'[d].status # "done"
  BY <1>1
<1>3. t \in tasks /\ row'[t] = row[t] /\ (<<t, d>> \in deps \/ row' = row)
  BY <1>1, <1>2, StepParks
<1>4. CASE Blocked(t)
  BY <1>1, <1>3, <1>4 DEF AtRisk
<1>5. CASE ~Blocked(t) /\ <<t, d>> \in deps
  BY <1>2, <1>5 DEF Blocked, BlockedBy, DependsOn, Reopens
<1>6. CASE <<t, d>> \notin deps
  BY <1>2, <1>3, <1>6 DEF LeadRelinks, DependsOn
<1>7. QED BY <1>4, <1>5, <1>6

\* With one request at a time (and no websocket clients) a blocked task that is not
\* done gets out of the inbox in two ways only: one of its dependencies is reopened
\* after it, or the lead gives it new dependencies while it is at work.
THEOREM BlockedStaysParked ==
  ASSUME OneAtATime
  PROVE  Spec => NoWorkOnBlocked
<1>1. Init => LoadedStays
  BY DEF Init, LoadedStays, Idle
<1>2. BoardInv /\ LoadedStays /\ [Next]_vars => LoadedStays'
  BY StepKeepsLoaded
<1>3. ASSUME BoardInv, EditInv, EditInv', LoadedStays, [Next]_vars
      PROVE  agents' = agents =>
               \A t \in Task :
                 AtRisk(t)' => \/ AtRisk(t) /\ row'[t] = row[t]
                               \/ LeadRelinks(t)
                               \/ \E d \in DependsOn(t) : Reopens(d)
  BY <1>3, RiskComes
<1>4. BoardInv /\ EditInv /\ EditInv' /\ LoadedStays /\ [Next]_vars =>
        [agents' = agents =>
           \A t \in Task :
             AtRisk(t)' => \/ AtRisk(t) /\ row'[t] = row[t]
                           \/ LeadRelinks(t)
                           \/ \E d \in DependsOn(t) : Reopens(d)]_vars
  BY <1>3, Zenon
<1>5. Spec => []EditInv
  BY EditInvariant DEF OneAtATime
<1>6. QED BY <1>1, <1>2, <1>4, <1>5, BoardInvariant, PTL DEF Spec, NoWorkOnBlocked

-----------------------------------------------------------------------------
(* The search for cycles.                                                   *)

\* An empty search satisfies the invariant.
LEMMA SearchInit == SearchStart => SearchInv
BY DEF SearchStart, SearchInv, SearchTyped, Finished, Searching, StackIsPath, TriedLead, FinishedClosed,
       FinishedAcyclic, Progress, AnswerInv

\* Entering a call lengthens the stack by one.
LEMMA PushFacts ==
  ASSUME NEW s \in Seq(Task), NEW n \in Task
  PROVE  /\ Append(s, n) \in Seq(Task)
         /\ Len(Append(s, n)) = Len(s) + 1 /\ Len(s) \in Nat
         /\ \A i \in 1..Len(s) : Append(s, n)[i] = s[i]
         /\ Append(s, n)[Len(s) + 1] = n
OBVIOUS

\* A search that has calls open has an innermost one.
LEMMA StackFacts ==
  ASSUME SearchInv
  PROVE  /\ stack \in Seq(Task) /\ Len(stack) \in Nat
         /\ stack # <<>> => Len(stack) \in 1..Len(stack) /\ Innermost \in inStack
         /\ \A i \in 1..Len(stack) : stack[i] \in Task /\ stack[i] \in inStack
                                     /\ stack[i] \in visited
<1>1. stack \in Seq(Task) /\ Len(stack) \in Nat
  BY DEF SearchInv, SearchTyped
<1>2. stack # <<>> => Len(stack) \in 1..Len(stack)
  BY <1>1
<1>3. QED BY <1>1, <1>2 DEF SearchInv, StackIsPath, SearchTyped, Innermost

\* Returning from a call shortens the stack by one.
LEMMA PopFacts ==
  ASSUME NEW s \in Seq(Task), s # <<>>
  PROVE  /\ SubSeq(s, 1, Len(s) - 1) \in Seq(Task)
         /\ Len(s) \in Nat \ {0} /\ Len(SubSeq(s, 1, Len(s) - 1)) = Len(s) - 1
         /\ \A i \in 1..(Len(s) - 1) : SubSeq(s, 1, Len(s) - 1)[i] = s[i]
<1> DEFINE n == Len(s) - 1
<1>1. Len(s) \in Nat \ {0} /\ n \in Nat /\ n <= Len(s)
  OBVIOUS
<1> HIDE DEF n
<1>2. SubSeq(s, 1, n) \in Seq(Task)
  BY <1>1
<1>3. Len(SubSeq(s, 1, n)) = n
  BY <1>1
<1>4. \A i \in 1..n : SubSeq(s, 1, n)[i] = s[i]
  BY <1>1
<1>5. QED BY <1>1, <1>2, <1>3, <1>4 DEF n

\* An edge from the innermost call back into the stack closes a cycle.
LEMMA BackEdgeMeansCycle ==
  ASSUME SearchInv, stack # <<>>, NEW n \in inStack, <<Innermost, n>> \in edges
  PROVE  ~Acyclic(edges)
<1>1. inStack \in SUBSET Task /\ inStack # {}
  BY StackFacts DEF SearchInv, SearchTyped
<1>2. ASSUME NEW x \in inStack PROVE \E y \in inStack : <<x, y>> \in edges
  <2>1. PICK i \in 1..Len(stack) : x = stack[i]
    BY <1>2 DEF SearchInv, StackIsPath
  <2>2. CASE i = Len(stack)
    BY <2>1, <2>2 DEF Innermost
  <2>3. CASE i # Len(stack)
    <3>1. i \in 1..(Len(stack) - 1) /\ i + 1 \in 1..Len(stack)
      BY <2>3, StackFacts
    <3>2. stack[i + 1] \in inStack /\ <<x, stack[i + 1]>> \in edges
      BY <2>1, <3>1 DEF SearchInv, StackIsPath
    <3>3. QED BY <3>2
  <2>4. QED BY <2>2, <2>3
<1>3. QED BY <1>1, <1>2 DEF Acyclic

\* A call that opens no further call keeps the invariant.
LEMMA SameStackKeepsInv ==
  ASSUME SearchInv, UNCHANGED <<edges, visited, inStack, stack>>,
         tried \subseteq tried', tried' \subseteq edges,
         \A n, m \in Task : <<n, m>> \in tried' => n \in visited,
         roots' \subseteq Task, Task \subseteq roots' \cup visited,
         answer' \in {"searching", "cycle"},
         answer' = "cycle" => ~Acyclic(edges),
         answer' = "searching" =>
           \A i \in 1..Len(stack), m \in Task :
             <<stack[i], m>> \in tried' =>
               m \in Finished \/ (i < Len(stack) /\ m = stack[i + 1])
  PROVE  SearchInv'
<1>1. SearchTyped'
  BY DEF SearchInv, SearchTyped
<1>2. Finished' = Finished
  BY DEF Finished
<1>3. StackIsPath'
  BY DEF SearchInv, StackIsPath
<1>4. TriedLead'
  BY <1>2 DEF TriedLead, Searching
<1>5. FinishedClosed' /\ FinishedAcyclic'
  BY <1>2 DEF SearchInv, FinishedClosed, FinishedAcyclic
<1>6. Progress'
  BY DEF Progress
<1>7. AnswerInv'
  BY DEF AnswerInv, Acyclic
<1>8. QED BY <1>1, <1>3, <1>4, <1>5, <1>6, <1>7 DEF SearchInv

\* A call that ends the search, or finds its node visited, opens no call.
LEMMA ShortCallKeepsInv ==
  ASSUME SearchInv, Searching, NEW n \in Task, Call(n), n \in visited,
         stack # <<>> => <<Innermost, n>> \in edges,
         edges' = edges,
         tried' = tried \/ (stack # <<>> /\ tried' = tried \cup {<<Innermost, n>>}),
         roots' \subseteq Task, Task \subseteq roots' \cup visited
  PROVE  SearchInv'
<1>1. tried \subseteq tried' /\ tried' \subseteq edges
  BY DEF SearchInv, SearchTyped
<1>2. \A x, m \in Task : <<x, m>> \in tried' => x \in visited
  <2>1. ASSUME NEW x \in Task, NEW m \in Task, <<x, m>> \in tried' PROVE x \in visited
    <3>1. CASE <<x, m>> \in tried
      BY <3>1 DEF SearchInv, Progress
    <3>2. CASE stack # <<>> /\ <<x, m>> = <<Innermost, n>>
      <4>1. Innermost \in visited
        BY <3>2, StackFacts DEF SearchInv, SearchTyped
      <4>2. QED BY <3>2, <4>1
    <3>3. QED BY <2>1, <3>1, <3>2
  <2>2. QED BY <2>1
<1>3. CASE ClosesCycle(n)
  <2>1. answer' = "cycle" /\ UNCHANGED <<visited, inStack, stack>>
    BY <1>3 DEF Call
  <2>2. stack # <<>>
    BY <1>3 DEF ClosesCycle, SearchInv, SearchTyped, StackIsPath
  <2>3. ~Acyclic(edges)
    BY <1>3, <2>2, BackEdgeMeansCycle DEF ClosesCycle
  <2>4. QED BY <1>1, <1>2, <2>1, <2>3, SameStackKeepsInv
<1>4. CASE ~ClosesCycle(n)
  <2>1. UNCHANGED <<visited, inStack, stack, answer>> /\ answer = "searching"
    BY <1>4 DEF Call, Searching
  <2>2. n \in Finished
    BY <1>4 DEF ClosesCycle, Finished
  <2>3. ASSUME NEW i \in 1..Len(stack), NEW m \in Task, <<stack[i], m>> \in tried'
        PROVE  m \in Finished \/ (i < Len(stack) /\ m = stack[i + 1])
    <3>1. CASE <<stack[i], m>> \in tried
      BY <3>1 DEF SearchInv, TriedLead
    <3>2. CASE <<stack[i], m>> \notin tried
      <4>1. m = n
        BY <2>3, <3>2
      <4>2. QED BY <2>2, <4>1
    <3>3. QED BY <3>1, <3>2
  <2>4. QED BY <1>1, <1>2, <2>1, <2>3, SameStackKeepsInv
<1>5. QED BY <1>3, <1>4

\* A call that visits a new node extends the path.
LEMMA LongCallKeepsInv ==
  ASSUME SearchInv, Searching, NEW n \in Task, Call(n), n \notin visited,
         stack # <<>> => <<Innermost, n>> \in edges,
         edges' = edges,
         tried' = tried \/ (stack # <<>> /\ tried' = tried \cup {<<Innermost, n>>}),
         roots' \subseteq Task, Task \subseteq roots' \cup visited \cup {n}
  PROVE  SearchInv'
<1>1. /\ visited' = visited \cup {n} /\ inStack' = inStack \cup {n}
      /\ stack' = Append(stack, n) /\ UNCHANGED answer
  BY DEF Call, ClosesCycle, SearchInv, SearchTyped
<1>2. /\ stack \in Seq(Task) /\ Len(stack) \in Nat /\ inStack \subseteq visited
      /\ \A i \in 1..Len(stack) : stack[i] \in Task /\ stack[i] \in visited /\ stack[i] # n
  BY StackFacts DEF SearchInv, SearchTyped
<1>3. /\ stack' \in Seq(Task) /\ Len(stack') = Len(stack) + 1
      /\ \A i \in 1..Len(stack) : stack'[i] = stack[i]
      /\ stack'[Len(stack) + 1] = n
  BY <1>1, <1>2, PushFacts
<1>4. Finished' = Finished
  BY <1>1, <1>2 DEF Finished
<1>5. \A i \in 1..Len(stack') : i = Len(stack) + 1 \/ i \in 1..Len(stack)
  BY <1>2, <1>3
<1>6. SearchTyped'
  BY <1>1, <1>3 DEF SearchInv, SearchTyped
<1>7. StackIsPath'
  <2>1. inStack' = {stack'[i] : i \in 1..Len(stack')}
    <3>1. inStack = {stack[i] : i \in 1..Len(stack)}
      BY DEF SearchInv, StackIsPath
    <3>2. \A i \in 1..Len(stack) : i \in 1..Len(stack')
      BY <1>2, <1>3
    <3>3. Len(stack) + 1 \in 1..Len(stack')
      BY <1>2, <1>3
    <3>4. QED BY <1>1, <1>3, <1>5, <3>1, <3>2, <3>3
  <2>2. \A i, j \in 1..Len(stack') : stack'[i] = stack'[j] => i = j
    BY <1>2, <1>3, <1>5 DEF SearchInv, StackIsPath
  <2>3. ASSUME NEW i \in 1..(Len(stack') - 1)
        PROVE  <<stack'[i], stack'[i + 1]>> \in edges'
    <3>1. i \in 1..Len(stack)
      BY <1>2, <1>3
    <3>2. CASE i = Len(stack)
      <4>1. stack # <<>> /\ stack[i] = Innermost
        BY <1>2, <3>1, <3>2 DEF Innermost
      <4>2. QED BY <1>3, <3>1, <3>2, <4>1
    <3>3. CASE i # Len(stack)
      <4>1. i \in 1..(Len(stack) - 1) /\ i + 1 \in 1..Len(stack)
        BY <1>2, <3>1, <3>3
      <4>2. QED BY <1>3, <3>1, <4>1 DEF SearchInv, StackIsPath
    <3>4. QED BY <3>2, <3>3
  <2>4. QED BY <2>1, <2>2, <2>3 DEF StackIsPath
<1>8. ASSUME NEW x \in Task, NEW m \in Task, <<x, m>> \in tried'
      PROVE  \/ <<x, m>> \in tried
             \/ stack # <<>> /\ x = Innermost /\ m = n
  BY <1>8
<1>9. stack # <<>> => Len(stack) \in 1..Len(stack) /\ Innermost \in visited
  BY <1>2, StackFacts
<1>10. ASSUME NEW i \in 1..Len(stack'), NEW m \in Task, <<stack'[i], m>> \in tried'
       PROVE  m \in Finished' \/ (i < Len(stack') /\ m = stack'[i + 1])
  <2>1. CASE i = Len(stack) + 1
    <3>1. <<n, m>> \in tried
      BY <1>3, <1>8, <1>9, <1>10, <2>1
    <3>2. QED BY <3>1 DEF SearchInv, Progress
  <2>2. CASE i \in 1..Len(stack)
    <3>1. CASE <<stack[i], m>> \in tried
      <4>1. m \in Finished \/ (i < Len(stack) /\ m = stack[i + 1])
        BY <2>2, <3>1 DEF SearchInv, TriedLead
      <4>2. i < Len(stack) => i + 1 \in 1..Len(stack)
        BY <1>2, <2>2
      <4>3. QED BY <1>2, <1>3, <1>4, <2>2, <4>1, <4>2
    <3>2. CASE stack # <<>> /\ stack[i] = Innermost /\ m = n
      <4>1. i = Len(stack)
        BY <1>9, <2>2, <3>2 DEF Innermost, SearchInv, StackIsPath
      <4>2. QED BY <1>2, <1>3, <3>2, <4>1
    <3>3. QED BY <1>2, <1>3, <1>8, <1>10, <2>2, <3>1, <3>2
  <2>3. QED BY <1>5, <2>1, <2>2
<1>11. TriedLead'
  BY <1>10 DEF TriedLead
<1>12. FinishedClosed' /\ FinishedAcyclic'
  BY <1>4 DEF SearchInv, FinishedClosed, FinishedAcyclic
<1>13. Progress'
  BY <1>1, <1>8, <1>9 DEF SearchInv, Progress
<1>14. AnswerInv'
  BY <1>1 DEF AnswerInv, Searching
<1>15. QED
  BY <1>6, <1>7, <1>11, <1>12, <1>13, <1>14 DEF SearchInv

\* A call returns once its successors are finished, and is finished then.
LEMMA ReturnKeepsInv ==
  ASSUME SearchInv, Return
  PROVE  SearchInv'
<1> DEFINE t == Innermost
           last == Len(stack)
<1>1. /\ stack # <<>> /\ Searching
      /\ \A n \in Task : <<t, n>> \in edges => <<t, n>> \in tried
      /\ inStack' = inStack \ {t} /\ stack' = SubSeq(stack, 1, last - 1)
      /\ UNCHANGED <<edges, roots, tried, visited, answer>>
  BY DEF Return, LeaveStack
<1>2. /\ stack \in Seq(Task) /\ last \in Nat \ {0} /\ last \in 1..last
      /\ stack[last] = t /\ t \in inStack /\ t \in visited /\ t \in Task
      /\ \A i \in 1..last : stack[i] \in inStack
  BY <1>1, StackFacts, PopFacts DEF SearchInv, SearchTyped, Innermost
<1>3. /\ stack' \in Seq(Task) /\ Len(stack') = last - 1
      /\ \A i \in 1..(last - 1) : stack'[i] = stack[i]
  BY <1>1, <1>2, PopFacts
<1>4. Finished' = Finished \cup {t} /\ t \notin Finished
  BY <1>1, <1>2 DEF Finished, SearchInv, SearchTyped
<1>5. \A n \in Task : <<t, n>> \in edges => n \in Finished
  BY <1>1, <1>2 DEF SearchInv, TriedLead
<1>6. SearchTyped'
  BY <1>1, <1>3 DEF SearchInv, SearchTyped
<1>7. StackIsPath'
  <2>1. inStack' = {stack'[i] : i \in 1..Len(stack')}
    <3>1. inStack = {stack[i] : i \in 1..last}
      BY DEF SearchInv, StackIsPath
    <3>2. \A i \in 1..last : stack[i] = t => i = last
      BY <1>2 DEF SearchInv, StackIsPath
    <3>3. \A i \in 1..(last - 1) : i \in 1..last /\ i # last
      BY <1>2
    <3>4. \A i \in 1..last : i = last \/ i \in 1..(last - 1)
      BY <1>2
    <3>5. inStack' = {stack[i] : i \in 1..(last - 1)}
      BY <1>1, <1>2, <3>1, <3>2, <3>3, <3>4
    <3>6. QED BY <1>3, <3>5
  <2>2. \A i, j \in 1..Len(stack') : stack'[i] = stack'[j] => i = j
    BY <1>2, <1>3 DEF SearchInv, StackIsPath
  <2>3. \A i \in 1..(Len(stack') - 1) : <<stack'[i], stack'[i + 1]>> \in edges'
    BY <1>1, <1>2, <1>3 DEF SearchInv, StackIsPath
  <2>4. QED BY <2>1, <2>2, <2>3 DEF StackIsPath
<1>8. ASSUME NEW i \in 1..Len(stack'), NEW m \in Task, <<stack'[i], m>> \in tried'
      PROVE  m \in Finished' \/ (i < Len(stack') /\ m = stack'[i + 1])
  <2>1. i \in 1..last /\ i < last /\ <<stack[i], m>> \in tried
    BY <1>1, <1>2, <1>3, <1>8
  <2>2. m \in Finished \/ m = stack[i + 1]
    BY <1>1, <2>1 DEF SearchInv, TriedLead
  <2>3. CASE i + 1 = last
    BY <1>2, <1>4, <2>2, <2>3
  <2>4. CASE i + 1 # last
    <3>1. i + 1 \in 1..(last - 1) /\ i < last - 1
      BY <1>2, <2>1, <2>4
    <3>2. QED BY <1>3, <1>4, <2>2, <3>1
  <2>5. QED BY <2>3, <2>4
<1>9. TriedLead'
  BY <1>8 DEF TriedLead
<1>10. FinishedClosed'
  BY <1>1, <1>4, <1>5 DEF SearchInv, FinishedClosed
<1>11. ASSUME NEW S \in SUBSET Finished', S # {}
       PROVE  \E x \in S : \A y \in S : <<x, y>> \notin edges
  <2>1. CASE S \ {t} = {}
    <3>1. S = {t} /\ <<t, t>> \notin edges
      BY <1>2, <1>4, <1>5, <1>11, <2>1
    <3>2. QED BY <3>1
  <2>2. CASE S \ {t} # {}
    <3>1. S \ {t} \in SUBSET Finished
      BY <1>4
    <3>2. PICK x \in S \ {t} : \A y \in S \ {t} : <<x, y>> \notin edges
      BY <2>2, <3>1 DEF SearchInv, FinishedAcyclic
    <3>3. <<x, t>> \notin edges
      BY <1>2, <1>4, <3>1 DEF SearchInv, FinishedClosed
    <3>4. QED BY <3>2, <3>3
  <2>3. QED BY <2>1, <2>2
<1>12. FinishedAcyclic'
  BY <1>1, <1>11 DEF FinishedAcyclic
<1>13. Progress' /\ AnswerInv'
  BY <1>1 DEF SearchInv, Progress, AnswerInv, Searching
<1>14. QED
  BY <1>6, <1>7, <1>9, <1>10, <1>12, <1>13 DEF SearchInv

\* Every step of the search preserves the invariant.
LEMMA SearchStep == SearchInv /\ [SearchNext]_searchVars => SearchInv'
<1>1. ASSUME SearchInv, NEW n \in Task, TryRoot(n) PROVE SearchInv'
  <2>1. /\ Searching /\ stack = <<>> /\ roots' = roots \ {n} /\ Call(n)
        /\ edges' = edges /\ tried' = tried
        /\ roots' \subseteq Task /\ Task \subseteq roots' \cup visited \cup {n}
    BY <1>1 DEF TryRoot, SearchInv, SearchTyped, Progress
  <2>2. CASE n \in visited
    BY <1>1, <2>1, <2>2, ShortCallKeepsInv
  <2>3. CASE n \notin visited
    BY <1>1, <2>1, <2>3, LongCallKeepsInv
  <2>4. QED BY <2>2, <2>3
<1>2. ASSUME SearchInv, NEW n \in Task, FollowEdge(n) PROVE SearchInv'
  <2>1. /\ Searching /\ stack # <<>> /\ <<Innermost, n>> \in edges /\ Call(n)
        /\ tried' = tried \cup {<<Innermost, n>>} /\ edges' = edges
        /\ roots' \subseteq Task /\ Task \subseteq roots' \cup visited
    BY <1>2 DEF FollowEdge, SearchInv, SearchTyped, Progress
  <2>2. CASE n \in visited
    BY <1>2, <2>1, <2>2, ShortCallKeepsInv
  <2>3. CASE n \notin visited
    BY <1>2, <2>1, <2>3, LongCallKeepsInv
  <2>4. QED BY <2>2, <2>3
<1>3. ASSUME SearchInv, NothingFound PROVE SearchInv'
  <2>1. /\ stack = <<>> /\ roots = {} /\ answer' = "acyclic"
        /\ UNCHANGED <<edges, roots, tried, visited, inStack, stack>>
    BY <1>3 DEF NothingFound
  <2>2. SearchTyped' /\ StackIsPath' /\ Progress'
    BY <1>3, <2>1 DEF SearchInv, SearchTyped, StackIsPath, Progress
  <2>3. TriedLead' /\ AnswerInv'
    BY <2>1 DEF TriedLead, Searching, AnswerInv
  <2>4. FinishedClosed' /\ FinishedAcyclic'
    BY <1>3, <2>1 DEF SearchInv, FinishedClosed, FinishedAcyclic, Finished
  <2>5. QED BY <2>2, <2>3, <2>4 DEF SearchInv
<1>4. ASSUME SearchInv, UNCHANGED searchVars PROVE SearchInv'
  <2>1. UNCHANGED <<edges, roots, tried, visited, inStack, stack, answer>>
    BY <1>4 DEF searchVars
  <2>2. SearchTyped' /\ StackIsPath' /\ Progress'
    BY <1>4, <2>1 DEF SearchInv, SearchTyped, StackIsPath, Progress
  <2>3. TriedLead'
    BY <1>4, <2>1 DEF SearchInv, TriedLead, Searching, Finished
  <2>4. AnswerInv'
    BY <1>4, <2>1 DEF SearchInv, AnswerInv, Acyclic
  <2>5. FinishedClosed' /\ FinishedAcyclic'
    BY <1>4, <2>1 DEF SearchInv, FinishedClosed, FinishedAcyclic, Finished
  <2>6. QED BY <2>2, <2>3, <2>4, <2>5 DEF SearchInv
<1>5. QED
  BY <1>1, <1>2, <1>3, <1>4, ReturnKeepsInv DEF SearchNext

\* The invariant holds throughout every search.
THEOREM SearchInvariant == SearchSpec => []SearchInv
BY SearchInit, SearchStep, PTL DEF SearchSpec

\* A search that has tried every node without closing a cycle has finished them all.
LEMMA AcyclicAnswerIsRight ==
  ASSUME SearchInv, answer = "acyclic"
  PROVE  Acyclic(edges)
<1>1. Finished = Task
  <2>1. stack = <<>> /\ roots = {}
    BY DEF SearchInv, AnswerInv
  <2>2. inStack = {}
    BY <2>1 DEF SearchInv, StackIsPath
  <2>3. QED BY <2>1, <2>2 DEF SearchInv, Progress, SearchTyped, Finished
<1>2. QED BY <1>1 DEF SearchInv, FinishedAcyclic, Acyclic

\* _has_cycle answers TRUE exactly for the graphs with a cycle, for any number of
\* tasks and any order of iteration.
THEOREM CyclesAreFound == SearchSpec => []AnswersRightly
<1>1. SearchInv => AnswersRightly
  BY AcyclicAnswerIsRight DEF AnswersRightly, SearchInv, SearchTyped, AnswerInv, Searching
<1>2. QED BY <1>1, SearchInvariant, PTL

\* A search on the graph that an edit would make answers what the edit's guard
\* asks: validate_dependency_update lets the edit of an existing board pass exactly
\* when the task is not its own dependency, the dependencies exist, and the search
\* finds no cycle.
THEOREM SearchDecidesEdits ==
  SearchSpec => [](~Searching =>
    \A t \in Task, D \in SUBSET Task :
      D # {} /\ edges = Overlay(t, D) =>
        (ValidDeps(t, D) <=> t \notin D /\ D \subseteq tasks /\ answer = "acyclic"))
<1>1. SearchInv /\ AnswersRightly =>
        (~Searching =>
          \A t \in Task, D \in SUBSET Task :
            D # {} /\ edges = Overlay(t, D) =>
              (ValidDeps(t, D) <=> t \notin D /\ D \subseteq tasks /\ answer = "acyclic"))
  BY DEF AnswersRightly, ValidDeps, SearchInv, SearchTyped, Searching
<1>2. QED BY <1>1, SearchInvariant, CyclesAreFound, PTL
=============================================================================
