----------------------------- MODULE TaskBoard -----------------------------
(***************************************************************************)
(* The tasks, dependencies and approvals of one board, and the request     *)
(* handlers of the backend that change them (api/tasks.py, api/agent.py,   *)
(* api/approvals.py, api/ws_board.py, services/task_dependencies.py,       *)
(* services/approval_task_links.py).                                       *)
(*                                                                         *)
(* A PATCH handler is two to four steps of a request slot: it loads the    *)
(* task row (Load), may validate new dependencies (Validate), later checks *)
(* its rules and commits what it changed (one of the Update actions), and, *)
(* for workers and admins, commits the reset of dependents in a further    *)
(* transaction (Reconcile).  Other slots run between these steps, and the  *)
(* process may stop between them.                                          *)
(***************************************************************************)
EXTENDS Naturals, FiniteSets, TaskGraph

CONSTANTS
  Worker,     \* ids of board agents that are not the lead
  Lead,       \* the board lead agent
  NoOne,      \* the NULL of tasks.assigned_agent_id
  Approval,   \* approval ids
  NoTask,     \* the NULL of approvals.task_id
  Slot,       \* requests the server handles at the same time
  RuleSet,    \* combinations of board rules an admin may set
  Keep,       \* a field the PATCH payload leaves unset
  BoardSocket \* TRUE when websocket clients (/ws/board) are connected

Status == {"inbox", "in_progress", "review", "done"}
Agent == Worker \cup {Lead}
Verdict == {"pending", "approved", "rejected"}
Rules == [approvalForDone : BOOLEAN, reviewBeforeDone : BOOLEAN,
          blockOnPending : BOOLEAN, onlyLead : BOOLEAN]

ASSUME BoardAssumption ==
  /\ NoOne \notin Agent /\ Lead \notin Worker
  /\ Keep \notin Agent \cup {NoOne} \cup Status /\ \A D \in SUBSET Task : D # Keep
  /\ NoTask \notin Task
  /\ RuleSet \subseteq Rules /\ RuleSet # {}
  /\ BoardSocket \in BOOLEAN

VARIABLES
  tasks,     \* ids of the task rows
  row,       \* status, assignee and in_progress_at (set or NULL) of each id
  deps,      \* task_dependencies rows <<task, depends_on_task>>
  approval,  \* approvals rows with their approval_task_links
  rules,     \* rule columns of the board row
  agents,    \* worker agents that have not been deleted
  req        \* what each request slot holds in memory

vars == <<tasks, row, deps, approval, rules, agents, req>>

Row == [status : Status, assignee : Agent \cup {NoOne}, started : BOOLEAN]
NewRow == [status |-> "inbox", assignee |-> NoOne, started |-> FALSE]
ApprovalRow == [status : Verdict \cup {"none"},
                primary : Task \cup {NoTask}, links : SUBSET Task]
NoApproval == [status |-> "none", primary |-> NoTask, links |-> {}]
Phase == {"idle", "loaded", "committed", "raised"}
Edges == SUBSET Task
Request == [phase : Phase, task : Task \cup {NoTask}, snap : Row, callers : SUBSET Worker,
            new : {Keep} \cup Edges, old : Edges, reopened : BOOLEAN]
Idle == [phase |-> "idle", task |-> NoTask, snap |-> NewRow, callers |-> {},
         new |-> Keep, old |-> {}, reopened |-> FALSE]
Raised == [Idle EXCEPT !.phase = "raised"]

-----------------------------------------------------------------------------
(* Queries *)

DependsOn(t) == {d \in Task : <<t, d>> \in deps}
BlockedByUnstarted(D) == {d \in D : row[d].status = "inbox"}   \* variant
BlockedBy(D) == {d \in D : row[d].status # "done"}
Blocked(t) == BlockedBy(DependsOn(t)) # {}
Parked(r) == r.status = "inbox" /\ r.assignee = NoOne

Overlay(t, D) == {e \in deps : e[1] # t} \cup {<<t, d>> : d \in D}

ValidDepsBefore(t, D) == t \notin D /\ D \subseteq tasks /\ Acyclic(deps)   \* variant
ValidDeps(t, D) == t \notin D /\ D \subseteq tasks /\ (D = {} \/ Acyclic(Overlay(t, D)))

(* Link rows count; approvals.task_id counts alone only without link rows.  *)
LinkedTasks(a) ==
  IF approval[a].links = {} THEN {approval[a].primary} \ {NoTask} ELSE approval[a].links

PendingOn(t) == {a \in Approval : approval[a].status = "pending" /\ t \in LinkedTasks(a)}

HasApproved(t) ==
  \E a \in Approval : /\ approval[a].status = "approved"
                      /\ approval[a].primary = t \/ t \in approval[a].links

(* The three gates, from the status the request loaded to the one it wants. *)
PendingGateOnDone(t, from, to, requested) ==   \* variant
  to = "done" /\ rules.blockOnPending => PendingOn(t) = {}
PendingGate(t, from, to, requested) ==
  requested /\ from # to /\ rules.blockOnPending => PendingOn(t) = {}

ReviewGate(from, to) ==
  from # "done" /\ to = "done" /\ rules.reviewBeforeDone => from = "review"

ApprovalGateAnyVerdict(t, from, to) ==   \* variant
  to = "done" /\ rules.approvalForDone => \E a \in Approval : t \in LinkedTasks(a)
ApprovalGate(t, from, to) ==
  from # "done" /\ to = "done" /\ rules.approvalForDone => HasApproved(t)

Gates(t, from, to, requested) ==
  /\ PendingGate(t, from, to, requested)
  /\ ReviewGate(from, to)
  /\ ApprovalGate(t, from, to)

(* The UPDATE the ORM emits: only columns whose value differs from the one  *)
(* loaded, or that were set to a new timestamp or set twice (touched).      *)
Flush(now, loaded, wanted, touched) ==
  [status |-> IF wanted.status # loaded.status THEN wanted.status ELSE now.status,
   assignee |-> IF wanted.assignee # loaded.assignee \/ "assignee" \in touched
                THEN wanted.assignee ELSE now.assignee,
   started |-> IF wanted.started # loaded.started \/ "started" \in touched
               THEN wanted.started ELSE now.started]

ForeignKeysUnchecked(r) == TRUE   \* variant
ForeignKeys(r) == r.assignee \in agents \cup {Lead, NoOne}

-----------------------------------------------------------------------------
Init ==
  /\ tasks = {}
  /\ row = [t \in Task |-> NewRow]
  /\ deps = {}
  /\ approval = [a \in Approval |-> NoApproval]
  /\ rules \in RuleSet
  /\ agents = Worker
  /\ req = [s \in Slot |-> Idle]

(* The request is authenticated, as an agent that exists now if as one at   *)
(* all, and get_task_or_404 loads the row a PATCH, or a websocket move,     *)
(* works on.                                                                *)
Load(s, t) ==
  /\ req[s].phase = "idle" /\ t \in tasks
  /\ req' = [req EXCEPT ![s] = [Idle EXCEPT !.phase = "loaded", !.task = t,
                                            !.snap = row[t], !.callers = agents]]
  /\ UNCHANGED <<tasks, row, deps, approval, rules, agents>>

(* replace_task_dependencies: the new edges D are checked against the graph *)
(* committed now, the rows found now are deleted, and the rest of the       *)
(* handler runs before all of it commits.                                   *)
Validate(s, D) ==
  /\ req[s].phase = "loaded" /\ req[s].new = Keep
  /\ req[s].snap.status # "done"
  /\ ValidDeps(req[s].task, D)
  /\ req' = [req EXCEPT ![s].new = D, ![s].old = DependsOn(req[s].task)]
  /\ UNCHANGED <<tasks, row, deps, approval, rules, agents>>

(* A validation error, a lost connection or a restart before the commit.    *)
Abandon(s) ==
  /\ req[s].phase = "loaded"
  /\ req' = [req EXCEPT ![s] = Idle]
  /\ UNCHANGED <<tasks, row, deps, approval, rules, agents>>

(* model_dump(exclude_unset=True): a field left unset keeps its value.      *)
OrLoaded(field, current) == IF field = Keep THEN current ELSE field

(* The dependency rows at commit: what others committed since Validate      *)
(* stays.  A row to a task that is gone, or one that is there already,      *)
(* breaks a constraint of the table, and the request fails.                 *)
OthersEdges(s) == DependsOn(req[s].task) \ req[s].old
EdgesFit(s) == req[s].new # Keep => req[s].new \subseteq tasks \ OthersEdges(s)
SetDeps(s) ==
  IF req[s].new = Keep THEN deps
  ELSE Overlay(req[s].task, req[s].new \cup OthersEdges(s))
EffectiveDeps(s) == OrLoaded(req[s].new, DependsOn(req[s].task))

(* First commit of the common tail of worker and admin updates: the task    *)
(* row and the dependency rows, after the gates.  A row deleted meanwhile   *)
(* makes the UPDATE match nothing, and the request fails.                   *)
CommitTask(s, wanted, touched, requested) ==
  LET t == req[s].task
      loaded == req[s].snap
      after == Flush(row[t], loaded, wanted, touched)
  IN /\ t \in tasks
     /\ Gates(t, loaded.status, wanted.status, requested)
     /\ ForeignKeys(after) /\ EdgesFit(s)
     /\ row' = [row EXCEPT ![t] = after]
     /\ deps' = SetDeps(s)
     /\ req' = [req EXCEPT ![s] =
                  [Idle EXCEPT !.phase = "committed", !.task = t,
                     !.reopened = loaded.status = "done" /\ after.status # "done"]]
     /\ UNCHANGED <<tasks, approval, rules, agents>>

MayClaim(loaded, w) == loaded.assignee \in {NoOne, w}

(* A worker agent's PATCH of the status: only of unassigned or own tasks.   *)
(* The handler works on the actor it loaded: the agent may be deleted by    *)
(* now, and then the foreign key lets the commit through only if it does    *)
(* not write the agent's id.                                                *)
WorkerUpdate(s, w, to) ==
  LET loaded == req[s].snap
      leaves == to \in {"inbox", "review"}
      wanted == [status |-> to,
                 assignee |-> IF leaves THEN NoOne ELSE w,
                 started |-> ~leaves /\ (to = "in_progress" \/ loaded.started)]
  IN /\ req[s].phase = "loaded" /\ req[s].new = Keep
     /\ w \in req[s].callers
     /\ MayClaim(loaded, w)
     /\ ~rules.onlyLead
     /\ to # "inbox" => ~Blocked(req[s].task)
     /\ CommitTask(s, wanted, IF to = "in_progress" THEN {"started"} ELSE {},
                   to # loaded.status)

(* An admin's PATCH.  A blocked task is sent back to the inbox, whatever    *)
(* was asked, unless it is done and stays done.                             *)
AdminUpdate(s, to, who) ==
  LET loaded == req[s].snap
      target == OrLoaded(to, loaded.status)
      reset == /\ BlockedBy(EffectiveDeps(s)) # {}
               /\ ~(loaded.status = "done" /\ target = "done")
      status == IF reset THEN "inbox" ELSE target
      statusSet == reset \/ to # Keep
      leaves == statusSet /\ status \in {"inbox", "review"}
      stamped == statusSet /\ status = "in_progress"
      wanted == [status |-> status,
                 assignee |-> IF reset THEN NoOne
                              ELSE OrLoaded(who, IF leaves THEN NoOne ELSE loaded.assignee),
                 started |-> ~leaves /\ (loaded.started \/ stamped)]
      touched == (IF stamped THEN {"started"} ELSE {})
                 \cup (IF leaves /\ loaded.assignee # NoOne THEN {"assignee"} ELSE {})
  IN /\ req[s].phase = "loaded"
     /\ CommitTask(s, wanted, touched, to # Keep /\ to # loaded.status)

(* The second transaction of a worker's or admin's PATCH: reopening a done  *)
(* task sends its unfinished dependents back to the inbox.  The broadcast   *)
(* after it names a variable the module never imports, so it raises.        *)
Reconcile(s) ==
  /\ req[s].phase = "committed"
  /\ row' = [t \in Task |->
               IF req[s].reopened /\ <<t, req[s].task>> \in deps /\ row[t].status # "done"
               THEN NewRow ELSE row[t]]
  /\ req' = [req EXCEPT ![s] = Raised]
  /\ UNCHANGED <<tasks, deps, approval, rules, agents>>

(* The process stops between the two commits, or the response goes out.     *)
Leave(s) ==
  /\ req[s].phase \in {"committed", "raised"}
  /\ req' = [req EXCEPT ![s] = Idle]
  /\ UNCHANGED <<tasks, row, deps, approval, rules, agents>>

(* The board lead's PATCH: one transaction; a lead moves a task only out of *)
(* review, and never reopens a done one.                                    *)
LeadUpdate(s, to, who) ==
  LET t == req[s].task
      loaded == req[s].snap
      status == OrLoaded(to, loaded.status)
      wanted == [status |-> status,
                 assignee |-> IF to = "inbox" THEN NoOne
                              ELSE OrLoaded(who, loaded.assignee),
                 started |-> to # "inbox" /\ loaded.started]
      after == Flush(row[t], loaded, wanted, {})
  IN /\ req[s].phase = "loaded" /\ t \in tasks
     /\ to # Keep \/ who # Keep => BlockedBy(EffectiveDeps(s)) = {}
     /\ to # Keep => loaded.status = "review"
     /\ Gates(t, loaded.status, status, to # Keep)
     /\ ForeignKeys(after) /\ EdgesFit(s)
     /\ row' = [row EXCEPT ![t] = after]
     /\ deps' = SetDeps(s)
     /\ req' = [req EXCEPT ![s] = Idle]
     /\ UNCHANGED <<tasks, approval, rules, agents>>

(* An id no request still refers to stands for a fresh uuid4.               *)
Fresh(t) == t \notin tasks /\ \A s \in Slot : req[s].task # t

(* Creation by an admin (raises after its commits, like Reconcile) or by    *)
(* the lead (replies).  Blocked tasks must start parked.                    *)
CreateTask(s, t, status, who, D, byLead) ==
  LET new == [status |-> status, assignee |-> who, started |-> FALSE]
  IN /\ req[s].phase = "idle" /\ Fresh(t)
     /\ ValidDeps(t, D)
     /\ BlockedBy(D) # {} => Parked(new)
     /\ byLead => who # Lead
     /\ ForeignKeys(new)
     /\ tasks' = tasks \cup {t}
     /\ row' = [row EXCEPT ![t] = new]
     /\ deps' = deps \cup {<<t, d>> : d \in D}
     /\ req' = [req EXCEPT ![s] = IF byLead THEN Idle ELSE Raised]
     /\ UNCHANGED <<approval, rules, agents>>

(* Deletion removes the task, its dependency rows in both directions and    *)
(* its approval links; an approval whose task_id it was moves to another    *)
(* linked task, or goes too when there is none.                             *)
UnlinkedKeepsPrimary(a, t, heir) ==   \* variant
  [approval[a] EXCEPT !.links = @ \ {t}]
Unlinked(a, t, heir) ==
  LET links == approval[a].links \ {t}
  IN IF approval[a].primary # t THEN [approval[a] EXCEPT !.links = links]
     ELSE IF links = {} THEN NoApproval
     ELSE [status |-> approval[a].status, primary |-> heir, links |-> links]

DeleteTask(s, t, byLead) ==
  /\ req[s].phase = "idle" /\ t \in tasks
  /\ \E heir \in [Approval -> Task] :
       /\ \A a \in Approval :
            approval[a].primary = t /\ approval[a].links \ {t} # {}
              => heir[a] \in approval[a].links \ {t}
       /\ approval' = [a \in Approval |-> Unlinked(a, t, heir[a])]
  /\ tasks' = tasks \ {t}
  /\ row' = [row EXCEPT ![t] = NewRow]
  /\ deps' = {e \in deps : e[1] # t /\ e[2] # t}
  /\ req' = [req EXCEPT ![s] = IF byLead THEN Idle ELSE Raised]
  /\ UNCHANGED <<rules, agents>>

-----------------------------------------------------------------------------
(* Websocket clients of the board: no gate, no dependency check, no reset   *)
(* of dependents.                                                           *)
SocketMove(s, to) ==
  LET t == req[s].task
  IN /\ BoardSocket /\ req[s].phase = "loaded" /\ req[s].new = Keep /\ t \in tasks
     /\ row' = [row EXCEPT ![t] =
                  Flush(@, req[s].snap, [req[s].snap EXCEPT !.status = to], {})]
     /\ req' = [req EXCEPT ![s] = Idle]
     /\ UNCHANGED <<tasks, deps, approval, rules, agents>>

SocketCreate(t, status) ==
  /\ BoardSocket /\ Fresh(t)
  /\ tasks' = tasks \cup {t}
  /\ row' = [row EXCEPT ![t] = [NewRow EXCEPT !.status = status]]
  /\ UNCHANGED <<deps, approval, rules, agents, req>>

(* Deleting an agent gives its work back.                                   *)
DeleteAgent(w) ==
  /\ w \in agents
  /\ agents' = agents \ {w}
  /\ row' = [t \in Task |->
               IF row[t].assignee # w THEN row[t]
               ELSE IF row[t].status = "in_progress" THEN NewRow
               ELSE [row[t] EXCEPT !.assignee = NoOne]]
  /\ UNCHANGED <<tasks, deps, approval, rules, req>>

(* Approvals; the row locks that make these atomic are in ApprovalLocks.    *)
NoConflictOnPrimary(a, T) ==   \* variant
  \A b \in Approval : approval[b].status = "pending" /\ approval[b].primary \in T => b = a
NoConflict(a, T) == \A t \in T : PendingOn(t) \subseteq {a}

CreateApproval(a, status, T, primary) ==
  /\ approval[a] = NoApproval /\ T \subseteq tasks
  /\ IF T = {} THEN primary = NoTask ELSE primary \in T
  /\ status = "pending" => NoConflict(a, T)
  /\ approval' = [approval EXCEPT ![a] =
                    [status |-> status, primary |-> primary, links |-> T]]
  /\ UNCHANGED <<tasks, row, deps, rules, agents, req>>

UpdateApproval(a, status) ==
  /\ approval[a] # NoApproval
  /\ status = "pending" /\ approval[a].status # "pending" => NoConflict(a, LinkedTasks(a))
  /\ approval' = [approval EXCEPT ![a].status = status]
  /\ UNCHANGED <<tasks, row, deps, rules, agents, req>>

SetRules(r) ==
  /\ rules' = r
  /\ UNCHANGED <<tasks, row, deps, approval, agents, req>>

-----------------------------------------------------------------------------
AnyUpdate(s) ==
  \/ \E w \in Worker, to \in Status : WorkerUpdate(s, w, to)
  \/ \E to \in Status \cup {Keep}, who \in Agent \cup {NoOne, Keep} : AdminUpdate(s, to, who)
  \/ \E to \in {"inbox", "done", Keep}, who \in Worker \cup {NoOne, Keep} :
       LeadUpdate(s, to, who)

Handler(s) ==
  \/ \E t \in Task : Load(s, t)
  \/ \E D \in Edges : Validate(s, D)
  \/ Abandon(s) \/ AnyUpdate(s) \/ Reconcile(s) \/ Leave(s)
  \/ \E t \in Task, status \in Status, who \in Agent \cup {NoOne}, D \in SUBSET Task,
        byLead \in BOOLEAN : CreateTask(s, t, status, who, D, byLead)
  \/ \E t \in Task, byLead \in BOOLEAN : DeleteTask(s, t, byLead)
  \/ \E to \in Status : SocketMove(s, to)

Next ==
  \/ \E s \in Slot : Handler(s)
  \/ \E t \in Task, status \in Status : SocketCreate(t, status)
  \/ \E w \in Worker : DeleteAgent(w)
  \/ \E a \in Approval, status \in Verdict, T \in SUBSET Task, p \in Task \cup {NoTask} :
       CreateApproval(a, status, T, p)
  \/ \E a \in Approval, status \in Verdict : UpdateApproval(a, status)
  \/ \E r \in RuleSet : SetRules(r)

Spec == Init /\ [][Next]_vars

-----------------------------------------------------------------------------
(* Properties.  The websocket handlers have no gates: the four action        *)
(* properties about statuses speak of boards without such clients            *)
(* (BoardSocket = FALSE).                                                    *)

\* Every column, and the memory of every request, holds a value of its type.
ColumnsOK ==
  /\ tasks \subseteq Task
  /\ row \in [Task -> Row]
  /\ deps \subseteq Task \X Task
  /\ approval \in [Approval -> ApprovalRow]
  /\ rules \in Rules
  /\ agents \subseteq Worker
  /\ req \in [Slot -> Request]

\* Columns have their types, and no task is assigned to a deleted agent, though
\* the requests that assign it, and those the agent sent itself, were loaded
\* before the deletion and commit after it.
TypeOK ==
  /\ ColumnsOK
  /\ \A t \in Task : row[t].assignee \in agents \cup {Lead, NoOne}

\* Deleting and creating tasks, in any order, leaves no dependency or approval
\* link to a missing task, and an approval's task_id is one of its links
\* (delete_task_and_related_records repairs both by hand).
LinksIntact ==
  /\ \A e \in deps : e[1] \in tasks /\ e[2] \in tasks
  /\ \A a \in Approval :
       /\ approval[a].links \subseteq tasks
       /\ IF approval[a].links = {} THEN approval[a].primary = NoTask
          ELSE approval[a].primary \in approval[a].links
       /\ approval[a].status = "none" => approval[a] = NoApproval

\* "Each task can have only one pending approval": it survives creation,
\* reopening, deletion of tasks and the handing over of task_id.
OnePendingPerTask ==
  \A t \in tasks : \A a, b \in PendingOn(t) : a = b

\* Requests one at a time: the dependency graph of the board never gets a cycle,
\* through edits, creations and deletions of tasks in any order.  (Two requests
\* that validate before either commits do save one.)
AcyclicDeps == Acyclic(deps)

\* Under the rule, no handler marks a task done without an approved approval
\* linked to it, even when it decided on a row loaded earlier.
DoneNeedsApproval ==
  [][\A t \in tasks :
       row[t].status # "done" /\ row'[t].status = "done" /\ rules.approvalForDone
         => HasApproved(t)]_vars

\* Under the rule, a task with a pending approval keeps its status, except that
\* a reset of blocked tasks or the deletion of its agent may send it to the inbox.
PendingFreezes ==
  [][\A t \in tasks \cap tasks' :
       /\ rules.blockOnPending /\ PendingOn(t) # {}
       /\ row'[t].status # row[t].status
       => /\ row'[t].status = "inbox"
          /\ agents' # agents \/ \E d \in Task : <<t, d>> \in deps']_vars

\* Requests one at a time: a blocked task that is not done waits unassigned in
\* the inbox.  One that does not was at work before its dependencies were not
\* done: a dependency was reopened (Reconcile resets the task in a transaction
\* of its own, if the process lives until then), or the lead sent nothing but
\* new dependencies.  Every other step of every handler leaves it as it was, or
\* parks it.
AtRisk(t) == t \in tasks /\ Blocked(t) /\ row[t].status # "done" /\ ~Parked(row[t])
LeadRelinks(t) == row' = row /\ DependsOn(t)' # DependsOn(t)
Reopens(d) == row[d].status = "done" /\ row'[d].status # "done"

NoWorkOnBlocked ==
  [][agents' = agents =>
       \A t \in Task :
         AtRisk(t)' => \/ AtRisk(t) /\ row'[t] = row[t]
                       \/ LeadRelinks(t)
                       \/ \E d \in DependsOn(t) : Reopens(d)]_vars

\* "Agents can only change status on tasks assigned to them.": a worker's
\* update never takes a task away from another agent.
ClaimRespected ==
  [][\A s \in Slot, w \in Worker, to \in Status :
       WorkerUpdate(s, w, to) => row[req[s].task].assignee \in {NoOne, w}]_vars
=============================================================================
