------------------------------ MODULE TaskPanel ------------------------------
(***************************************************************************)
(* The task panel of a board page (app/boards/[boardId]/page.tsx): which   *)
(* task it shows, how that follows the taskId of the URL, and the answers  *)
(* to its requests (comments, a new comment, a save, a deletion), which    *)
(* arrive whenever they do, whatever the panel shows by then.              *)
(*                                                                         *)
(* A step is an event handler with the render and the effects it causes.   *)
(* router.replace takes effect in a later step.  The refs selectedTaskIdRef*)
(* and tasksRef follow their states in the same step.  The comment stream  *)
(* stays open here; how it fails is in BoardFeeds.                         *)
(***************************************************************************)
EXTENDS Naturals, FiniteSets

CONSTANTS
  Task,     \* tasks of the board
  Comment,  \* comments that may be written
  Old,      \* those that are there from the start
  PageSize, \* of a list of comments: limit and default of pagination.py
  Request,  \* ids of requests for a list of comments, used again
  None,     \* no task
  Idle      \* no navigation, no request

ASSUME PanelAssumption ==
  /\ None \notin Task /\ Idle \notin Task \cup {None}
  /\ Old \subseteq Comment /\ PageSize \in Nat /\ Cardinality(Old) <= PageSize

VARIABLES
  loaded,    \* hasLoadedBoardSnapshot
  tasks,     \* the ids in the task list
  url,       \* taskId of searchParams
  nav,       \* where the router is going
  opened,    \* openedTaskIdFromUrlRef
  sel,       \* selectedTask
  detail,    \* isDetailOpen
  edit,      \* isEditDialogOpen
  comments,  \* the comments in the panel's state
  loading,   \* isCommentsLoading
  err,       \* commentsError is set
  load,      \* requests for comments: the task, and the items of the answer
  post,      \* the comment under way: its task
  save,      \* the save under way: its task
  del,       \* the deletion under way: its task, and url when it was asked
  store,     \* the server's comments: the task of each
  first,     \* the comments among the oldest PageSize of their task
  wire,      \* comments whose event the stream has not brought yet
  crossed,   \* an answer was put under another task (history)
  raced,     \* a list of comments replaced newer ones (history)
  late       \* a save or deletion was answered for another task (history)

panel == <<opened, sel, detail, edit>>
thread == <<comments, loading, err, load>>
written == <<store, first>>
history == <<crossed, raced, late>>
vars == <<loaded, tasks, url, nav, panel, thread, post, save, del, written, wire, history>>

Pending == {r \in Request : load[r].task # Idle}
NoLoad == [task |-> Idle, ready |-> FALSE, items |-> {}]

Answer == [task : Task \cup {Idle}, ready : BOOLEAN, items : SUBSET Comment]
Draft == [task : Task \cup {Idle}, id : Comment \cup {Idle}]
Deletion == [task : Task \cup {Idle}, linked : BOOLEAN]

TypeOK ==
  /\ loaded \in BOOLEAN /\ tasks \subseteq Task
  /\ url \in Task \cup {None} /\ nav \in Task \cup {None, Idle}
  /\ opened \in Task \cup {None} /\ sel \in Task \cup {None}
  /\ detail \in BOOLEAN /\ edit \in BOOLEAN
  /\ comments \subseteq Comment /\ loading \in BOOLEAN /\ err \in BOOLEAN
  /\ load \in [Request -> Answer] /\ post \in Draft
  /\ save \in Task \cup {Idle} /\ del \in Deletion
  /\ store \in [Comment -> Task \cup {None}] /\ first \subseteq Comment
  /\ wire \subseteq Comment
  /\ crossed \in BOOLEAN /\ raced \in BOOLEAN /\ late \in BOOLEAN

Init ==
  /\ loaded = FALSE /\ tasks = {} /\ url \in Task \cup {None} /\ nav = Idle
  /\ opened = None /\ sel = None /\ detail = FALSE /\ edit = FALSE
  /\ comments = {} /\ loading = FALSE /\ err = FALSE
  /\ load = [r \in Request |-> NoLoad]
  /\ post = [task |-> Idle, id |-> Idle] /\ save = Idle
  /\ del = [task |-> Idle, linked |-> FALSE]
  /\ store \in [Comment -> Task \cup {None}] /\ first = Old /\ wire = {}
  /\ \A c \in Comment : store[c] # None <=> c \in Old
  /\ crossed = FALSE /\ raced = FALSE /\ late = FALSE

-----------------------------------------------------------------------------
(* loadComments.  The comments of the task shown before stay until the      *)
(* answer replaces them.                                                    *)
LoadComments(t) ==
  /\ loading' = TRUE /\ err' = FALSE
  /\ \E r \in Request \ Pending : load' = [load EXCEPT ![r].task = t]

(* openComments, on a page whose URL names u: a navigation, unless the URL  *)
(* names the task already.                                                  *)
OpenComments(t, u) ==
  /\ nav' = IF u = t THEN nav ELSE t
  /\ sel' = t /\ detail' = TRUE
  /\ LoadComments(t)
  /\ UNCHANGED <<edit, comments>>

(* A task that is not in the list is not taken out of the URL.              *)
FollowUrlStays(u, ts, n) ==
  IF u = None
  THEN opened' = None /\ nav' = n /\ UNCHANGED <<sel, detail, edit, thread>>
  ELSE IF opened = u \/ u \notin ts
  THEN nav' = n /\ UNCHANGED <<panel, thread>>
  ELSE /\ opened' = u
       /\ nav' = n /\ sel' = u /\ detail' = TRUE
       /\ LoadComments(u)
       /\ UNCHANGED <<edit, comments>>

(* The effect on taskId, tasks and openComments, for the new values of the  *)
(* first two, when a navigation still to come is n.                         *)
FollowUrl(u, ts, n) ==
  IF u = None
  THEN opened' = None /\ nav' = n /\ UNCHANGED <<sel, detail, edit, thread>>
  ELSE IF opened = u
  THEN nav' = n /\ UNCHANGED <<panel, thread>>
  ELSE IF u \notin ts
  THEN nav' = None /\ UNCHANGED <<panel, thread>>
  ELSE /\ opened' = u
       /\ nav' = n /\ sel' = u /\ detail' = TRUE
       /\ LoadComments(u)
       /\ UNCHANGED <<edit, comments>>

Snapshot ==
  /\ ~loaded /\ loaded' = TRUE
  /\ \E ts \in SUBSET Task : tasks' = ts /\ FollowUrl(url, ts, nav)
  /\ UNCHANGED <<url, post, save, del, written, wire, history>>

Navigate ==
  /\ nav # Idle /\ url' = nav
  /\ FollowUrl(nav, tasks, Idle)
  /\ UNCHANGED <<loaded, tasks, post, save, del, written, wire, history>>

(* The task stream: the list is a new one, with the task in it.             *)
TaskEvent(t) ==
  /\ loaded /\ tasks' = tasks \cup {t}
  /\ FollowUrl(url, tasks', nav)
  /\ UNCHANGED <<loaded, url, post, save, del, written, wire, history>>

(* A card of the board or the list, or a dependency in the panel.           *)
Click(t) ==
  /\ loaded /\ t \in tasks
  /\ OpenComments(t, url)
  /\ UNCHANGED <<loaded, tasks, url, opened, post, save, del, written, wire, history>>

(* The panel is closed, but the URL still names the task.                   *)
CloseKeepsUrl(linked) ==
  /\ opened' = None /\ sel' = None /\ detail' = FALSE /\ edit' = FALSE
  /\ comments' = {} /\ err' = FALSE
  /\ nav' = nav

(* closeComments, in a render whose URL does or does not name a task.       *)
CloseComments(linked) ==
  /\ opened' = None /\ sel' = None /\ detail' = FALSE /\ edit' = FALSE
  /\ comments' = {} /\ err' = FALSE
  /\ nav' = IF linked THEN None ELSE nav

(* The close button or the backdrop; the chat and the live feed, which take *)
(* the place of the panel, close it too.                                    *)
Close ==
  /\ detail /\ CloseComments(url # None)
  /\ UNCHANGED <<loaded, tasks, url, loading, load, post, save, del, written, wire, history>>

-----------------------------------------------------------------------------
(* The answer to loadComments takes the place of the comments, whichever    *)
(* task is selected by then.                                                *)
Misplaced(t) == sel # None /\ sel # t

(* list_task_comments: the first page, of the oldest.                       *)
ServeLoad(r) ==
  /\ r \in Pending /\ ~load[r].ready
  /\ load' = [load EXCEPT ![r].ready = TRUE,
                          ![r].items = {c \in first : store[c] = load[r].task}]
  /\ UNCHANGED <<loaded, tasks, url, nav, panel, comments, loading, err,
                 post, save, del, written, wire, history>>

LoadDone(r) ==
  /\ r \in Pending /\ load[r].ready
  /\ comments' = load[r].items /\ loading' = FALSE
  /\ crossed' = (crossed \/ Misplaced(load[r].task))
  /\ load' = [load EXCEPT ![r] = NoLoad]
  /\ UNCHANGED <<loaded, tasks, url, nav, panel, err, post, save, del, written, wire, raced, late>>

(* The spinner stays.                                                       *)
LoadFailsSpinning(r) ==
  /\ r \in Pending
  /\ err' = TRUE /\ loading' = loading
  /\ load' = [load EXCEPT ![r] = NoLoad]
  /\ UNCHANGED <<loaded, tasks, url, nav, panel, comments, post, save, del, written, wire, history>>

LoadFails(r) ==
  /\ r \in Pending
  /\ err' = TRUE /\ loading' = FALSE
  /\ load' = [load EXCEPT ![r] = NoLoad]
  /\ UNCHANGED <<loaded, tasks, url, nav, panel, comments, post, save, del, written, wire, history>>

(* mergeCommentsById: a comment is there once, in its newest version.       *)
MergeComments(more) == comments \cup more

(* A comment is on the page before the list that was read without it,       *)
(* although it would be in one read now.                                    *)
Overtakes(c) ==
  /\ c \in first
  /\ \E r \in Pending : load[r].ready /\ load[r].task = store[c] /\ c \notin load[r].items

(* create_task_comment: the event is stored, and its row is streamed.       *)
Write(c, t) ==
  /\ store' = [store EXCEPT ![c] = t] /\ wire' = wire \cup {c}
  /\ first' = IF Cardinality({d \in Comment : store[d] = t}) < PageSize
              THEN first \cup {c} ELSE first

(* Somebody else comments.                                                  *)
CommentOn(c, t) ==
  /\ store[c] = None /\ post.id # c
  /\ Write(c, t)
  /\ UNCHANGED <<loaded, tasks, url, nav, panel, thread, post, save, del, history>>

(* Variants of CommentEvent: without the check of selectedTaskIdRef; never  *)
(* merging.                                                                 *)
CommentEventAnywhere(c) ==
  /\ c \in wire /\ wire' = wire \ {c}
  /\ comments' = MergeComments({c})
  /\ raced' = (raced \/ Overtakes(c))
  /\ UNCHANGED <<loaded, tasks, url, nav, panel, loading, err, load,
                 post, save, del, written, crossed, late>>

CommentEventIgnored(c) ==
  /\ c \in wire /\ wire' = wire \ {c}
  /\ comments' = comments
  /\ raced' = (raced \/ Overtakes(c))
  /\ UNCHANGED <<loaded, tasks, url, nav, panel, loading, err, load,
                 post, save, del, written, crossed, late>>

(* Its event: the comment is merged if its task is selected.                *)
CommentEvent(c) ==
  /\ c \in wire /\ wire' = wire \ {c}
  /\ comments' = IF sel = store[c] THEN MergeComments({c}) ELSE comments
  /\ raced' = (raced \/ Overtakes(c))
  /\ UNCHANGED <<loaded, tasks, url, nav, panel, loading, err, load,
                 post, save, del, written, crossed, late>>

(* handlePostComment: one at a time, for the task selected when it is sent. *)
Post(c) ==
  /\ detail /\ sel # None /\ post.task = Idle /\ store[c] = None
  /\ post' = [task |-> sel, id |-> c]
  /\ UNCHANGED <<loaded, tasks, url, nav, panel, thread, save, del, written, wire, history>>

ServePost ==
  /\ post.task # Idle /\ store[post.id] = None
  /\ Write(post.id, post.task)
  /\ UNCHANGED <<loaded, tasks, url, nav, panel, thread, post, save, del, history>>

PostDone ==
  /\ post.task # Idle /\ store[post.id] # None
  /\ comments' = MergeComments({post.id})
  /\ crossed' = (crossed \/ Misplaced(post.task))
  /\ raced' = (raced \/ Overtakes(post.id))
  /\ post' = [task |-> Idle, id |-> Idle]
  /\ UNCHANGED <<loaded, tasks, url, nav, panel, loading, err, load,
                 save, del, written, wire, late>>

(* The post is reset to no task instead of no request.                      *)
PostFailsToNone ==
  /\ post.task # Idle /\ post' = [task |-> None, id |-> Idle]
  /\ UNCHANGED <<loaded, tasks, url, nav, panel, thread, save, del, written, wire, history>>

(* The post is refused or its answer lost; the comment may be there.        *)
PostFails ==
  /\ post.task # Idle /\ post' = [task |-> Idle, id |-> Idle]
  /\ UNCHANGED <<loaded, tasks, url, nav, panel, thread, save, del, written, wire, history>>

-----------------------------------------------------------------------------
(* The edit dialog, its save and the deletion behind it.                    *)
Edit ==
  /\ detail /\ sel # None /\ ~edit /\ edit' = TRUE
  /\ UNCHANGED <<loaded, tasks, url, nav, opened, sel, detail, thread,
                 post, save, del, written, wire, history>>

Dismiss ==
  /\ edit /\ edit' = FALSE
  /\ UNCHANGED <<loaded, tasks, url, nav, opened, sel, detail, thread,
                 post, save, del, written, wire, history>>

Save ==
  /\ edit /\ save = Idle /\ save' = sel
  /\ UNCHANGED <<loaded, tasks, url, nav, panel, thread, post, del, written, wire, history>>

(* The saved task is selected, and the dialog closed (closeOnSuccess, in    *)
(* the one call there is), whatever is shown.  The task list is a new one,  *)
(* so the effect runs: it may select the task of the URL instead.           *)
SaveDone ==
  /\ save # Idle /\ save' = Idle /\ edit' = FALSE
  /\ late' = (late \/ sel # save)
  /\ IF url \in tasks \ {opened}
     THEN opened' = url /\ sel' = url /\ detail' = TRUE /\ LoadComments(url)
          /\ UNCHANGED <<nav, comments>>
     ELSE /\ sel' = save /\ opened' = (IF url = None THEN None ELSE opened)
          /\ nav' = IF url \in {None, opened} THEN nav ELSE None
          /\ UNCHANGED <<detail, thread>>
  /\ UNCHANGED <<loaded, tasks, url, post, del, written, wire, crossed, raced>>

SaveFails ==
  /\ save # Idle /\ save' = Idle
  /\ UNCHANGED <<loaded, tasks, url, nav, panel, thread, post, del, written, wire, history>>

Delete ==
  /\ edit /\ save = Idle /\ del.task = Idle
  /\ del' = [task |-> sel, linked |-> url # None]
  /\ UNCHANGED <<loaded, tasks, url, nav, panel, thread, post, save, written, wire, history>>

(* The panel is closed, whatever it shows.  The task list has changed, so   *)
(* the effect runs: it finds no task that is not opened, as opened is None, *)
(* or opens the one the URL names.                                          *)
DeleteDone ==
  /\ del.task # Idle /\ del' = [task |-> Idle, linked |-> FALSE]
  /\ tasks' = tasks \ {del.task}
  /\ late' = (late \/ Misplaced(del.task))
  /\ IF url \in tasks'
     THEN /\ opened' = url /\ sel' = url /\ detail' = TRUE /\ edit' = FALSE
          /\ comments' = {} /\ LoadComments(url)
          /\ nav' = IF del.linked THEN None ELSE nav
     ELSE CloseComments(del.linked \/ url # None) /\ UNCHANGED <<loading, load>>
  /\ UNCHANGED <<loaded, url, post, save, written, wire, crossed, raced>>

DeleteFails ==
  /\ del.task # Idle /\ del' = [task |-> Idle, linked |-> FALSE]
  /\ UNCHANGED <<loaded, tasks, url, nav, panel, thread, post, save, written, wire, history>>

-----------------------------------------------------------------------------
Next ==
  \/ Snapshot \/ Navigate \/ Close
  \/ \E t \in Task : TaskEvent(t) \/ Click(t)
  \/ \E r \in Request : ServeLoad(r) \/ LoadDone(r) \/ LoadFails(r)
  \/ \E c \in Comment : CommentEvent(c) \/ Post(c) \/ \E t \in Task : CommentOn(c, t)
  \/ ServePost \/ PostDone \/ PostFails
  \/ Edit \/ Dismiss \/ Save \/ SaveDone \/ SaveFails
  \/ Delete \/ DeleteDone \/ DeleteFails

Spec == Init /\ [][Next]_vars

-----------------------------------------------------------------------------
Visible == detail /\ ~loading /\ ~err

(* The comments under a task are its own, unless an answer came for a task  *)
(* that was no longer selected.                                             *)
CommentsBelong ==
  (Visible /\ ~crossed /\ ~late) => \A c \in comments : store[c] = sel

(* And of the task's oldest PageSize none is missing but those the stream   *)
(* has yet to bring, unless a comment came between the reading of a list    *)
(* and its arrival.  Younger ones are there only if they came while the     *)
(* panel showed the task: it never asks for a second page.                  *)
CommentsComplete ==
  (Visible /\ ~crossed /\ ~late /\ ~raced) =>
    \A c \in first : store[c] = sel => c \in comments \cup wire

(* Once a navigation is over, the panel shows the task the URL names.       *)
PanelMatchesUrl ==
  (loaded /\ nav = Idle /\ url # None /\ ~late) => (detail /\ sel = url)

(* The panel opens for a click or a new URL; by itself only while a         *)
(* navigation is still to come.                                             *)
OpensOnRequest ==
  [][(~detail /\ detail') =>
       \/ \E t \in Task : Click(t)
       \/ ~loaded \/ nav # Idle]_vars

(* "Loading comments" is shown only while a request is under way.           *)
LoadingEnds == loading => Pending # {}
=============================================================================
