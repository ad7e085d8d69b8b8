--------------------------- MODULE TaskPanelProofs ---------------------------
(***************************************************************************)
(* Safety of the task panel for any number of tasks, comments and requests *)
(* at once: the comments shown belong to the selected task and are all of  *)
(* them, unless one of the named races has happened, and the loading state *)
(* is never left behind.                                                   *)
(***************************************************************************)
EXTENDS TaskPanel, TLAPS

USE DEF written

(* What an answer under way says is true when it arrives, as comments are   *)
(* never moved: a list holds comments of its task, a post that was served   *)
(* was served for its task.  An open panel has a task.                      *)
AnswersTrue ==
  /\ \A r \in Request : load[r].ready =>
       load[r].task # Idle /\ \A c \in load[r].items : store[c] = load[r].task
  /\ (post.task # Idle /\ store[post.id] # None) => store[post.id] = post.task
  /\ detail => sel # None

(* Of the oldest PageSize of its task, a list that was read lacks only      *)
(* comments whose events are still to come.                                 *)
ListsCurrent ==
  ~raced => \A r \in Request : load[r].ready =>
              \A c \in first : store[c] = load[r].task => c \in load[r].items \cup wire

(* A save whose answer makes the effect open the task of the URL.           *)
SaveOpens == SaveDone /\ url \in tasks \ {opened}
SaveShows == SaveDone /\ url \notin tasks \ {opened}

-----------------------------------------------------------------------------
(* Types, and with them that the edit dialog edits a task: its save is one  *)
(* of a task.                                                               *)
TypeInv == TypeOK /\ (edit => sel # None) /\ (post.task # Idle => post.id \in Comment)

(* A list that is asked for makes one more request, for that task.          *)
LEMMA Asking ==
  ASSUME load \in [Request -> Answer], NEW t \in Task, LoadComments(t)
  PROVE  \E r \in Request \ Pending :
           /\ load' \in [Request -> Answer]
           /\ load'[r].task = t /\ load'[r].ready = load[r].ready
           /\ load'[r].items = load[r].items
           /\ \A q \in Request \ {r} : load'[q] = load[q]
<1>1. PICK r \in Request \ Pending : load' = [load EXCEPT ![r].task = t]
  BY DEF LoadComments
<1>2. QED
  BY <1>1 DEF Answer

(* The server reads the list of a request.                                  *)
LEMMA Serving ==
  ASSUME TypeInv, NEW r \in Request, ServeLoad(r)
  PROVE  /\ load' \in [Request -> Answer]
         /\ load'[r].task = load[r].task /\ load'[r].ready = TRUE
         /\ load'[r].items = {c \in first : store[c] = load[r].task}
         /\ \A q \in Request \ {r} : load'[q] = load[q]
BY DEF ServeLoad, Answer, TypeInv, TypeOK

(* A request ends.                                                          *)
LEMMA Ending ==
  ASSUME load \in [Request -> Answer], NEW r \in Request,
         load' = [load EXCEPT ![r] = NoLoad]
  PROVE  /\ load' \in [Request -> Answer]
         /\ load'[r] = NoLoad
         /\ \A q \in Request \ {r} : load'[q] = load[q]
BY DEF Answer, NoLoad

(* What a step that follows the URL does to the types.                      *)
FollowTyped ==
  /\ opened' \in Task \cup {None} /\ sel' \in Task \cup {None}
  /\ detail' \in BOOLEAN /\ edit' \in BOOLEAN
  /\ (edit' => sel' # None)
  /\ comments' \subseteq Comment /\ loading' \in BOOLEAN /\ err' \in BOOLEAN
  /\ load' \in [Request -> Answer] /\ nav' \in Task \cup {None, Idle}

LEMMA FollowUrlType ==
  ASSUME TypeInv, NEW u \in Task \cup {None}, NEW ts \in SUBSET Task,
         NEW n \in Task \cup {None, Idle}, FollowUrl(u, ts, n)
  PROVE  FollowTyped
<1> USE PanelAssumption DEF TypeInv, TypeOK, FollowTyped, FollowUrl, panel, thread
<1>1. CASE u = None
  BY <1>1
<1>2. CASE u # None /\ opened = u
  BY <1>2
<1>3. CASE u # None /\ opened # u /\ u \notin ts
  BY <1>3
<1>4. CASE u # None /\ opened # u /\ u \in ts
  <2>1. u \in Task /\ load \in [Request -> Answer]
    BY <1>4
  <2>2. LoadComments(u)
    BY <1>4
  <2>3. load' \in [Request -> Answer]
    BY <2>1, <2>2, Asking
  <2>4. opened' = u /\ sel' = u /\ detail' = TRUE /\ loading' = TRUE /\ err' = FALSE
        /\ nav' = n /\ edit' = edit /\ comments' = comments
    BY <1>4, <2>2 DEF LoadComments
  <2>5. QED
    BY <2>1, <2>3, <2>4
<1>5. QED
  BY <1>1, <1>2, <1>3, <1>4

LEMMA PanelTypes == Spec => []TypeInv
<1>1. Init => TypeInv
  <2> SUFFICES ASSUME Init PROVE TypeInv
    OBVIOUS
  <2>1. load \in [Request -> Answer] /\ post \in Draft /\ post.task = Idle /\ del \in Deletion
    BY DEF Init, NoLoad, Answer, Draft, Deletion
  <2>2. QED
    BY <2>1, PanelAssumption DEF Init, TypeInv, TypeOK
<1>2. TypeInv /\ [Next]_vars => TypeInv'
  <2> SUFFICES ASSUME TypeInv, [Next]_vars PROVE TypeInv'
    OBVIOUS
  <2>1. CASE Snapshot
    <3>1. PICK ts \in SUBSET Task : tasks' = ts /\ FollowUrl(url, ts, nav)
      BY <2>1 DEF Snapshot
    <3>2. url \in Task \cup {None} /\ nav \in Task \cup {None, Idle}
      BY DEF TypeInv, TypeOK
    <3>3. FollowTyped
      BY <3>1, <3>2, FollowUrlType
    <3>4. QED
      BY <2>1, <3>1, <3>3 DEF Snapshot, FollowTyped, TypeInv, TypeOK, history
  <2>2. CASE Navigate
    <3>1. nav \in Task \cup {None} /\ tasks \in SUBSET Task /\ FollowUrl(nav, tasks, Idle)
      BY <2>2 DEF Navigate, TypeInv, TypeOK
    <3>2. FollowTyped
      BY <3>1, FollowUrlType
    <3>3. QED
      BY <2>2, <3>1, <3>2 DEF Navigate, FollowTyped, TypeInv, TypeOK, history
  <2>3. ASSUME NEW t \in Task, TaskEvent(t) PROVE TypeInv'
    <3>1. /\ url \in Task \cup {None} /\ tasks' \in SUBSET Task
          /\ nav \in Task \cup {None, Idle} /\ FollowUrl(url, tasks', nav)
      BY <2>3 DEF TaskEvent, TypeInv, TypeOK
    <3>2. FollowTyped
      BY <3>1, FollowUrlType
    <3>3. QED
      BY <2>3, <3>1, <3>2 DEF TaskEvent, FollowTyped, TypeInv, TypeOK, history
  <2> USE PanelAssumption DEF TypeInv, TypeOK, history, panel, thread
  <2>4. CASE Close
    BY <2>4 DEF Close, CloseComments
  <2>5. ASSUME NEW t \in Task, Click(t) PROVE TypeInv'
    <3>1. load' \in [Request -> Answer]
      BY <2>5, Asking DEF Click, OpenComments
    <3>2. QED
      BY <2>5, <3>1 DEF Click, OpenComments, LoadComments
  <2>6. ASSUME NEW r \in Request, ServeLoad(r) PROVE TypeInv'
    <3>1. load' \in [Request -> Answer]
      BY <2>6, Serving
    <3>2. QED
      BY <2>6, <3>1 DEF ServeLoad
  <2>7. ASSUME NEW r \in Request, LoadDone(r) PROVE TypeInv'
    <3>1. load' \in [Request -> Answer] /\ load[r].items \in SUBSET Comment
      BY <2>7, Ending DEF LoadDone, Answer
    <3>2. comments' \subseteq Comment /\ loading' = FALSE /\ crossed' \in BOOLEAN
      BY <2>7, <3>1 DEF LoadDone, Misplaced
    <3>3. UNCHANGED <<loaded, tasks, url, nav, panel, err, post, save, del, written, wire, raced, late>>
      BY <2>7 DEF LoadDone
    <3>4. TypeOK'
      <4>1. /\ (loaded \in BOOLEAN /\ tasks \subseteq Task)'
            /\ (url \in Task \cup {None} /\ nav \in Task \cup {None, Idle})'
            /\ (opened \in Task \cup {None} /\ sel \in Task \cup {None})'
            /\ (detail \in BOOLEAN /\ edit \in BOOLEAN)'
        BY <3>2, <3>3
      <4>2. /\ (comments \subseteq Comment /\ loading \in BOOLEAN /\ err \in BOOLEAN)'
            /\ (post \in Draft /\ save \in Task \cup {Idle} /\ del \in Deletion)'
        BY <3>2, <3>3
      <4>3. /\ (store \in [Comment -> Task \cup {None}] /\ first \subseteq Comment)'
            /\ (wire \subseteq Comment)'
        BY <3>3
      <4>4. (crossed \in BOOLEAN /\ raced \in BOOLEAN /\ late \in BOOLEAN)'
        BY <3>2, <3>3
      <4>5. QED BY <3>1, <4>1, <4>2, <4>3, <4>4, Zenon
    <3>5. QED
      BY <3>3, <3>4
  <2>8. ASSUME NEW r \in Request, LoadFails(r) PROVE TypeInv'
    <3>1. load' \in [Request -> Answer]
      BY <2>8, Ending DEF LoadFails
    <3>2. /\ err' = TRUE /\ loading' = FALSE
          /\ UNCHANGED <<loaded, tasks, url, nav, panel, comments, post, save, del, written, wire, history>>
      BY <2>8 DEF LoadFails
    <3>3. TypeOK'
      <4>1. /\ (loaded \in BOOLEAN /\ tasks \subseteq Task)'
            /\ (url \in Task \cup {None} /\ nav \in Task \cup {None, Idle})'
            /\ (opened \in Task \cup {None} /\ sel \in Task \cup {None})'
            /\ (detail \in BOOLEAN /\ edit \in BOOLEAN)'
        BY <3>2
      <4>2. /\ (comments \subseteq Comment /\ loading \in BOOLEAN /\ err \in BOOLEAN)'
            /\ (post \in Draft /\ save \in Task \cup {Idle} /\ del \in Deletion)'
        BY <3>2
      <4>3. /\ (store \in [Comment -> Task \cup {None}] /\ first \subseteq Comment)'
            /\ (wire \subseteq Comment)'
        BY <3>2
      <4>4. (crossed \in BOOLEAN /\ raced \in BOOLEAN /\ late \in BOOLEAN)'
        BY <3>2
      <4>5. QED BY <3>1, <4>1, <4>2, <4>3, <4>4, Zenon
    <3>4. QED
      BY <3>2, <3>3
  <2>9. ASSUME NEW c \in Comment, CommentEvent(c) PROVE TypeInv'
    BY <2>9 DEF CommentEvent, MergeComments, Overtakes
  <2>10. ASSUME NEW c \in Comment, Post(c) PROVE TypeInv'
    BY <2>10 DEF Post, Draft
  <2>11. ASSUME NEW c \in Comment, NEW t \in Task, CommentOn(c, t) PROVE TypeInv'
    BY <2>11 DEF CommentOn, Write
  <2>12. CASE ServePost
    <3>1. post.id \in Comment /\ post.task \in Task
      BY <2>12 DEF ServePost, Draft
    <3>2. QED
      BY <2>12, <3>1 DEF ServePost, Write
  <2>13. CASE PostDone
    <3>1. post.id \in Comment /\ post' \in Draft /\ post'.task = Idle
      BY <2>13 DEF PostDone, MergeComments, Draft
    <3>2. QED
      BY <2>13, <3>1 DEF PostDone, MergeComments, Misplaced, Overtakes
  <2>14. CASE PostFails
    BY <2>14 DEF PostFails, Draft
  <2>15. CASE Edit \/ Dismiss \/ SaveFails
    <3>1. CASE Edit
      BY <3>1 DEF Edit
    <3>2. CASE Dismiss
      <4>1. ~edit' /\ edit' \in BOOLEAN
        BY <3>2, Zenon DEF Dismiss
      <4>2. QED
        BY <3>2, <4>1 DEF Dismiss
    <3>3. CASE SaveFails
      BY <3>3 DEF SaveFails
    <3>4. QED
      BY <2>15, <3>1, <3>2, <3>3
  <2>16. CASE Save
    <3>1. TypeOK'
      BY <2>16 DEF Save
    <3>2. QED
      BY <2>16, <3>1 DEF Save
  <2>17. CASE SaveDone
    <3>1. save \in Task
      BY <2>17 DEF SaveDone
    <3>2. CASE url \in tasks \ {opened}
      <4>1. load' \in [Request -> Answer]
        BY <2>17, <3>2, Asking DEF SaveDone
      <4>2. QED
        BY <2>17, <3>1, <3>2, <4>1 DEF SaveDone, LoadComments
    <3>3. CASE url \notin tasks \ {opened}
      BY <2>17, <3>1, <3>3 DEF SaveDone
    <3>4. QED
      BY <3>2, <3>3
  <2>18. CASE Delete
    BY <2>18 DEF Delete, Deletion
  <2>19. CASE DeleteFails
    BY <2>19 DEF DeleteFails, Deletion
  <2>20. CASE DeleteDone
    <3>1. del' \in Deletion /\ tasks' \subseteq Task
      BY <2>20 DEF DeleteDone, Deletion
    <3>2. CASE url \in tasks'
      <4>1. load' \in [Request -> Answer]
        BY <2>20, <3>1, <3>2, Asking DEF DeleteDone
      <4>2. QED
        BY <2>20, <3>1, <3>2, <4>1 DEF DeleteDone, LoadComments, Misplaced
    <3>3. CASE url \notin tasks'
      BY <2>20, <3>1, <3>3 DEF DeleteDone, CloseComments, Misplaced
    <3>4. QED
      BY <3>2, <3>3
  <2>21. CASE UNCHANGED vars
    BY <2>21 DEF vars
  <2>22. QED
    BY <2>1, <2>2, <2>3, <2>4, <2>5, <2>6, <2>7, <2>8, <2>9, <2>10, <2>11, <2>12,
       <2>13, <2>14, <2>15, <2>16, <2>17, <2>18, <2>19, <2>20, <2>21 DEF Next
<1>3. QED
  BY <1>1, <1>2, PTL DEF Spec

(* Every reachable state of the panel is type-correct.                      *)
THEOREM PanelTypeCorrect == Spec => []TypeOK
<1>1. TypeInv => TypeOK
  BY DEF TypeInv
<1>2. QED
  BY <1>1, PanelTypes, PTL

-----------------------------------------------------------------------------
(* How the steps that open or close the panel, or follow the URL, change    *)
(* what it shows: not at all, by opening a task and asking for its          *)
(* comments, or by closing.                                                 *)
Stays == UNCHANGED <<sel, detail, thread>>
Opens == \E t \in Task : sel' = t /\ detail' = TRUE /\ LoadComments(t)
Closes == detail' = FALSE /\ sel' = None /\ comments' = {} /\ UNCHANGED <<loading, load>>

LEMMA FollowUrlShows ==
  ASSUME TypeInv, NEW u \in Task \cup {None}, NEW ts, NEW n, FollowUrl(u, ts, n)
  PROVE  Stays \/ Opens
<1>1. CASE u = None
  BY <1>1 DEF FollowUrl, Stays
<1>2. CASE u # None /\ (opened = u \/ u \notin ts)
  BY <1>2 DEF FollowUrl, Stays, panel
<1>3. CASE u # None /\ opened # u /\ u \in ts
  BY <1>3 DEF FollowUrl, Opens
<1>4. QED
  BY <1>1, <1>2, <1>3

(* The steps that change neither comments nor requests otherwise.           *)
Quiet == UNCHANGED <<post, store, first, wire, crossed, raced>> /\ (late => late')

LEMMA ShowingSteps ==
  ASSUME TypeInv,
         \/ Snapshot \/ Navigate \/ Close \/ DeleteDone \/ SaveOpens
         \/ \E t \in Task : TaskEvent(t) \/ Click(t)
  PROVE  (Stays \/ Opens \/ Closes) /\ Quiet
<1> USE DEF Quiet, history
<1>1. CASE Snapshot
  <2>1. PICK ts \in SUBSET Task : FollowUrl(url, ts, nav)
    BY <1>1 DEF Snapshot
  <2>2. Stays \/ Opens
    BY <2>1, FollowUrlShows DEF TypeInv, TypeOK
  <2>3. QED
    BY <1>1, <2>2 DEF Snapshot
<1>2. CASE Navigate
  <2>1. FollowUrl(nav, tasks, Idle) /\ nav \in Task \cup {None}
    BY <1>2 DEF Navigate, TypeInv, TypeOK
  <2>2. Stays \/ Opens
    BY <2>1, FollowUrlShows
  <2>3. QED
    BY <1>2, <2>2 DEF Navigate
<1>3. CASE Close
  BY <1>3 DEF Close, CloseComments, Closes
<1>4. CASE DeleteDone
  <2>1. CASE url \in tasks'
    <3>1. url \in Task
      BY <1>4, <2>1 DEF DeleteDone, TypeInv, TypeOK
    <3>2. Opens
      BY <1>4, <2>1, <3>1 DEF DeleteDone, Opens
    <3>3. QED
      BY <1>4, <3>2 DEF DeleteDone
  <2>2. CASE url \notin tasks'
    BY <1>4, <2>2 DEF DeleteDone, CloseComments, Closes
  <2>3. QED
    BY <2>1, <2>2
<1>5. ASSUME NEW t \in Task, TaskEvent(t) PROVE (Stays \/ Opens \/ Closes) /\ Quiet
  <2>1. FollowUrl(url, tasks', nav) /\ url \in Task \cup {None}
    BY <1>5 DEF TaskEvent, TypeInv, TypeOK
  <2>2. Stays \/ Opens
    BY <2>1, FollowUrlShows
  <2>3. QED
    BY <1>5, <2>2 DEF TaskEvent
<1>6. ASSUME NEW t \in Task, Click(t) PROVE (Stays \/ Opens \/ Closes) /\ Quiet
  BY <1>6 DEF Click, OpenComments, Opens
<1>7. CASE SaveOpens
  <2>1. url \in Task
    BY <1>7 DEF SaveOpens, TypeInv, TypeOK
  <2>2. Opens
    BY <1>7, <2>1 DEF SaveOpens, SaveDone, Opens
  <2>3. QED
    BY <1>7, <2>2 DEF SaveOpens, SaveDone
<1>8. QED
  BY <1>1, <1>2, <1>3, <1>4, <1>5, <1>6, <1>7

-----------------------------------------------------------------------------
LEMMA AnswersStayTrue == Spec => []AnswersTrue
<1>1. Init => AnswersTrue
  BY DEF Init, AnswersTrue, NoLoad
<1>2. TypeInv /\ AnswersTrue /\ [Next]_vars => AnswersTrue'
  <2> SUFFICES ASSUME TypeInv, AnswersTrue, [Next]_vars PROVE AnswersTrue'
    OBVIOUS
  <2> load \in [Request -> Answer] /\ store \in [Comment -> Task \cup {None}]
    BY DEF TypeInv, TypeOK
  <2>1. CASE \/ Snapshot \/ Navigate \/ Close \/ DeleteDone \/ SaveOpens
             \/ \E t \in Task : TaskEvent(t) \/ Click(t)
    <3>1. (Stays \/ Opens \/ Closes) /\ Quiet
      BY <2>1, ShowingSteps
    <3>2. CASE Stays
      BY <3>1, <3>2 DEF AnswersTrue, Stays, Quiet, thread
    <3>3. CASE Opens
      <4>1. PICK t \in Task : sel' = t /\ LoadComments(t)
        BY <3>3 DEF Opens
      <4>2. PICK r \in Request \ Pending :
              /\ load'[r].ready = load[r].ready
              /\ \A q \in Request \ {r} : load'[q] = load[q]
        BY <4>1, Asking
      <4>3. ~load'[r].ready
        BY <4>2 DEF AnswersTrue, Pending
      <4>4. \A q \in Request : load'[q].ready => load'[q] = load[q] /\ load[q].ready
        BY <4>2, <4>3
      <4>5. t # None
        BY PanelAssumption
      <4>6. QED
        BY <3>1, <4>1, <4>4, <4>5 DEF AnswersTrue, Quiet
    <3>4. CASE Closes
      BY <3>1, <3>4 DEF AnswersTrue, Closes, Quiet
    <3>5. QED
      BY <3>1, <3>2, <3>3, <3>4
  <2>2. ASSUME NEW r \in Request, ServeLoad(r) PROVE AnswersTrue'
    <3>1. UNCHANGED <<store, post, detail, sel>> /\ load[r].task # Idle
      BY <2>2 DEF ServeLoad, panel, Pending
    <3>2. \A c \in load'[r].items : store[c] = load'[r].task
      BY <2>2, Serving
    <3>3. load'[r].task # Idle /\ \A q \in Request \ {r} : load'[q] = load[q]
      BY <2>2, <3>1, Serving
    <3>4. \A q \in Request : load'[q].ready =>
            load'[q].task # Idle /\ \A c \in load'[q].items : store[c] = load'[q].task
      <4> TAKE q \in Request
      <4>1. CASE q = r
        BY <4>1, <3>2, <3>3
      <4>2. CASE q # r
        BY <4>2, <3>3 DEF AnswersTrue
      <4>3. QED
        BY <4>1, <4>2
    <3>5. QED
      BY <3>1, <3>4 DEF AnswersTrue
  <2>3. ASSUME NEW r \in Request, LoadDone(r) \/ LoadFails(r) PROVE AnswersTrue'
    <3>1. UNCHANGED <<store, post, detail, sel>> /\ load' = [load EXCEPT ![r] = NoLoad]
      BY <2>3 DEF LoadDone, LoadFails, panel
    <3>2. ~load'[r].ready
      BY <3>1, Ending DEF NoLoad
    <3>3. \A q \in Request : load'[q].ready => load'[q] = load[q] /\ load[q].ready
      BY <3>1, <3>2, Ending
    <3>4. QED
      BY <3>1, <3>3 DEF AnswersTrue
  <2>4. ASSUME NEW c \in Comment, NEW t \in Task,
               store[c] = None, store' = [store EXCEPT ![c] = t],
               UNCHANGED <<load, post, detail, sel>>, post.task # Idle /\ post.id = c => t = post.task
        PROVE  AnswersTrue'
    <3>1. \A d \in Comment : store[d] \in Task => store'[d] = store[d]
      BY <2>4, PanelAssumption
    <3>2. \A r \in Request : load[r].ready =>
            load[r].task \in Task /\ load[r].items \in SUBSET Comment
      BY DEF AnswersTrue, Answer
    <3>3. \A r \in Request : load[r].ready => \A d \in load[r].items : store'[d] = load[r].task
      BY <3>1, <3>2 DEF AnswersTrue
    <3>4. (post.task # Idle /\ store'[post.id] # None) => store'[post.id] = post.task
      BY <2>4 DEF AnswersTrue, TypeInv
    <3>5. QED
      BY <2>4, <3>3, <3>4 DEF AnswersTrue
  <2>5. ASSUME NEW c \in Comment, NEW t \in Task, CommentOn(c, t) PROVE AnswersTrue'
    BY <2>5, <2>4 DEF CommentOn, Write, thread, panel
  <2>6. CASE ServePost
    BY <2>6, <2>4 DEF ServePost, Write, thread, panel, TypeInv, TypeOK, Draft
  <2>7. ASSUME NEW c \in Comment, Post(c) PROVE AnswersTrue'
    BY <2>7 DEF Post, AnswersTrue, panel, thread
  <2>8. CASE PostDone \/ PostFails
    BY <2>8 DEF PostDone, MergeComments, PostFails, AnswersTrue, panel, thread
  <2>9. ASSUME NEW c \in Comment, CommentEvent(c) PROVE AnswersTrue'
    BY <2>9 DEF CommentEvent, MergeComments, AnswersTrue, panel
  <2>10. CASE Edit \/ Dismiss \/ Save \/ SaveFails \/ Delete \/ DeleteFails
    BY <2>10 DEF Edit, Dismiss, Save, SaveFails, Delete, DeleteFails, AnswersTrue, panel, thread
  <2>11. CASE SaveShows
    <3>1. sel' \in Task
      BY <2>11 DEF SaveShows, SaveDone, TypeInv, TypeOK
    <3>2. QED
      BY <2>11, <3>1, PanelAssumption DEF SaveShows, SaveDone, AnswersTrue, thread
  <2>12. CASE UNCHANGED vars
    BY <2>12 DEF vars, AnswersTrue, panel, thread
  <2>13. QED
    BY <2>1, <2>2, <2>3, <2>5, <2>6, <2>7, <2>8, <2>9, <2>10, <2>11, <2>12
       DEF Next, SaveOpens, SaveShows
<1>3. QED
  BY <1>1, <1>2, PanelTypes, PTL DEF Spec

-----------------------------------------------------------------------------
(* "Loading comments" is shown only while a request is under way: a request *)
(* is asked for in the step that sets the state, and every end of a request *)
(* resets it.                                                               *)
THEOREM LoadingAlwaysEnds == Spec => []LoadingEnds
<1>1. Init => LoadingEnds
  BY DEF Init, LoadingEnds
<1>2. TypeInv /\ LoadingEnds /\ [Next]_vars => LoadingEnds'
  <2> SUFFICES ASSUME TypeInv, LoadingEnds, [Next]_vars PROVE LoadingEnds'
    OBVIOUS
  <2> load \in [Request -> Answer]
    BY DEF TypeInv, TypeOK
  <2>1. CASE \/ Snapshot \/ Navigate \/ Close \/ DeleteDone \/ SaveOpens
             \/ \E t \in Task : TaskEvent(t) \/ Click(t)
    <3>1. Stays \/ Opens \/ Closes
      BY <2>1, ShowingSteps
    <3>2. CASE Stays \/ Closes
      BY <3>2 DEF Stays, Closes, thread, LoadingEnds, Pending
    <3>3. CASE Opens
      <4>1. PICK t \in Task : LoadComments(t)
        BY <3>3 DEF Opens
      <4>2. PICK r \in Request : load'[r].task = t
        BY <4>1, Asking
      <4>3. QED
        BY <4>2, PanelAssumption DEF LoadingEnds, Pending
    <3>4. QED
      BY <3>1, <3>2, <3>3
  <2>2. ASSUME NEW r \in Request, ServeLoad(r) PROVE LoadingEnds'
    <3>1. \A q \in Request : load'[q].task = load[q].task
      BY <2>2, Serving
    <3>2. QED
      BY <2>2, <3>1 DEF ServeLoad, LoadingEnds, Pending
  <2>3. ASSUME NEW r \in Request, LoadDone(r) \/ LoadFails(r) PROVE LoadingEnds'
    BY <2>3 DEF LoadDone, LoadFails, LoadingEnds
  <2>4. CASE UNCHANGED <<loading, load>>
    BY <2>4 DEF LoadingEnds, Pending
  <2>5. ASSUME NEW c \in Comment, CommentEvent(c) \/ Post(c) \/ \E t \in Task : CommentOn(c, t)
        PROVE  LoadingEnds'
    BY <2>4, <2>5 DEF CommentEvent, Post, CommentOn, thread
  <2>6. CASE ServePost \/ PostDone \/ PostFails
    BY <2>4, <2>6 DEF ServePost, PostDone, PostFails, thread
  <2>7. CASE Edit \/ Dismiss \/ Save \/ SaveShows \/ SaveFails \/ Delete \/ DeleteFails
    BY <2>4, <2>7
       DEF Edit, Dismiss, Save, SaveShows, SaveDone, SaveFails, Delete, DeleteFails, thread
  <2>8. CASE UNCHANGED vars
    BY <2>4, <2>8 DEF vars, thread
  <2>9. QED
    BY <2>1, <2>2, <2>3, <2>5, <2>6, <2>7, <2>8 DEF Next, SaveOpens, SaveShows
<1>3. QED
  BY <1>1, <1>2, PanelTypes, PTL DEF Spec

-----------------------------------------------------------------------------
(* The steps that leave what the panel shows alone: they may change the     *)
(* dialog, a request or the server.                                         *)
LEMMA OtherSteps ==
  ASSUME TypeInv,
         \/ PostFails \/ Edit \/ Dismiss \/ Save \/ SaveFails \/ Delete \/ DeleteFails
         \/ UNCHANGED vars \/ \E c \in Comment : Post(c)
  PROVE  UNCHANGED <<sel, detail, comments, loading, err, load, store, first, wire, crossed, raced, late>>
BY DEF PostFails, Edit, Dismiss, Save, SaveFails, Delete, DeleteFails, Post,
       vars, panel, thread, history

(* The comments under a task are its own, unless an answer came for a task  *)
(* that was no longer selected: a list and a new comment belong to the task *)
(* they were asked for, and an event is checked against the selected one.   *)
THEOREM CommentsAlwaysBelong == Spec => []CommentsBelong
<1>1. Init => CommentsBelong
  BY DEF Init, CommentsBelong
<1>2. TypeInv /\ AnswersTrue /\ CommentsBelong /\ [Next]_vars => CommentsBelong'
  <2> SUFFICES ASSUME TypeInv, AnswersTrue, CommentsBelong, [Next]_vars,
                      Visible', ~crossed', ~late'
               PROVE  \A c \in comments' : store'[c] = sel'
    BY DEF CommentsBelong
  <2> store \in [Comment -> Task \cup {None}] /\ sel \in Task \cup {None}
    BY DEF TypeInv, TypeOK
  <2>1. CASE \/ Snapshot \/ Navigate \/ Close \/ DeleteDone \/ SaveOpens
             \/ \E t \in Task : TaskEvent(t) \/ Click(t)
    <3>1. (Stays \/ Opens \/ Closes) /\ Quiet
      BY <2>1, ShowingSteps
    <3>2. Stays
      BY <3>1 DEF Opens, LoadComments, Closes, Visible
    <3>3. QED
      BY <3>1, <3>2 DEF Stays, Quiet, CommentsBelong, Visible, thread
  <2>2. ASSUME NEW r \in Request, ServeLoad(r)
        PROVE  \A c \in comments' : store'[c] = sel'
    BY <2>2 DEF ServeLoad, CommentsBelong, Visible, panel, history
  <2>3. ASSUME NEW r \in Request, LoadDone(r)
        PROVE  \A c \in comments' : store'[c] = sel'
    <3>1. sel' = sel /\ store' = store /\ comments' = load[r].items /\ load[r].ready
      BY <2>3 DEF LoadDone, panel
    <3>2. sel = load[r].task
      BY <2>3 DEF LoadDone, Misplaced, AnswersTrue, Visible, panel
    <3>3. QED
      BY <3>1, <3>2 DEF AnswersTrue
  <2>4. ASSUME NEW r \in Request, LoadFails(r)
        PROVE  \A c \in comments' : store'[c] = sel'
    BY <2>4 DEF LoadFails, Visible
  <2>5. ASSUME NEW c \in Comment, CommentEvent(c)
        PROVE  \A d \in comments' : store'[d] = sel'
    BY <2>5 DEF CommentEvent, MergeComments, CommentsBelong, Visible, panel
  <2>6. ASSUME NEW c \in Comment, NEW t \in Task,
               store[c] = None, store' = [store EXCEPT ![c] = t],
               UNCHANGED <<sel, detail, thread, crossed, late>>
        PROVE  \A d \in comments' : store'[d] = sel'
    <3>1. sel \in Task /\ \A d \in comments : store[d] = sel
      BY <2>6 DEF CommentsBelong, Visible, thread, AnswersTrue
    <3>2. comments' = comments /\ sel' = sel /\ comments \subseteq Comment
      BY <2>6 DEF thread, TypeInv, TypeOK
    <3>3. QED
      BY <2>6, <3>1, <3>2, PanelAssumption
  <2>7. ASSUME NEW c \in Comment, NEW t \in Task, CommentOn(c, t)
        PROVE  \A d \in comments' : store'[d] = sel'
    BY <2>7, <2>6 DEF CommentOn, Write, panel, history
  <2>8. CASE ServePost
    BY <2>8, <2>6 DEF ServePost, Write, panel, history, TypeInv, TypeOK, Draft
  <2>9. CASE PostDone
    <3>1. sel = post.task /\ store[post.id] = post.task
      BY <2>9 DEF PostDone, MergeComments, Misplaced, AnswersTrue, Visible, panel
    <3>2. QED
      BY <2>9, <3>1 DEF PostDone, MergeComments, CommentsBelong, Visible, panel
  <2>10. CASE SaveShows
    BY <2>10 DEF SaveShows, SaveDone, CommentsBelong, Visible, thread
  <2>11. CASE \/ PostFails \/ Edit \/ Dismiss \/ Save \/ SaveFails \/ Delete \/ DeleteFails
              \/ UNCHANGED vars \/ \E c \in Comment : Post(c)
    BY <2>11, OtherSteps DEF CommentsBelong, Visible
  <2>12. QED
    BY <2>1, <2>2, <2>3, <2>4, <2>5, <2>7, <2>8, <2>9, <2>10, <2>11
       DEF Next, SaveOpens, SaveShows
<1>3. QED
  BY <1>1, <1>2, PanelTypes, AnswersStayTrue, PTL DEF Spec

-----------------------------------------------------------------------------
LEMMA ListsStayCurrent == Spec => []ListsCurrent
<1>1. Init => ListsCurrent
  BY DEF Init, ListsCurrent, NoLoad
<1>2. TypeInv /\ AnswersTrue /\ ListsCurrent /\ [Next]_vars => ListsCurrent'
  <2> SUFFICES ASSUME TypeInv, AnswersTrue, ListsCurrent, [Next]_vars, ~raced'
               PROVE  \A r \in Request : load'[r].ready =>
                        \A c \in first' : store'[c] = load'[r].task =>
                          c \in load'[r].items \cup wire'
    BY DEF ListsCurrent
  <2> DEFINE Lists == \A r \in Request : load'[r].ready =>
                        \A c \in first' : store'[c] = load'[r].task =>
                          c \in load'[r].items \cup wire'
  <2> load \in [Request -> Answer] /\ store \in [Comment -> Task \cup {None}]
    BY DEF TypeInv, TypeOK
  <2> USE DEF ListsCurrent
  <2>1. ASSUME UNCHANGED <<store, first, wire>>, ~raced,
               \A q \in Request : load'[q].ready => load'[q] = load[q] /\ load[q].ready
        PROVE  Lists
    BY <2>1
  <2>2. CASE UNCHANGED <<store, first, wire, load, raced>>
    BY <2>2, <2>1
  <2>3. CASE \/ Snapshot \/ Navigate \/ Close \/ DeleteDone \/ SaveOpens
             \/ \E t \in Task : TaskEvent(t) \/ Click(t)
    <3>1. (Stays \/ Opens \/ Closes) /\ Quiet
      BY <2>3, ShowingSteps
    <3>2. CASE Stays \/ Closes
      BY <3>1, <3>2, <2>2 DEF Stays, Closes, Quiet, thread
    <3>3. CASE Opens
      <4>1. PICK t \in Task : LoadComments(t)
        BY <3>3 DEF Opens
      <4>2. PICK r \in Request \ Pending :
              /\ load'[r].ready = load[r].ready
              /\ \A q \in Request \ {r} : load'[q] = load[q]
        BY <4>1, Asking
      <4>3. ~load'[r].ready
        BY <4>2 DEF AnswersTrue, Pending
      <4>4. QED
        BY <3>1, <4>2, <4>3, <2>1 DEF Quiet
    <3>4. QED
      BY <3>1, <3>2, <3>3
  <2>4. ASSUME NEW r \in Request, ServeLoad(r) PROVE Lists
    <3>1. UNCHANGED <<store, first, wire, raced>>
      BY <2>4 DEF ServeLoad, history
    <3>2. /\ load'[r].items = {c \in first : store[c] = load[r].task}
          /\ load'[r].task = load[r].task
          /\ \A q \in Request \ {r} : load'[q] = load[q]
      BY <2>4, Serving
    <3>3. SUFFICES ASSUME NEW q \in Request, load'[q].ready,
                          NEW c \in first', store'[c] = load'[q].task
                   PROVE  c \in load'[q].items \cup wire'
      OBVIOUS
    <3>4. CASE q = r
      BY <3>1, <3>2, <3>3, <3>4
    <3>5. CASE q # r
      BY <3>1, <3>2, <3>3, <3>5
    <3>6. QED
      BY <3>4, <3>5
  <2>5. ASSUME NEW r \in Request, LoadDone(r) \/ LoadFails(r) PROVE Lists
    <3>1. UNCHANGED <<store, first, wire, raced>> /\ load' = [load EXCEPT ![r] = NoLoad]
      BY <2>5 DEF LoadDone, LoadFails, history
    <3>2. \A q \in Request : load'[q].ready => load'[q] = load[q] /\ load[q].ready
      BY <3>1, Ending DEF NoLoad
    <3>3. QED
      BY <3>1, <3>2, <2>1
  <2>6. ASSUME NEW c \in Comment, NEW t \in Task, Write(c, t), UNCHANGED <<load, raced>>
        PROVE  Lists
    <3>1. /\ first' \subseteq first \cup {c} /\ wire' = wire \cup {c}
          /\ \A d \in Comment \ {c} : store'[d] = store[d]
      BY <2>6 DEF Write
    <3>2. first \subseteq Comment
      BY DEF TypeInv, TypeOK
    <3>3. QED
      BY <2>6, <3>1, <3>2
  <2>7. ASSUME NEW c \in Comment, NEW t \in Task, CommentOn(c, t) PROVE Lists
    BY <2>7, <2>6 DEF CommentOn, thread, history
  <2>8. CASE ServePost
    BY <2>8, <2>6 DEF ServePost, thread, history, TypeInv, TypeOK, Draft
  <2>9. ASSUME NEW c \in Comment, CommentEvent(c) PROVE Lists
    <3>1. wire' = wire \ {c} /\ UNCHANGED <<store, first, load>> /\ ~raced /\ ~Overtakes(c)
      BY <2>9 DEF CommentEvent, MergeComments
    <3>2. c \in first => \A r \in Request :
             load[r].ready /\ load[r].task = store[c] => c \in load[r].items
      BY <3>1 DEF Overtakes, Pending, AnswersTrue
    <3>3. QED
      BY <3>1, <3>2
  <2>10. CASE PostDone
    BY <2>10, <2>1 DEF PostDone, MergeComments
  <2>11. CASE SaveShows
    BY <2>11, <2>2 DEF SaveShows, SaveDone, thread
  <2>12. CASE \/ PostFails \/ Edit \/ Dismiss \/ Save \/ SaveFails \/ Delete \/ DeleteFails
              \/ UNCHANGED vars \/ \E c \in Comment : Post(c)
    BY <2>12, <2>2, OtherSteps
  <2>13. QED
    BY <2>3, <2>4, <2>5, <2>7, <2>8, <2>9, <2>10, <2>11, <2>12
       DEF Next, SaveOpens, SaveShows
<1>3. QED
  BY <1>1, <1>2, PanelTypes, AnswersStayTrue, PTL DEF Spec

(* Of the oldest PageSize comments of its task the panel shows every one    *)
(* but those the stream has yet to bring, unless one of the races has       *)
(* happened.                                                                *)
THEOREM CommentsAlwaysComplete == Spec => []CommentsComplete
<1>1. Init => CommentsComplete
  BY DEF Init, CommentsComplete, Visible
<1>2. TypeInv /\ AnswersTrue /\ ListsCurrent /\ CommentsComplete /\ [Next]_vars
        => CommentsComplete'
  <2> SUFFICES ASSUME TypeInv, AnswersTrue, ListsCurrent, CommentsComplete, [Next]_vars,
                      Visible', ~crossed', ~late', ~raced'
               PROVE  \A c \in first' : store'[c] = sel' => c \in comments' \cup wire'
    BY DEF CommentsComplete
  <2> DEFINE Complete == \A c \in first' : store'[c] = sel' => c \in comments' \cup wire'
  <2> /\ store \in [Comment -> Task \cup {None}] /\ sel \in Task \cup {None}
      /\ first \subseteq Comment
    BY DEF TypeInv, TypeOK
  <2>1. CASE UNCHANGED <<sel, detail, comments, loading, err, store, first, wire, crossed, raced>>
             /\ ~late
    BY <2>1 DEF CommentsComplete, Visible
  <2>2. CASE \/ Snapshot \/ Navigate \/ Close \/ DeleteDone \/ SaveOpens
             \/ \E t \in Task : TaskEvent(t) \/ Click(t)
    <3>1. (Stays \/ Opens \/ Closes) /\ Quiet
      BY <2>2, ShowingSteps
    <3>2. Stays
      BY <3>1 DEF Opens, LoadComments, Closes, Visible
    <3>3. QED
      BY <3>1, <3>2, <2>1 DEF Stays, Quiet, thread
  <2>3. ASSUME NEW r \in Request, ServeLoad(r) PROVE Complete
    BY <2>3, <2>1 DEF ServeLoad, panel, history
  <2>4. ASSUME NEW r \in Request, LoadDone(r) PROVE Complete
    <3>1. UNCHANGED <<sel, store, first, wire>> /\ comments' = load[r].items /\ load[r].ready /\ ~raced
      BY <2>4 DEF LoadDone, panel
    <3>2. sel = load[r].task
      BY <2>4 DEF LoadDone, Misplaced, AnswersTrue, Visible, panel
    <3>3. QED
      BY <3>1, <3>2 DEF ListsCurrent
  <2>5. ASSUME NEW r \in Request, LoadFails(r) PROVE Complete
    BY <2>5 DEF LoadFails, Visible
  <2>6. ASSUME NEW c \in Comment, CommentEvent(c) PROVE Complete
    BY <2>6 DEF CommentEvent, MergeComments, CommentsComplete, Visible, panel
  <2>7. ASSUME NEW c \in Comment, NEW t \in Task, Write(c, t),
               UNCHANGED <<sel, detail, thread, history>>
        PROVE  Complete
    BY <2>7 DEF Write, CommentsComplete, Visible, thread, history
  <2>8. ASSUME NEW c \in Comment, NEW t \in Task, CommentOn(c, t) PROVE Complete
    BY <2>8, <2>7 DEF CommentOn, panel
  <2>9. CASE ServePost
    BY <2>9, <2>7 DEF ServePost, panel, TypeInv, TypeOK, Draft
  <2>10. CASE PostDone
    BY <2>10 DEF PostDone, MergeComments, CommentsComplete, Visible, panel
  <2>11. CASE SaveShows
    BY <2>11 DEF SaveShows, SaveDone, CommentsComplete, Visible, thread
  <2>12. CASE \/ PostFails \/ Edit \/ Dismiss \/ Save \/ SaveFails \/ Delete \/ DeleteFails
              \/ UNCHANGED vars \/ \E c \in Comment : Post(c)
    BY <2>12, <2>1, OtherSteps
  <2>13. QED
    BY <2>2, <2>3, <2>4, <2>5, <2>6, <2>8, <2>9, <2>10, <2>11, <2>12
       DEF Next, SaveOpens, SaveShows
<1>3. QED
  BY <1>1, <1>2, PanelTypes, AnswersStayTrue, ListsStayCurrent, PTL DEF Spec

-----------------------------------------------------------------------------
(* What ties the panel to the URL.  A task marked as opened is in an open   *)
(* panel; it is the one of the URL, unless the board does not know that     *)
(* one; once no navigation is to come, the task of the URL is opened.       *)
UrlInv ==
  /\ ~loaded => opened = None /\ nav = Idle /\ ~detail /\ ~edit
  /\ ~loaded => save = Idle /\ del.task = Idle
  /\ opened # None => detail
  /\ (opened # None /\ opened # url) => url # None /\ url \notin tasks
  /\ (loaded /\ nav = Idle /\ url # None) => opened = url
  /\ (~late /\ nav \in Task /\ opened = nav) => sel = nav
  /\ (~late /\ loaded /\ nav = Idle /\ url # None) => sel = url

LEMMA UrlIsFollowed == Spec => []UrlInv
<1>1. Init => UrlInv
  BY DEF Init, UrlInv
<1>2. TypeInv /\ UrlInv /\ [Next]_vars => UrlInv'
  <2> SUFFICES ASSUME TypeInv, UrlInv, [Next]_vars PROVE UrlInv'
    OBVIOUS
  <2> USE PanelAssumption DEF UrlInv
  <2>1. CASE UNCHANGED <<loaded, tasks, url, nav, opened, sel, detail>> /\ (late => late')
             /\ (loaded \/ (UNCHANGED <<edit, del>> /\ save' \in {save, Idle}))
    BY <2>1
  <2>2. CASE Snapshot
    <3>1. PICK ts \in SUBSET Task : tasks' = ts /\ FollowUrl(url, ts, nav)
      BY <2>2 DEF Snapshot
    <3>2. opened = None /\ nav = Idle /\ loaded' /\ UNCHANGED <<url, late>>
      BY <2>2 DEF Snapshot, history
    <3>3. QED
      BY <3>1, <3>2 DEF FollowUrl, LoadComments, panel
  <2>3. CASE Navigate
    <3>1. /\ nav \in Task \cup {None} /\ url' = nav /\ loaded /\ UNCHANGED <<loaded, tasks, late>>
          /\ FollowUrl(nav, tasks, Idle)
      BY <2>3 DEF Navigate, history, TypeInv, TypeOK
    <3>2. CASE nav = None
      BY <3>1, <3>2 DEF FollowUrl
    <3>3. CASE nav # None /\ opened = nav
      BY <3>1, <3>3 DEF FollowUrl, panel
    <3>4. CASE nav # None /\ opened # nav /\ nav \notin tasks
      BY <3>1, <3>4 DEF FollowUrl, panel
    <3>5. CASE nav # None /\ opened # nav /\ nav \in tasks
      BY <3>1, <3>5 DEF FollowUrl
    <3>6. QED
      BY <3>2, <3>3, <3>4, <3>5
  <2>4. ASSUME NEW t \in Task, TaskEvent(t) PROVE UrlInv'
    <3>1. /\ loaded /\ tasks' = tasks \cup {t} /\ UNCHANGED <<loaded, url, late>>
          /\ FollowUrl(url, tasks', nav)
      BY <2>4 DEF TaskEvent, history
    <3>2. CASE url = None
      BY <3>1, <3>2 DEF FollowUrl
    <3>3. CASE url # None /\ opened = url
      BY <3>1, <3>3 DEF FollowUrl, panel
    <3>4. CASE url # None /\ opened # url /\ url \notin tasks'
      BY <3>1, <3>4 DEF FollowUrl, panel
    <3>5. CASE url # None /\ opened # url /\ url \in tasks'
      BY <3>1, <3>5 DEF FollowUrl
    <3>6. QED
      BY <3>2, <3>3, <3>4, <3>5
  <2>5. ASSUME NEW t \in Task, Click(t) PROVE UrlInv'
    BY <2>5 DEF Click, OpenComments, history
  <2>6. CASE Close
    <3>1. /\ opened' = None /\ sel' = None /\ detail /\ UNCHANGED <<loaded, tasks, url, late>>
          /\ nav' = IF url # None THEN None ELSE nav
      BY <2>6 DEF Close, CloseComments, history
    <3>2. loaded
      BY <3>1
    <3>3. QED
      BY <3>1, <3>2
  <2>7. CASE DeleteDone
    <3>1. CASE url \in tasks'
      <4>1. url \in Task
        BY <2>7, <3>1 DEF DeleteDone, TypeInv, TypeOK
      <4>2. /\ opened' = url /\ sel' = url /\ detail' /\ (nav' = None \/ nav' = nav)
            /\ loaded /\ UNCHANGED <<loaded, url>>
        BY <2>7, <3>1 DEF DeleteDone
      <4>3. QED
        BY <2>7, <4>1, <4>2, <3>1
    <3>2. CASE url \notin tasks'
      <4>1. /\ opened' = None /\ sel' = None /\ loaded /\ UNCHANGED <<loaded, url>>
            /\ nav' = IF del.linked \/ url # None THEN None ELSE nav
        BY <2>7, <3>2 DEF DeleteDone, CloseComments
      <4>2. QED
        BY <4>1
    <3>3. QED
      BY <3>1, <3>2
  <2>8. CASE SaveDone
    <3>1. /\ save # Idle /\ UNCHANGED <<loaded, tasks, url, del>> /\ ~edit'
          /\ late' = (late \/ sel # save)
      BY <2>8 DEF SaveDone
    <3>2. CASE url \in tasks \ {opened}
      BY <2>8, <3>1, <3>2 DEF SaveDone, TypeInv, TypeOK
    <3>3. CASE url \notin tasks \ {opened}
      <4>1. UNCHANGED detail /\ sel' = save /\ loaded
        BY <2>8, <3>1, <3>3 DEF SaveDone
      <4>2. ~late' => ~late /\ sel' = sel
        BY <3>1, <4>1
      <4>3. CASE url = None
        <5>1. opened' = None /\ nav' = nav
          BY <2>8, <3>3, <4>3 DEF SaveDone
        <5>2. QED
          BY <3>1, <4>1, <4>2, <4>3, <5>1
      <4>4. CASE url # None /\ url = opened
        <5>1. opened' = opened /\ nav' = nav
          BY <2>8, <3>3, <4>4 DEF SaveDone
        <5>2. QED
          BY <3>1, <4>1, <4>2, <4>4, <5>1
      <4>5. CASE url # None /\ url # opened
        <5>1. opened' = opened /\ nav' = None
          BY <2>8, <3>3, <4>5 DEF SaveDone
        <5>2. QED
          BY <3>1, <4>1, <4>2, <4>5, <5>1
      <4>6. QED
        BY <4>3, <4>4, <4>5
    <3>4. QED
      BY <3>2, <3>3
  <2>9. ASSUME NEW r \in Request, ServeLoad(r) \/ LoadDone(r) \/ LoadFails(r) PROVE UrlInv'
    BY <2>1, <2>9 DEF ServeLoad, LoadDone, LoadFails, panel, history
  <2>10. ASSUME NEW c \in Comment, CommentEvent(c) \/ Post(c) \/ \E t \in Task : CommentOn(c, t)
         PROVE  UrlInv'
    BY <2>1, <2>10 DEF CommentEvent, Post, CommentOn, panel, history
  <2>11. CASE ServePost \/ PostDone \/ PostFails
    BY <2>1, <2>11 DEF ServePost, PostDone, PostFails, panel, history
  <2>12. CASE Edit \/ Dismiss \/ Save \/ SaveFails \/ Delete \/ DeleteFails \/ UNCHANGED vars
    <3>1. Edit \/ Dismiss \/ Save \/ Delete \/ DeleteFails => loaded
      BY DEF Edit, Dismiss, Save, Delete, DeleteFails
    <3>2. QED
      BY <2>1, <2>12, <3>1
         DEF Edit, Dismiss, Save, SaveFails, Delete, DeleteFails, vars, panel, history
  <2>13. QED
    BY <2>2, <2>3, <2>4, <2>5, <2>6, <2>7, <2>8, <2>9, <2>10, <2>11, <2>12 DEF Next
<1>3. QED
  BY <1>1, <1>2, PanelTypes, PTL DEF Spec

(* Once no navigation is to come, the panel is open and shows the task that *)
(* the URL names, unless a late answer has selected another one.            *)
THEOREM PanelFollowsUrl == Spec => []PanelMatchesUrl
<1>1. UrlInv => PanelMatchesUrl
  BY DEF UrlInv, PanelMatchesUrl
<1>2. QED
  BY <1>1, UrlIsFollowed, PTL

(* The panel opens for a click, for the snapshot, or while a navigation is  *)
(* still to come: no event of a stream and no answer opens it otherwise.    *)
THEOREM PanelOpensOnRequest == Spec => OpensOnRequest
<1>1. TypeInv /\ UrlInv /\ [Next]_vars =>
        [(~detail /\ detail') =>
           \/ \E t \in Task : Click(t)
           \/ ~loaded \/ nav # Idle]_vars
  <2> SUFFICES ASSUME TypeInv, UrlInv, Next, ~detail, detail', loaded, nav = Idle
               PROVE  \E t \in Task : Click(t)
    BY Zenon
  <2>1. detail' # detail
    OBVIOUS
  <2>2. opened = None /\ url = None
    BY DEF UrlInv
  <2>3. ~Snapshot /\ ~Navigate /\ ~Close
    BY DEF Snapshot, Navigate, Close, CloseComments
  <2>4. ASSUME NEW t \in Task, TaskEvent(t) PROVE FALSE
    BY <2>1, <2>2, <2>4 DEF TaskEvent, FollowUrl
  <2>5. ~DeleteDone
    BY <2>1, <2>2, PanelAssumption DEF DeleteDone, CloseComments, TypeInv, TypeOK
  <2>6. ~SaveDone
    BY <2>1, <2>2, PanelAssumption DEF SaveDone, TypeInv, TypeOK
  <2>7. ASSUME NEW r \in Request, ServeLoad(r) \/ LoadDone(r) \/ LoadFails(r) PROVE FALSE
    BY <2>1, <2>7 DEF ServeLoad, LoadDone, LoadFails, panel
  <2>8. ASSUME NEW c \in Comment, CommentEvent(c) \/ Post(c) \/ \E t \in Task : CommentOn(c, t)
        PROVE  FALSE
    BY <2>1, <2>8 DEF CommentEvent, Post, CommentOn, panel
  <2>9. ~(ServePost \/ PostDone \/ PostFails)
    BY <2>1 DEF ServePost, PostDone, PostFails, panel
  <2>10. ~(Edit \/ Dismiss \/ Save \/ SaveFails \/ Delete \/ DeleteFails)
    BY <2>1 DEF Edit, Dismiss, Save, SaveFails, Delete, DeleteFails, panel
  <2>11. QED
    BY <2>3, <2>4, <2>5, <2>6, <2>7, <2>8, <2>9, <2>10 DEF Next
<1>2. QED
  BY <1>1, PanelTypes, UrlIsFollowed, PTL DEF Spec, OpensOnRequest
=============================================================================
