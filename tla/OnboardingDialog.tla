-------------------------- MODULE OnboardingDialog --------------------------
(***************************************************************************)
(* The onboarding dialog of a board (components/BoardOnboardingChat.tsx,   *)
(* opened by boards/[boardId]/edit/page.tsx): a user answers questions of  *)
(* an agent, which posts them to the session the dialog polls, until a     *)
(* draft of the board's goal is confirmed.                                 *)
(*                                                                         *)
(* The handlers of api/board_onboarding.py are modelled wait by wait: what *)
(* a message to the agent starts may overtake the commit of the request    *)
(* that sent it.  A message is the number of the post; a draft is the      *)
(* number of the post that completed it.                                   *)
(***************************************************************************)
EXTENDS Naturals, FiniteSets, Sequences

CONSTANTS
  MaxPolls,   \* bound on polls under way
  MaxMounts,  \* bound on how often the dialog is opened
  MaxAsks,    \* bound on what the agent is asked
  MaxUnasked, \* bound on what it posts without having been asked
  MaxFaults   \* bound on requests that fail

ASSUME DialogAssumption ==
  /\ MaxPolls \in Nat \ {0} /\ MaxMounts \in Nat
  /\ MaxAsks \in Nat /\ MaxUnasked \in Nat /\ MaxFaults \in Nat

Post == 0..(MaxAsks + MaxUnasked)   \* 0 stands for none

VARIABLES
  rows,     \* the onboarding sessions of the board
  newest,   \* the one updated last, which all requests but the start look at
  version,  \* number of writes so far
  board,    \* the draft the board's goal and its lead agent come from
  posts,    \* what the agent has posted so far
  final,    \* posts that complete a draft; the others are questions
  owed,     \* messages the agent has received and not responded to
  unasked,  \* posts so far that respond to none: one sent twice, a correction
  mount,    \* the component that is, or was last, on the page
  open,     \* is it on the page?
  active,   \* is the window visible and focused?
  view,     \* the session the dialog shows
  waitFor,  \* awaitingAssistantFingerprint
  polls,    \* polls sent, and the replies to others that are on their way
  call,     \* the request other than polls of each component
  asks, faults,
  spoiled,  \* something has gone wrong that the dialog does not notice (history)
  lost      \* an answer of the agent may not be shown (history)

db == <<rows, newest, version, board>>
agent == <<posts, final, owed, unasked>>
dialog == <<mount, open, active, view, waitFor, polls>>
history == <<spoiled, lost>>
vars == <<db, agent, dialog, call, asks, faults, history>>

Row == [status : {"active", "completed", "confirmed"}, last : Post, byUser : BOOLEAN,
        draft : Post]
NoView == [last |-> 0, draft |-> 0, at |-> 0]
NoCall == [kind |-> "none", pc |-> "idle", row |-> 0, held |-> 0, shown |-> 0, reply |-> NoView]

Init ==
  /\ rows = <<>> /\ newest = 0 /\ version = 0 /\ board = [goal |-> 0, lead |-> 0]
  /\ posts = 0 /\ final = {} /\ owed = 0 /\ unasked = 0
  /\ mount = 0 /\ open = FALSE /\ active = TRUE /\ view = NoView /\ waitFor = 0
  /\ polls = [sent |-> 0, back |-> {}]
  /\ call = [m \in 1..MaxMounts |-> NoCall]
  /\ asks = 0 /\ faults = 0 /\ spoiled = FALSE /\ lost = FALSE

-----------------------------------------------------------------------------
(* Writes are numbered until something is spoiled: later the order in which *)
(* replies were read is not looked at.                                      *)
Tick == IF spoiled THEN 0 ELSE version + 1

(* What the component derives from its state.                               *)
Question(v) == v.last # 0 /\ v.last \notin final
Loading == open /\ call[mount].kind # "none"
IsAwaitingAgent == waitFor # 0 /\ view.last = waitFor

PollsWhenShown == open /\ active /\ (Loading \/ (~Question(view) /\ view.draft = 0))   \* variant
ShouldPoll ==
  open /\ active /\ (Loading \/ IsAwaitingAgent \/ (~Question(view) /\ view.draft = 0))

(* Buttons and Enter are enabled.                                           *)
ReadyWhenLoaded == open /\ ~Loading   \* variant
Ready == open /\ ~Loading /\ ~IsAwaitingAgent

(* setSession, and the effect that forgets the fingerprint waited for once  *)
(* the last message of the agent has another.                               *)
ShowAtOnce(v, fingerprint) == view' = v /\ waitFor' = 0   \* variant
Show(v, fingerprint) ==
  /\ view' = v
  /\ waitFor' = IF v.last = fingerprint THEN fingerprint ELSE 0

(* A reply that was read before the one shown.                              *)
Overtaken(v) == v.at < view.at

-----------------------------------------------------------------------------
(* The page mounts the dialog, and its effect starts the session.           *)
Open ==
  /\ ~open /\ mount < MaxMounts /\ asks < MaxAsks
  /\ mount' = mount + 1 /\ open' = TRUE /\ active' = TRUE /\ asks' = asks + 1
  /\ call' = [call EXCEPT ![mount'] = [NoCall EXCEPT !.kind = "start", !.pc = "asked"]]
  /\ lost' = FALSE
  /\ UNCHANGED <<db, agent, view, waitFor, polls, faults, spoiled>>

(* The component is gone, with its state and what is on its way to it, but  *)
(* for a confirmation, whose answer is for the page; the handlers go on.    *)
Unheard(m) ==
  /\ m = mount /\ call[m].pc \in {"failed", "done"}
  /\ ~(call[m].kind = "confirm" /\ call[m].pc = "done")

Unmount(ended) ==
  /\ open' = FALSE /\ active' = TRUE /\ view' = NoView /\ waitFor' = 0
  /\ polls' = [sent |-> 0, back |-> {}]
  /\ call' = [m \in 1..MaxMounts |-> IF m \in ended \/ Unheard(m) THEN NoCall ELSE call[m]]

(* The dialog is closed, or the page left, while a request is under way or  *)
(* the agent is at work, perhaps.                                           *)
Busy == ~Ready \/ owed # 0

Close ==
  /\ open /\ Unmount({})
  /\ spoiled' = (spoiled \/ Busy)
  /\ UNCHANGED <<db, agent, mount, asks, faults, lost>>

(* usePageActive.                                                           *)
Toggle ==
  /\ open /\ active' = ~active
  /\ UNCHANGED <<db, agent, mount, open, view, waitFor, polls, call, asks, faults, history>>

Ask(kind, shown) ==
  /\ call' = [call EXCEPT ![mount] = [NoCall EXCEPT !.kind = kind, !.pc = "asked", !.shown = shown]]
  /\ UNCHANGED <<db, agent, mount, open, active, view, polls, faults, history>>

(* handleAnswer, for the question that is shown while there is no draft.    *)
Answer ==
  /\ Ready /\ Question(view) /\ view.draft = 0
  /\ asks < MaxAsks /\ asks' = asks + 1 /\ waitFor' = 0
  /\ Ask("answer", view.last)

(* submitExtraContext, below the draft.                                     *)
ExtraContext ==
  /\ Ready /\ view.draft # 0
  /\ asks < MaxAsks /\ asks' = asks + 1 /\ waitFor' = 0
  /\ Ask("context", view.last)

Confirm ==
  /\ Ready /\ view.draft # 0
  /\ Ask("confirm", view.draft) /\ UNCHANGED <<asks, waitFor>>

(* The requests but the confirmation show the session returned, and wait    *)
(* for a message other than the last one the dialog showed when they were   *)
(* sent.                                                                    *)
Shown ==
  LET c == call[mount]
  IN /\ open /\ c.pc = "done" /\ c.kind # "confirm"
     /\ call' = [call EXCEPT ![mount] = NoCall]
     /\ Show(c.reply, IF c.kind = "start" THEN waitFor ELSE c.shown)
     /\ spoiled' = (spoiled \/ Overtaken(c.reply))
     /\ UNCHANGED <<db, agent, mount, open, active, polls, asks, faults, lost>>

(* confirmGoal has the page close its dialog (handleOnboardingConfirmed),   *)
(* also one that was opened after it, unless the page has been left.        *)
Confirmed(m) ==
  /\ call[m].pc = "done" /\ call[m].kind = "confirm"
  /\ \/ open /\ Unmount({m})
     \/ /\ ~(open /\ m = mount) /\ call' = [call EXCEPT ![m] = NoCall]
        /\ UNCHANGED <<open, active, view, waitFor, polls>>
  /\ UNCHANGED <<db, agent, mount, asks, faults, history>>

(* The error is shown, and the buttons are enabled again.                   *)
Failed ==
  /\ open /\ call[mount].pc = "failed"
  /\ call' = [call EXCEPT ![mount] = NoCall]
  /\ UNCHANGED <<db, agent, dialog, asks, faults, history>>

-----------------------------------------------------------------------------
(* refreshSession: at once and every two seconds, whether or not the last   *)
(* one has been answered; what is under way when the polling stops arrives. *)
SendPoll ==
  /\ ShouldPoll /\ polls.sent + Cardinality(polls.back) < MaxPolls
  /\ polls' = [polls EXCEPT !.sent = @ + 1]
  /\ UNCHANGED <<db, agent, mount, open, active, view, waitFor, call, asks, faults, history>>

SeenAt(r, at) == [last |-> rows[r].last, draft |-> rows[r].draft, at |-> at]
Seen(r) == SeenAt(r, version)

(* get_onboarding; a board without a session gives a 404, which is ignored  *)
(* (as is any error: a poll that fails is as if it had not been sent).      *)
ReadPoll ==
  /\ open /\ polls.sent > 0
  /\ polls' = [sent |-> polls.sent - 1,
               back |-> polls.back \cup IF newest = 0 THEN {} ELSE {Seen(newest)}]
  /\ UNCHANGED <<db, agent, mount, open, active, view, waitFor, call, asks, faults, history>>

PollArrives ==
  /\ open
  /\ \E v \in polls.back :
       /\ polls' = [polls EXCEPT !.back = @ \ {v}]
       /\ Show(v, waitFor) /\ spoiled' = (spoiled \/ Overtaken(v))
  /\ UNCHANGED <<db, agent, mount, open, active, call, asks, faults, lost>>

-----------------------------------------------------------------------------
(* The handlers.  Each reads its session first; all but the confirmation    *)
(* then send a message to the agent, and commit when it has been sent.      *)
(* What a component that is gone would do with an answer is of no effect,   *)
(* unless it is the page's: onConfirmed.                                    *)
Heard(m, pc) == (open /\ m = mount) \/ (call[m].kind = "confirm" /\ pc = "done")
Return(m, pc, v) ==
  call' = [call EXCEPT ![m] =
             IF Heard(m, pc)
             THEN [NoCall EXCEPT !.kind = call[m].kind, !.shown = call[m].shown,
                            !.pc = pc, !.reply = v]
             ELSE NoCall]
At(m, kinds, pc) == call[m].kind \in kinds /\ call[m].pc = pc
Quiet == UNCHANGED <<dialog, asks>>

Ongoing == {r \in DOMAIN rows : rows[r].status = "active"}

(* start_onboarding: an active session is resumed by sending the agent its  *)
(* last message again, when that is from the user.                          *)
LoadStart(m) ==
  /\ At(m, {"start"}, "asked")
  /\ \/ /\ Ongoing = {}
        /\ call' = [call EXCEPT ![m].pc = "loaded"]
     \/ \E r \in Ongoing :
          IF rows[r].byUser THEN call' = [call EXCEPT ![m].row = r, ![m].pc = "loaded"]
                            ELSE Return(m, "done", Seen(r))
  /\ Quiet /\ UNCHANGED <<db, agent, faults, history>>

(* answer_onboarding keeps the list of messages it has loaded.              *)
LoadAnswer(m) ==
  /\ At(m, {"answer", "context"}, "asked")
  /\ call' = [call EXCEPT ![m].pc = "loaded", ![m].row = newest, ![m].held = rows[newest].last]
  /\ Quiet /\ UNCHANGED <<db, agent, faults, history>>

Dispatch(m) ==
  /\ At(m, {"start", "answer", "context"}, "loaded")
  /\ call' = [call EXCEPT ![m].pc = "sent"]
  /\ owed' = owed + 1
  /\ Quiet /\ UNCHANGED <<db, posts, final, unasked, faults, history>>

(* The gateway refuses, or times out when the agent has got the message.    *)
DispatchFails(m) ==
  /\ At(m, {"start", "answer", "context"}, "loaded")
  /\ faults < MaxFaults /\ faults' = faults + 1
  /\ Return(m, "failed", NoView)
  /\ owed' \in {owed, owed + 1}
  /\ spoiled' = TRUE /\ lost' = TRUE
  /\ Quiet /\ UNCHANGED <<db, posts, final, unasked>>

Saved(r) == newest' = r /\ version' = Tick

(* A new session, or a new time stamp of the one that was resumed.          *)
CommitStart(m) ==
  /\ At(m, {"start"}, "sent")
  /\ IF call[m].row # 0
     THEN /\ UNCHANGED rows /\ Saved(call[m].row)
          /\ Return(m, "done", SeenAt(call[m].row, Tick))
     ELSE /\ rows' = Append(rows, [status |-> "active", last |-> 0, byUser |-> TRUE, draft |-> 0])
          /\ Saved(Len(rows')) /\ Return(m, "done", [NoView EXCEPT !.at = Tick])
  /\ Quiet /\ UNCHANGED <<board, agent, faults, history>>

(* The message is put behind those that were loaded.                        *)
CommitAnswer(m) ==
  /\ At(m, {"answer", "context"}, "sent")
  /\ LET r == call[m].row
     IN /\ rows' = [rows EXCEPT ![r].last = call[m].held, ![r].byUser = TRUE]
        /\ Saved(r)
        /\ Return(m, "done", [SeenAt(r, Tick) EXCEPT !.last = call[m].held])
  /\ Quiet /\ UNCHANGED <<board, agent, faults, history>>

(* confirm_onboarding takes the goal from the request and the lead agent,   *)
(* the approval rule and the user's profile from the session.               *)
LoadConfirm(m) ==
  /\ At(m, {"confirm"}, "asked")
  /\ call' = [call EXCEPT ![m].pc = "sent", ![m].row = newest, ![m].held = rows[newest].draft]
  /\ Quiet /\ UNCHANGED <<db, agent, faults, history>>

CommitConfirm(m) ==
  /\ At(m, {"confirm"}, "sent")
  /\ board' = [goal |-> call[m].shown, lead |-> call[m].held]
  /\ rows' = [rows EXCEPT ![call[m].row].status = "confirmed"]
  /\ Saved(call[m].row) /\ Return(m, "done", NoView)
  /\ Quiet /\ UNCHANGED <<agent, faults, history>>

(* The request is refused, or its answer is lost (or the lead agent cannot  *)
(* be provisioned after the commit).                                        *)
CallFails(m) ==
  /\ call[m].pc \in {"asked", "done"} /\ call[m].kind # "none"
  /\ faults < MaxFaults /\ faults' = faults + 1
  /\ Return(m, "failed", NoView)
  /\ spoiled' = TRUE /\ lost' = TRUE
  /\ Quiet /\ UNCHANGED <<db, agent>>

-----------------------------------------------------------------------------
(* A message has reached the agent before the request that sent it commits. *)
Early == \E m \in 1..MaxMounts : At(m, {"start", "answer", "context"}, "sent")

StoredWithoutDraft(row, complete, id) ==   \* variant
  [row EXCEPT !.status = IF complete THEN "completed" ELSE @, !.last = id, !.byUser = FALSE]
Stored(row, complete, id) ==
  [status |-> IF complete THEN "completed" ELSE row.status, last |-> id, byUser |-> FALSE,
   draft |-> IF complete THEN id ELSE row.draft]

(* agent_onboarding_update takes a question or a draft whenever it comes,   *)
(* and refuses it only when there is no session, or a confirmed one.  The   *)
(* agent answers a message (asked), or sends a post again or another one.   *)
AgentPosts(complete, asked) ==
  /\ IF asked THEN owed > 0 /\ owed' = owed - 1 /\ unasked' = unasked
              ELSE unasked < MaxUnasked /\ unasked' = unasked + 1 /\ owed' = owed
  /\ posts' = posts + 1
  /\ final' = IF complete THEN final \cup {posts'} ELSE final
  /\ IF newest # 0 /\ rows[newest].status # "confirmed"
     THEN /\ rows' = [rows EXCEPT ![newest] = Stored(@, complete, posts')]
          /\ version' = Tick
          /\ lost' = (lost \/ (asked /\ Early))
     ELSE UNCHANGED <<rows, version>> /\ lost' = (lost \/ asked)
  /\ spoiled' = (spoiled \/ Early \/ ~asked)
  /\ Quiet /\ UNCHANGED <<newest, board, call, faults>>

-----------------------------------------------------------------------------
Serve(m) ==
  \/ LoadStart(m) \/ LoadAnswer(m) \/ LoadConfirm(m) \/ Dispatch(m)
  \/ CommitStart(m) \/ CommitAnswer(m) \/ CommitConfirm(m)

Poll == SendPoll \/ ReadPoll \/ PollArrives
Responds == \E complete \in BOOLEAN : AgentPosts(complete, TRUE)
PostsUnasked == \E complete \in BOOLEAN : AgentPosts(complete, FALSE)
AnyConfirmed == \E m \in 1..MaxMounts : Confirmed(m)

Next ==
  \/ Open \/ Close \/ Toggle \/ Answer \/ ExtraContext \/ Confirm
  \/ Shown \/ AnyConfirmed \/ Failed \/ Poll \/ Responds \/ PostsUnasked
  \/ \E m \in 1..MaxMounts : Serve(m) \/ DispatchFails(m) \/ CallFails(m)

(* Polls are sent and answered, handlers run, and the agent responds to     *)
(* what it receives, as its instructions say.                               *)
Spec ==
  /\ Init /\ [][Next]_vars
  /\ WF_vars(SendPoll) /\ WF_vars(ReadPoll) /\ WF_vars(PollArrives)
  /\ WF_vars(Shown) /\ WF_vars(AnyConfirmed) /\ WF_vars(Failed) /\ WF_vars(Responds)
  /\ \A m \in 1..MaxMounts : WF_vars(Serve(m))

-----------------------------------------------------------------------------
(* Properties *)

View == [last : Post, draft : Post, at : Nat]

\* Sessions, requests and what the dialog shows have their types; a completed
\* session has a draft.
TypeOK ==
  /\ rows \in Seq(Row) /\ newest \in 0..Len(rows) /\ version \in Nat
  /\ \A r \in DOMAIN rows : rows[r].status = "completed" => rows[r].draft \in final
  /\ board \in [goal : Post, lead : Post]
  /\ posts \in Post /\ final \subseteq 1..posts /\ owed \in Nat
  /\ unasked \in 0..MaxUnasked
  /\ mount \in 0..MaxMounts /\ open \in BOOLEAN /\ active \in BOOLEAN
  /\ view \in View /\ waitFor \in Post
  /\ polls.sent \in 0..MaxPolls /\ polls.back \subseteq View
  /\ call \in [1..MaxMounts ->
       [kind : {"none", "start", "answer", "context", "confirm"},
        pc : {"idle", "asked", "loaded", "sent", "done", "failed"},
        row : 0..Len(rows), held : Post, shown : Post, reply : View]]
  /\ asks \in 0..MaxAsks /\ faults \in 0..MaxFaults
  /\ spoiled \in BOOLEAN /\ lost \in BOOLEAN

\* The agent gets an answer when it waits for one, and to the question it asked
\* last, unless a request failed, the dialog was closed while it was waiting, the
\* replies came out of order, the agent was faster than a commit or it posted
\* without having been asked: the same post again, or a second one.
AnswersFit ==
  [][\A m \in 1..MaxMounts :
       (Dispatch(m) /\ call[m].kind # "start" /\ ~spoiled)
         => (owed = 0 /\ call[m].shown = posts)]_vars

\* Goal and lead agent of a confirmed board come from the draft the user saw, the
\* one read from the request and the other from the session, except after the
\* same incidents.
ConfirmsDraft == ~spoiled => board.goal = board.lead

Waiting == open /\ active /\ ~Loading /\ (IsAwaitingAgent \/ (~Question(view) /\ view.draft = 0))

\* A dialog that waits for the agent shows its answer in the end, unless that
\* came before the commit or the request failed; closing and opening the dialog
\* mends both.
WaitEnds == Waiting ~> (~Waiting \/ lost)
=============================================================================
