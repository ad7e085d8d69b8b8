----------------------- MODULE OnboardingDialogProofs -----------------------
(***************************************************************************)
(* Safety of the onboarding dialog for any number of openings, requests    *)
(* and polls: types, and while nothing has gone wrong that the dialog does *)
(* not notice, that a goal is confirmed from the draft that was shown and  *)
(* that every answer meets the question it was given for.                  *)
(*                                                                         *)
(* The types need the balance of AgentTyped: each message asked for is to  *)
(* be sent, owed or responded to, and what else the agent posts is counted *)
(* in unasked.  The rest follows from Steady: the only  *)
(* request is that of the dialog on the page, and what is shown, or will   *)
(* be by a reply under way, is what the newest session holds unless it is  *)
(* the message the dialog waits to see replaced.                           *)
(***************************************************************************)
EXTENDS OnboardingDialog, FiniteSetTheorems, SequenceTheorems, TLAPS

Mounts == 1..MaxMounts

-----------------------------------------------------------------------------
(* Types                                                                    *)

Request(n) ==
  [kind : {"none", "start", "answer", "context", "confirm"},
   pc : {"idle", "asked", "loaded", "sent", "done", "failed"},
   row : 0..n, held : Post, shown : Post, reply : View]

Blank(v) == v.last = 0 /\ v.draft = 0

\* A completed session has the draft that completed it.
DbTyped ==
  /\ rows \in Seq(Row) /\ newest \in 0..Len(rows) /\ version \in Nat
  /\ \A r \in DOMAIN rows : rows[r].status = "completed" => rows[r].draft \in final
  /\ board \in [goal : Post, lead : Post]
  /\ newest = 0 => rows = <<>>

\* Messages to the agent are owed, answered, or still to be sent by a handler.
Unsent(c) == c.kind \in {"start", "answer", "context"} /\ c.pc \in {"asked", "loaded"}
Asking == {m \in Mounts : Unsent(call[m])}
AgentTyped ==
  /\ posts \in Nat /\ final \subseteq 1..posts /\ owed \in Nat
  /\ unasked \in 0..MaxUnasked /\ asks \in 0..MaxAsks
  /\ posts + owed + Cardinality(Asking) <= asks + unasked

\* Nothing is shown before there is a session.
DialogTyped ==
  /\ mount \in 0..MaxMounts /\ open \in BOOLEAN /\ active \in BOOLEAN
  /\ open => mount # 0
  /\ view \in View /\ waitFor \in Post
  /\ polls \in [sent : 0..MaxPolls, back : SUBSET View] /\ IsFiniteSet(polls.back)
  /\ newest = 0 => Blank(view) /\ polls.back = {}

\* Only a dialog that shows a session answers or confirms.
CallTyped(c, n, top) ==
  /\ c \in Request(n)
  /\ c.kind = "none" => c = NoCall
  /\ c.kind \in {"answer", "context", "confirm"} => top # 0
  /\ c.kind \in {"answer", "context", "confirm"} /\ c.pc \in {"loaded", "sent"} => c.row # 0
  /\ top = 0 => c.row = 0 /\ Blank(c.reply)

CallsTyped ==
  /\ DOMAIN call = Mounts /\ call = [m \in Mounts |-> call[m]]
  /\ \A m \in Mounts : CallTyped(call[m], Len(rows), newest)

RestTyped == faults \in 0..MaxFaults /\ spoiled \in BOOLEAN /\ lost \in BOOLEAN

TypeInv == DbTyped /\ AgentTyped /\ DialogTyped /\ CallsTyped /\ RestTyped

LEMMA NoCallTyped ==
  ASSUME NEW n \in Nat, NEW top
  PROVE  CallTyped(NoCall, n, top) /\ NoView \in View /\ Blank(NoView)
<1>1. 0 \in Post
  BY DialogAssumption DEF Post
<1>2. NoView \in View /\ Blank(NoView)
  BY <1>1 DEF NoView, View, Blank
<1>3. QED
  BY <1>1, <1>2 DEF CallTyped, Request, NoCall

\* A session is a row.
LEMMA RowTyped ==
  ASSUME TypeInv, NEW r \in DOMAIN rows
  PROVE  /\ r \in 1..Len(rows) /\ r \in Nat /\ rows[r] \in Row
         /\ rows[r].last \in Post /\ rows[r].draft \in Post
         /\ newest # 0
<1>1. rows \in Seq(Row) /\ DOMAIN rows = 1..Len(rows) /\ Len(rows) \in Nat
  BY LenProperties DEF TypeInv, DbTyped
<1>2. rows[r] \in Row
  BY <1>1, ElementOfSeq
<1>3. newest # 0
  BY <1>1, EmptySeq DEF TypeInv, DbTyped
<1>4. QED BY <1>1, <1>2, <1>3 DEF Row

LEMMA NewestRow ==
  ASSUME TypeInv, newest # 0
  PROVE  newest \in DOMAIN rows
BY LenProperties DEF TypeInv, DbTyped

LEMMA SeenTyped ==
  ASSUME TypeInv, NEW r \in DOMAIN rows, NEW at \in Nat
  PROVE  SeenAt(r, at) \in View
BY RowTyped DEF SeenAt, View

\* A call stays typed while sessions are only added.
LEMMA CallStaysTyped ==
  ASSUME NEW n \in Nat, NEW top, NEW k \in Nat, NEW next, n <= k, next = 0 => top = 0,
         NEW c, CallTyped(c, n, top)
  PROVE  CallTyped(c, k, next)
<1>1. 0..n \subseteq 0..k
  OBVIOUS
<1>2. c \in Request(k)
  BY <1>1 DEF CallTyped, Request
<1>3. QED BY <1>2 DEF CallTyped

\* A step that replaces one call.
Becomes(m, c) == call' = [call EXCEPT ![m] = c]

LEMMA CallsStayTyped ==
  ASSUME TypeInv, NEW k \in Nat, k = Len(rows'), Len(rows) <= k, newest' = 0 => newest = 0,
         NEW m \in Mounts, NEW c, Becomes(m, c), CallTyped(c, k, newest')
  PROVE  CallsTyped'
<1>1. Len(rows) \in Nat
  BY LenProperties DEF TypeInv, DbTyped
<1>2. \A q \in Mounts : CallTyped(call[q], k, newest')
  BY <1>1, CallStaysTyped DEF TypeInv, CallsTyped
<1>3. DOMAIN call = Mounts
  BY DEF TypeInv, CallsTyped
<1>4. \A q \in Mounts : call'[q] = IF q = m THEN c ELSE call[q]
  BY <1>3 DEF Becomes
<1>5. DOMAIN call' = Mounts /\ call' = [q \in Mounts |-> call'[q]]
  BY <1>3 DEF Becomes
<1>6. QED BY <1>2, <1>4, <1>5 DEF CallsTyped

\* The reply of a handler, or nothing when its component is gone.
Replied(m, pc, v) ==
  IF Heard(m, pc)
  THEN [NoCall EXCEPT !.kind = call[m].kind, !.shown = call[m].shown, !.pc = pc, !.reply = v]
  ELSE NoCall

LEMMA ReturnTyped ==
  ASSUME TypeInv, NEW k \in Nat, Len(rows) <= k, NEW top, top = 0 => newest = 0,
         NEW m \in Mounts, call[m].kind # "none",
         NEW pc \in {"done", "failed"}, NEW v \in View, top = 0 => Blank(v),
         Return(m, pc, v)
  PROVE  /\ Becomes(m, Replied(m, pc, v)) /\ CallTyped(Replied(m, pc, v), k, top)
         /\ ~Unsent(Replied(m, pc, v))
<1>1. Becomes(m, Replied(m, pc, v))
  BY DEF Return, Replied, Becomes
<1>2. Len(rows) \in Nat /\ CallTyped(call[m], Len(rows), newest) /\ 0 \in Post
  BY LenProperties, DialogAssumption DEF TypeInv, DbTyped, CallsTyped, Post
<1>3. CallTyped(NoCall, k, top) /\ ~Unsent(NoCall)
  BY NoCallTyped DEF Unsent, NoCall
<1>4. ASSUME Heard(m, pc)
      PROVE  CallTyped(Replied(m, pc, v), k, top) /\ ~Unsent(Replied(m, pc, v))
  <2>1. Replied(m, pc, v) =
          [kind |-> call[m].kind, pc |-> pc, row |-> 0, held |-> 0, shown |-> call[m].shown,
           reply |-> v]
    BY <1>4 DEF Replied, NoCall
  <2>2. /\ call[m].kind \in {"none", "start", "answer", "context", "confirm"}
        /\ call[m].shown \in Post
    BY <1>2 DEF CallTyped, Request
  <2>3. Replied(m, pc, v) \in Request(k)
    BY <1>2, <2>1, <2>2 DEF Request
  <2>4. QED BY <1>2, <2>1, <2>3 DEF CallTyped, Unsent
<1>5. QED BY <1>1, <1>3, <1>4 DEF Replied

\* What the agent will be asked, when one call or two change.
LEMMA MountsFinite ==
  ASSUME NEW S \in SUBSET Mounts
  PROVE  IsFiniteSet(S) /\ Cardinality(S) \in Nat
<1>1. IsFiniteSet(Mounts)
  BY DialogAssumption, FS_Interval DEF Mounts
<1>2. QED BY <1>1, FS_Subset, FS_CardinalityType

LEMMA AskingChanges ==
  ASSUME NEW m \in Mounts, NEW c, DOMAIN call = Mounts, Becomes(m, c)
  PROVE  /\ ~Unsent(c) => Cardinality(Asking') <= Cardinality(Asking)
         /\ ~Unsent(c) /\ Unsent(call[m]) => Cardinality(Asking') <= Cardinality(Asking) - 1
         /\ Unsent(call[m]) => Cardinality(Asking') <= Cardinality(Asking)
         /\ Cardinality(Asking') <= Cardinality(Asking) + 1
         /\ Cardinality(Asking') \in Nat
<1>1. \A q \in Mounts : call'[q] = IF q = m THEN c ELSE call[q]
  BY DEF Becomes
<1>2. Asking' \subseteq Asking \cup {m}
  BY <1>1 DEF Asking
<1>3. ~Unsent(c) => Asking' \subseteq Asking \ {m}
  BY <1>1 DEF Asking
<1>4. Unsent(call[m]) => m \in Asking
  BY DEF Asking
<1>5. /\ IsFiniteSet(Asking) /\ Cardinality(Asking) \in Nat
      /\ IsFiniteSet(Asking') /\ Cardinality(Asking') \in Nat
  BY MountsFinite DEF Asking
<1>6. /\ IsFiniteSet(Asking \cup {m}) /\ IsFiniteSet(Asking \ {m})
      /\ Cardinality(Asking \cup {m}) = IF m \in Asking THEN Cardinality(Asking)
                                        ELSE Cardinality(Asking) + 1
      /\ Cardinality(Asking \ {m}) = IF m \in Asking THEN Cardinality(Asking) - 1
                                     ELSE Cardinality(Asking)
  BY <1>5, FS_AddElement, FS_RemoveElement
<1>7. Cardinality(Asking') <= Cardinality(Asking \cup {m})
  BY <1>2, <1>6, FS_Subset
<1>8. ~Unsent(c) => Cardinality(Asking') <= Cardinality(Asking \ {m})
  BY <1>3, <1>6, FS_Subset
<1>9. QED BY <1>4, <1>5, <1>6, <1>7, <1>8

-----------------------------------------------------------------------------
(* Each step keeps the types                                                *)

\* A step that leaves the database alone, changes one call and asks nothing new.
LEMMA OneCall ==
  ASSUME TypeInv, UNCHANGED <<db, agent, asks>>, RestTyped',
         NEW m \in Mounts, NEW c, Becomes(m, c),
         CallTyped(c, Len(rows), newest), ~Unsent(c) \/ Unsent(call[m]), DialogTyped'
  PROVE  TypeInv'
<1>1. /\ Len(rows) \in Nat /\ DOMAIN call = Mounts
      /\ UNCHANGED <<rows, newest, version, board, posts, final, owed, unasked>>
  BY LenProperties DEF TypeInv, DbTyped, CallsTyped, db, agent
<1>2. CallsTyped'
  <2>1. Len(rows') = Len(rows)
    BY <1>1
  <2>2. QED BY <1>1, <2>1, CallsStayTyped
<1>3. AgentTyped'
  <2>1. /\ Cardinality(Asking') <= Cardinality(Asking)
        /\ Cardinality(Asking') \in Nat /\ Cardinality(Asking) \in Nat
    BY <1>1, AskingChanges, MountsFinite DEF Asking
  <2>2. QED BY <1>1, <2>1, DialogAssumption DEF TypeInv, AgentTyped
<1>4. DbTyped'
  BY <1>1 DEF TypeInv, DbTyped
<1>5. QED BY <1>2, <1>3, <1>4 DEF TypeInv

\* A step that changes neither the database nor a call.
LEMMA NoCallChanges ==
  ASSUME TypeInv, UNCHANGED <<db, agent, asks, call>>, RestTyped', DialogTyped'
  PROVE  TypeInv'
BY DEF TypeInv, DbTyped, AgentTyped, CallsTyped, Asking, db, agent

\* The dialog when only its calls change.
LEMMA DialogStays ==
  ASSUME TypeInv, UNCHANGED dialog, newest' = 0 => newest = 0
  PROVE  DialogTyped'
BY DEF TypeInv, DialogTyped, dialog

LEMMA ShowTyped ==
  ASSUME NEW v \in View, NEW f \in Post, Show(v, f), 0 \in Post
  PROVE  view' = v /\ waitFor' \in Post
BY DEF Show

\* Requests that end ask the agent nothing.
LEMMA CallsEnd ==
  ASSUME TypeInv, UNCHANGED <<db, agent, asks>>, RestTyped', DialogTyped', NEW ended,
         call' = [m \in Mounts |-> IF m \in ended THEN NoCall ELSE call[m]]
  PROVE  TypeInv'
<1>1. /\ Len(rows) \in Nat /\ DOMAIN call = Mounts
      /\ UNCHANGED <<rows, newest, version, board, posts, final, owed, unasked>>
  BY LenProperties DEF TypeInv, DbTyped, CallsTyped, db, agent
<1>2. CallsTyped'
  <2>1. \A m \in Mounts : CallTyped(call'[m], Len(rows), newest)
    BY <1>1, NoCallTyped DEF TypeInv, CallsTyped
  <2>2. QED BY <1>1, <2>1 DEF CallsTyped
<1>3. AgentTyped'
  <2>1. ~Unsent(NoCall)
    BY DEF Unsent, NoCall
  <2>2. Asking' \subseteq Asking
    BY <2>1 DEF Asking
  <2>3. /\ IsFiniteSet(Asking) /\ Cardinality(Asking) \in Nat
        /\ Cardinality(Asking') \in Nat
    BY MountsFinite DEF Asking
  <2>4. Cardinality(Asking') <= Cardinality(Asking)
    BY <2>2, <2>3, FS_Subset
  <2>5. QED BY <1>1, <2>3, <2>4, DialogAssumption DEF TypeInv, AgentTyped
<1>4. DbTyped'
  BY <1>1 DEF TypeInv, DbTyped
<1>5. QED BY <1>2, <1>3, <1>4 DEF TypeInv

LEMMA UnmountTyped ==
  ASSUME TypeInv, NEW ended, Unmount(ended), open, UNCHANGED <<db, agent, asks, mount>>,
         RestTyped'
  PROVE  TypeInv'
<1>1. mount \in Mounts /\ 0 \in Post
  BY DialogAssumption DEF TypeInv, DialogTyped, Mounts, Post
<1>2. DialogTyped'
  <2>1. newest' = newest
    BY DEF db
  <2>2. IsFiniteSet({}) /\ NoView \in View /\ Blank(NoView)
    BY <1>1, FS_EmptySet, NoCallTyped
  <2>3. [sent |-> 0, back |-> {}] \in [sent : 0..MaxPolls, back : SUBSET View]
    BY DialogAssumption
  <2>4. QED BY <1>1, <2>1, <2>2, <2>3 DEF TypeInv, DialogTyped, Unmount
<1>3. call' = [m \in Mounts |-> IF m \in ended \cup {q \in Mounts : Unheard(q)} THEN NoCall
                                ELSE call[m]]
  BY DEF Unmount, Mounts
<1>4. QED BY <1>2, <1>3, CallsEnd

LEMMA OpenTyped ==
  ASSUME TypeInv, Open
  PROVE  TypeInv'
<1> DEFINE c == [NoCall EXCEPT !.kind = "start", !.pc = "asked"]
<1>1. /\ mount' \in Mounts /\ mount' = mount + 1 /\ open' = TRUE /\ active' = TRUE
      /\ asks' = asks + 1 /\ asks' \in 0..MaxAsks
      /\ Becomes(mount', c)
      /\ UNCHANGED <<rows, newest, version, board, posts, final, owed, unasked, view, waitFor,
                   polls>>
  BY DialogAssumption DEF Open, TypeInv, DialogTyped, AgentTyped, Mounts, db, agent, Becomes
<1>2. /\ Len(rows) \in Nat /\ DOMAIN call = Mounts
  BY LenProperties DEF TypeInv, DbTyped, CallsTyped
<1>3. CallTyped(c, Len(rows), newest)
  BY <1>2, NoCallTyped DEF CallTyped, Request, NoCall
<1>4. CallsTyped'
  <2> HIDE DEF c
  <2>1. QED BY <1>1, <1>2, <1>3, CallsStayTyped
<1>5. AgentTyped'
  <2>1. /\ Cardinality(Asking') <= Cardinality(Asking) + 1
        /\ Cardinality(Asking') \in Nat /\ Cardinality(Asking) \in Nat
    <3> HIDE DEF c
    <3>1. QED BY <1>1, <1>2, AskingChanges, MountsFinite DEF Asking
  <2>2. QED BY <1>1, <2>1, DialogAssumption DEF TypeInv, AgentTyped
<1>6. DialogTyped' /\ DbTyped'
  BY <1>1, DialogAssumption DEF TypeInv, DialogTyped, DbTyped, Mounts
<1>7. RestTyped'
  BY DEF Open, TypeInv, RestTyped
<1>8. QED BY <1>4, <1>5, <1>6, <1>7 DEF TypeInv

\* A request of the dialog other than the start.
LEMMA AskTyped ==
  ASSUME TypeInv, open, newest # 0, NEW kind \in {"answer", "context", "confirm"},
         NEW shown \in Post, Ask(kind, shown), waitFor' \in Post, asks' \in 0..MaxAsks,
         asks' >= IF kind = "confirm" THEN asks ELSE asks + 1
  PROVE  TypeInv'
<1> DEFINE c == [NoCall EXCEPT !.kind = kind, !.pc = "asked", !.shown = shown]
<1>1. /\ Becomes(mount, c) /\ mount \in Mounts
      /\ UNCHANGED <<rows, newest, version, board, posts, final, owed, unasked, mount, open,
                     active, view, polls, faults, spoiled, lost>>
  BY DEF Ask, TypeInv, DialogTyped, Mounts, db, agent, history, Becomes
<1>2. Len(rows) \in Nat /\ DOMAIN call = Mounts
  BY LenProperties DEF TypeInv, DbTyped, CallsTyped
<1>3. CallTyped(c, Len(rows), newest)
  BY <1>2, NoCallTyped DEF CallTyped, Request, NoCall
<1>4. CallsTyped'
  <2> HIDE DEF c
  <2>1. QED BY <1>1, <1>2, <1>3, CallsStayTyped
<1>5. AgentTyped'
  <2>1. /\ Cardinality(Asking') <= Cardinality(Asking) + 1
        /\ ~Unsent(c) => Cardinality(Asking') <= Cardinality(Asking)
        /\ Cardinality(Asking') \in Nat /\ Cardinality(Asking) \in Nat
    <3> HIDE DEF c
    <3>1. QED BY <1>1, <1>2, AskingChanges, MountsFinite DEF Asking
  <2>2. kind = "confirm" => ~Unsent(c)
    BY DEF Unsent, NoCall
  <2>3. QED
    <3> HIDE DEF c
    <3>1. QED BY <1>1, <2>1, <2>2, DialogAssumption DEF TypeInv, AgentTyped
<1>6. DialogTyped' /\ DbTyped' /\ RestTyped'
  BY <1>1 DEF TypeInv, DialogTyped, DbTyped, RestTyped
<1>7. QED BY <1>4, <1>5, <1>6 DEF TypeInv

LEMMA DialogStepsTyped ==
  ASSUME TypeInv,
         \/ Close \/ Toggle \/ Answer \/ ExtraContext \/ Confirm
         \/ Shown \/ AnyConfirmed \/ Failed
  PROVE  TypeInv'
<1>1. /\ 0 \in Post /\ Len(rows) \in Nat /\ (open => mount \in Mounts)
      /\ view.last \in Post /\ view.draft \in Post
  BY DialogAssumption, LenProperties DEF TypeInv, DbTyped, DialogTyped, Mounts, Post, View
<1>2. CASE Close
  <2>1. RestTyped'
    BY <1>2 DEF Close, TypeInv, RestTyped
  <2>2. QED BY <1>2, <2>1, UnmountTyped DEF Close, agent
<1>3. CASE AnyConfirmed
  <2>1. PICK m \in Mounts : Confirmed(m)
    BY <1>3 DEF AnyConfirmed, Mounts
  <2>2. RestTyped' /\ UNCHANGED <<db, agent, asks, mount>>
    BY <2>1 DEF Confirmed, TypeInv, RestTyped, history
  <2>3. CASE open /\ Unmount({m})
    BY <2>2, <2>3, UnmountTyped
  <2>4. CASE UNCHANGED dialog /\ call' = [call EXCEPT ![m] = NoCall]
    <3>1. DialogTyped'
      BY <2>2, <2>4, DialogStays DEF db
    <3>2. Becomes(m, NoCall) /\ CallTyped(NoCall, Len(rows), newest) /\ ~Unsent(NoCall)
      BY <1>1, <2>4, NoCallTyped DEF Becomes, Unsent, NoCall
    <3>3. QED BY <2>2, <3>1, <3>2, OneCall
  <2>5. QED BY <2>1, <2>3, <2>4 DEF Confirmed, dialog
<1>4. CASE Toggle
  <2>1. RestTyped' /\ DialogTyped' /\ UNCHANGED <<db, agent, asks, call>>
    BY <1>4 DEF Toggle, TypeInv, RestTyped, DialogTyped, db, history
  <2>2. QED BY <2>1, NoCallChanges
<1>5. ASSUME Ready, view.last # 0 \/ view.draft # 0
      PROVE  open /\ newest # 0
  BY <1>5 DEF Ready, TypeInv, DialogTyped, Blank
<1>6. CASE Answer
  <2>1. /\ open /\ newest # 0 /\ Ask("answer", view.last) /\ waitFor' = 0
        /\ asks' = asks + 1 /\ asks' \in 0..MaxAsks
    BY <1>5, <1>6, DialogAssumption DEF Answer, Question, TypeInv, AgentTyped
  <2>2. QED BY <1>1, <2>1, AskTyped
<1>7. CASE ExtraContext
  <2>1. /\ open /\ newest # 0 /\ Ask("context", view.last) /\ waitFor' = 0
        /\ asks' = asks + 1 /\ asks' \in 0..MaxAsks
    BY <1>5, <1>7, DialogAssumption DEF ExtraContext, TypeInv, AgentTyped
  <2>2. QED BY <1>1, <2>1, AskTyped
<1>8. CASE Confirm
  <2>1. /\ open /\ newest # 0 /\ Ask("confirm", view.draft) /\ waitFor' \in Post
        /\ asks' >= asks /\ asks' \in 0..MaxAsks
    BY <1>5, <1>8, DialogAssumption DEF Confirm, TypeInv, AgentTyped, DialogTyped
  <2>2. QED BY <1>1, <2>1, AskTyped
<1>9. ASSUME open PROVE  /\ CallTyped(call[mount], Len(rows), newest)
                         /\ call[mount].reply \in View /\ call[mount].shown \in Post
                         /\ newest = 0 => Blank(call[mount].reply)
                         /\ CallTyped(NoCall, Len(rows), newest) /\ ~Unsent(NoCall)
  <2>1. CallTyped(call[mount], Len(rows), newest)
    BY <1>1, <1>9 DEF TypeInv, CallsTyped
  <2>2. CallTyped(NoCall, Len(rows), newest) /\ ~Unsent(NoCall)
    BY <1>1, NoCallTyped DEF Unsent, NoCall
  <2>3. QED BY <2>1, <2>2 DEF CallTyped, Request
<1>10. CASE Shown
  <2>1. /\ open /\ Becomes(mount, NoCall)
        /\ UNCHANGED <<rows, newest, version, board, agent, mount, open, active, polls, asks,
                       faults, lost>>
        /\ spoiled' = (spoiled \/ Overtaken(call[mount].reply))
    BY <1>10 DEF Shown, Becomes, db
  <2>2. view' = call[mount].reply /\ waitFor' \in Post
    <3>1. waitFor \in Post
      BY DEF TypeInv, DialogTyped
    <3>2. QED BY <1>1, <1>9, <1>10, <3>1 DEF Shown, Show
  <2>3. DialogTyped' /\ RestTyped'
    BY <1>9, <2>1, <2>2 DEF TypeInv, DialogTyped, RestTyped
  <2>4. QED BY <1>1, <1>9, <2>1, <2>3, OneCall DEF db
<1>11. CASE Failed
  <2>1. open /\ Becomes(mount, NoCall) /\ UNCHANGED <<db, agent, dialog, asks, faults, history>>
    BY <1>11 DEF Failed, Becomes
  <2>2. DialogTyped' /\ RestTyped'
    BY <2>1, DialogStays DEF TypeInv, RestTyped, history, db
  <2>3. QED BY <1>1, <1>9, <2>1, <2>2, OneCall
<1>12. QED BY <1>2, <1>3, <1>4, <1>6, <1>7, <1>8, <1>10, <1>11

LEMMA PollTyped ==
  ASSUME TypeInv, Poll
  PROVE  TypeInv'
<1>1. /\ 0 \in Post /\ polls.sent \in 0..MaxPolls /\ polls.back \subseteq View
      /\ IsFiniteSet(polls.back) /\ Cardinality(polls.back) \in Nat
  BY DialogAssumption, FS_CardinalityType DEF TypeInv, DialogTyped, Post
<1>2. CASE SendPoll
  <2>1. polls' = [sent |-> polls.sent + 1, back |-> polls.back] /\ polls.sent + 1 <= MaxPolls
    BY <1>1, <1>2, DialogAssumption DEF SendPoll, TypeInv, DialogTyped
  <2>2. RestTyped' /\ DialogTyped' /\ UNCHANGED <<db, agent, asks, call>>
    BY <1>1, <1>2, <2>1, DialogAssumption
       DEF SendPoll, TypeInv, RestTyped, DialogTyped, db, history
  <2>3. QED BY <2>2, NoCallChanges
<1>3. CASE ReadPoll
  <2> DEFINE seen == IF newest = 0 THEN {} ELSE {Seen(newest)}
  <2>1. IsFiniteSet(seen) /\ seen \subseteq View
    <3>1. ASSUME newest # 0 PROVE Seen(newest) \in View
      BY <3>1, NewestRow, SeenTyped DEF Seen, TypeInv, DbTyped
    <3>2. QED BY <3>1, FS_EmptySet, FS_Singleton
  <2>2. polls' = [sent |-> polls.sent - 1, back |-> polls.back \cup seen] /\ polls.sent > 0
    BY <1>3 DEF ReadPoll
  <2>3. IsFiniteSet(polls.back \cup seen) /\ polls.back \cup seen \subseteq View
    <3> HIDE DEF seen
    <3>1. QED BY <1>1, <2>1, FS_Union
  <2>4. newest = 0 => seen = {}
    OBVIOUS
  <2>5. RestTyped' /\ DialogTyped' /\ UNCHANGED <<db, agent, asks, call>>
    <3> HIDE DEF seen
    <3>1. /\ UNCHANGED <<newest, mount, open, active, view, waitFor>>
          /\ UNCHANGED <<db, agent, asks, call, faults, spoiled, lost>>
      BY <1>3 DEF ReadPoll, db, history
    <3>2. polls' \in [sent : 0..MaxPolls, back : SUBSET View] /\ IsFiniteSet(polls'.back)
      BY <1>1, <2>2, <2>3, DialogAssumption
    <3>3. newest = 0 => polls'.back = {}
      BY <2>2, <2>4 DEF TypeInv, DialogTyped
    <3>4. DialogTyped'
      BY <3>1, <3>2, <3>3 DEF TypeInv, DialogTyped
    <3>5. QED BY <3>1, <3>4 DEF TypeInv, RestTyped
  <2>6. QED BY <2>5, NoCallChanges
<1>4. CASE PollArrives
  <2>1. PICK v \in polls.back :
          /\ polls' = [polls EXCEPT !.back = @ \ {v}]
          /\ Show(v, waitFor) /\ spoiled' = (spoiled \/ Overtaken(v))
    BY <1>4 DEF PollArrives
  <2>2. view' = v /\ v \in View /\ waitFor' \in Post
    BY <1>1, <2>1, ShowTyped DEF TypeInv, DialogTyped
  <2>3. polls' = [sent |-> polls.sent, back |-> polls.back \ {v}]
        /\ IsFiniteSet(polls.back \ {v})
    BY <1>1, <2>1, FS_RemoveElement DEF TypeInv, DialogTyped
  <2>4. newest # 0
    BY <2>1 DEF TypeInv, DialogTyped
  <2>5. RestTyped' /\ DialogTyped' /\ UNCHANGED <<db, agent, asks, call>>
    BY <1>1, <1>4, <2>1, <2>2, <2>3, <2>4
       DEF PollArrives, TypeInv, RestTyped, DialogTyped, db
  <2>6. QED BY <2>5, NoCallChanges
<1>5. QED BY <1>2, <1>3, <1>4 DEF Poll

\* The answer of a handler that has written nothing.
LEMMA ReturnUnsaved ==
  ASSUME TypeInv, UNCHANGED <<db, dialog, posts, final, unasked, asks>>, RestTyped',
         NEW m \in Mounts, call[m].kind # "none",
         NEW pc \in {"done", "failed"}, NEW v \in View, newest = 0 => Blank(v),
         Return(m, pc, v),
         owed' = owed \/ (owed' = owed + 1 /\ Unsent(call[m]))
  PROVE  TypeInv'
<1>1. Len(rows) \in Nat /\ Len(rows) <= Len(rows) /\ DOMAIN call = Mounts
  BY LenProperties DEF TypeInv, DbTyped, CallsTyped
<1>2. PICK c : Becomes(m, c) /\ CallTyped(c, Len(rows), newest) /\ ~Unsent(c)
  <2>1. /\ Becomes(m, Replied(m, pc, v)) /\ CallTyped(Replied(m, pc, v), Len(rows), newest)
        /\ ~Unsent(Replied(m, pc, v))
    BY ONLY <1>1, ReturnTyped, TypeInv, m \in Mounts, call[m].kind # "none",
            pc \in {"done", "failed"}, v \in View, newest = 0 => Blank(v), Return(m, pc, v)
  <2>2. QED BY <2>1
<1>3. CallsTyped'
  BY <1>1, <1>2, CallsStayTyped DEF db
<1>4. AgentTyped'
  <2>1. /\ Cardinality(Asking') <= Cardinality(Asking)
        /\ Unsent(call[m]) => Cardinality(Asking') <= Cardinality(Asking) - 1
        /\ Cardinality(Asking') \in Nat /\ Cardinality(Asking) \in Nat
    BY <1>1, <1>2, AskingChanges, MountsFinite DEF Asking
  <2>2. QED BY <2>1, DialogAssumption DEF TypeInv, AgentTyped
<1>5. DialogTyped'
  BY DialogStays DEF db
<1>6. DbTyped'
  BY DEF TypeInv, DbTyped, db
<1>7. QED BY <1>3, <1>4, <1>5, <1>6 DEF TypeInv

LEMMA LoadTyped ==
  ASSUME TypeInv, NEW m \in Mounts, LoadStart(m) \/ LoadAnswer(m) \/ LoadConfirm(m)
  PROVE  TypeInv'
<1>1. /\ Len(rows) \in Nat /\ 0 \in Post /\ version \in Nat
      /\ CallTyped(call[m], Len(rows), newest) /\ DOMAIN call = Mounts
      /\ newest \in 0..Len(rows)
  BY LenProperties, DialogAssumption DEF TypeInv, DbTyped, CallsTyped, Post
<1>2. UNCHANGED <<db, agent, dialog, asks, faults, history>>
  BY DEF LoadStart, LoadAnswer, LoadConfirm, Quiet
<1>3. DialogTyped' /\ RestTyped'
  BY <1>2, DialogStays DEF TypeInv, RestTyped, history, db
<1>4. CASE LoadStart(m) /\ Becomes(m, [call[m] EXCEPT !.pc = "loaded"])
  <2> DEFINE c == [call[m] EXCEPT !.pc = "loaded"]
  <2>1. Unsent(call[m])
    BY <1>4 DEF LoadStart, At, Unsent
  <2>2. CallTyped(c, Len(rows), newest)
    BY <1>1, <1>4 DEF CallTyped, Request, LoadStart, At
  <2> HIDE DEF c
  <2>3. QED BY <1>2, <1>3, <1>4, <2>1, <2>2, OneCall DEF c
<1>5. ASSUME LoadStart(m), NEW r \in Ongoing,
             Becomes(m, [call[m] EXCEPT !.row = r, !.pc = "loaded"])
      PROVE  TypeInv'
  <2> DEFINE c == [call[m] EXCEPT !.row = r, !.pc = "loaded"]
  <2>1. Unsent(call[m])
    BY <1>5 DEF LoadStart, At, Unsent
  <2>2. r \in 1..Len(rows) /\ newest # 0
    BY RowTyped DEF Ongoing
  <2>3. CallTyped(c, Len(rows), newest)
    <3>1. call[m].kind = "start" /\ call[m] \in Request(Len(rows)) /\ r \in 0..Len(rows)
      BY <1>1, <1>5, <2>2 DEF CallTyped, LoadStart, At
    <3>2. c \in Request(Len(rows)) /\ c.kind = "start"
      BY <3>1 DEF Request
    <3>3. QED BY <2>2, <3>2 DEF CallTyped
  <2> HIDE DEF c
  <2>4. QED BY <1>2, <1>3, <1>5, <2>1, <2>3, OneCall DEF c
<1>6. ASSUME LoadStart(m), NEW r \in Ongoing, Return(m, "done", Seen(r))
      PROVE  TypeInv'
  <2>1. Seen(r) \in View /\ newest # 0
    BY <1>1, RowTyped, SeenTyped DEF Ongoing, Seen
  <2>2. call[m].kind # "none" /\ UNCHANGED <<posts, final, owed, unasked>>
    BY <1>2, <1>6 DEF LoadStart, At, agent
  <2>3. QED BY <1>2, <1>3, <1>6, <2>1, <2>2, ReturnUnsaved
<1>7. CASE LoadStart(m)
  <2>1. CASE call' = [call EXCEPT ![m].pc = "loaded"]
    BY <1>4, <1>7, <2>1 DEF Becomes
  <2>2. ASSUME NEW r \in Ongoing,
               IF rows[r].byUser THEN call' = [call EXCEPT ![m].row = r, ![m].pc = "loaded"]
                                 ELSE Return(m, "done", Seen(r))
        PROVE  TypeInv'
    <3>1. CASE call' = [call EXCEPT ![m].row = r, ![m].pc = "loaded"]
      <4>1. Becomes(m, [call[m] EXCEPT !.row = r, !.pc = "loaded"])
        BY <1>1, <3>1 DEF Becomes
      <4>2. QED BY <1>5, <1>7, <4>1
    <3>2. QED BY <1>6, <1>7, <2>2, <3>1
  <2>3. QED BY <1>7, <2>1, <2>2 DEF LoadStart
<1>8. ASSUME newest # 0
      PROVE  rows[newest].last \in Post /\ rows[newest].draft \in Post
  BY <1>8, NewestRow, RowTyped
<1>9. CASE LoadAnswer(m)
  <2> DEFINE c == [call[m] EXCEPT !.pc = "loaded", !.row = newest, !.held = rows[newest].last]
  <2>1. call[m].kind \in {"answer", "context"} /\ call[m].pc = "asked" /\ Becomes(m, c)
    BY <1>1, <1>9 DEF LoadAnswer, At, Becomes
  <2>2. Unsent(call[m]) /\ newest # 0
    BY <1>1, <2>1 DEF Unsent, CallTyped
  <2>3. CallTyped(c, Len(rows), newest)
    BY <1>1, <1>8, <2>1, <2>2 DEF CallTyped, Request
  <2> HIDE DEF c
  <2>4. QED BY <1>2, <1>3, <2>1, <2>2, <2>3, OneCall
<1>10. CASE LoadConfirm(m)
  <2> DEFINE c == [call[m] EXCEPT !.pc = "sent", !.row = newest, !.held = rows[newest].draft]
  <2>1. call[m].kind = "confirm" /\ call[m].pc = "asked" /\ Becomes(m, c)
    BY <1>1, <1>10 DEF LoadConfirm, At, Becomes
  <2>2. newest # 0
    BY <1>1, <2>1 DEF CallTyped
  <2>3. CallTyped(c, Len(rows), newest) /\ ~Unsent(c)
    BY <1>1, <1>8, <2>1, <2>2 DEF CallTyped, Request, Unsent
  <2> HIDE DEF c
  <2>4. QED BY <1>2, <1>3, <2>1, <2>3, OneCall
<1>11. QED BY <1>7, <1>9, <1>10

LEMMA DispatchTyped ==
  ASSUME TypeInv, NEW m \in Mounts, Dispatch(m) \/ DispatchFails(m) \/ CallFails(m)
  PROVE  TypeInv'
<1>1. /\ Len(rows) \in Nat /\ DOMAIN call = Mounts
      /\ CallTyped(call[m], Len(rows), newest)
  BY LenProperties DEF TypeInv, DbTyped, CallsTyped
<1>2. UNCHANGED <<db, dialog, asks, posts, final, unasked>>
  BY DEF Dispatch, DispatchFails, CallFails, Quiet, agent
<1>3. CASE Dispatch(m)
  <2> DEFINE c == [call[m] EXCEPT !.pc = "sent"]
  <2>1. /\ Becomes(m, c) /\ Unsent(call[m]) /\ owed' = owed + 1
        /\ UNCHANGED <<faults, spoiled, lost>>
    BY <1>3 DEF Dispatch, At, Becomes, Unsent, history
  <2>2. CallTyped(c, Len(rows), newest) /\ ~Unsent(c)
    <3>1. call[m].kind \in {"start", "answer", "context"} /\ call[m].pc = "loaded"
      BY <1>3 DEF Dispatch, At
    <3>2. QED BY <1>1, <3>1 DEF CallTyped, Request, Unsent
  <2> HIDE DEF c
  <2>3. CallsTyped'
    BY <1>1, <1>2, <2>1, <2>2, CallsStayTyped DEF db
  <2>4. AgentTyped'
    <3>1. /\ Cardinality(Asking') <= Cardinality(Asking) - 1
          /\ Cardinality(Asking') \in Nat /\ Cardinality(Asking) \in Nat
      BY <1>1, <2>1, <2>2, AskingChanges, MountsFinite DEF Asking
    <3>2. QED BY <1>2, <2>1, <3>1, DialogAssumption DEF TypeInv, AgentTyped
  <2>5. DialogTyped' /\ RestTyped'
    BY <1>2, <2>1, DialogStays DEF TypeInv, RestTyped, db
  <2>6. DbTyped'
    BY <1>2 DEF TypeInv, DbTyped, db
  <2>7. QED BY <2>3, <2>4, <2>5, <2>6 DEF TypeInv
<1>4. NoView \in View /\ Blank(NoView)
  BY <1>1, NoCallTyped
<1>5. ASSUME DispatchFails(m) \/ CallFails(m)
      PROVE  RestTyped' /\ call[m].kind # "none" /\ Return(m, "failed", NoView)
  <2>1. faults \in 0..MaxFaults /\ faults < MaxFaults /\ faults' = faults + 1
    BY <1>5 DEF DispatchFails, CallFails, TypeInv, RestTyped
  <2>2. spoiled' = TRUE /\ lost' = TRUE /\ Return(m, "failed", NoView)
    BY <1>5 DEF DispatchFails, CallFails
  <2>3. RestTyped'
    BY <2>1, <2>2, DialogAssumption DEF RestTyped
  <2>4. call[m].kind # "none"
    BY <1>5 DEF DispatchFails, CallFails, At
  <2>5. QED BY <2>2, <2>3, <2>4
<1>6. CASE DispatchFails(m)
  <2>1. Unsent(call[m]) /\ owed' \in {owed, owed + 1}
    BY <1>6 DEF DispatchFails, At, Unsent
  <2>2. QED BY <1>2, <1>4, <1>5, <1>6, <2>1, ReturnUnsaved
<1>7. CASE CallFails(m)
  <2>1. owed' = owed
    BY <1>7 DEF CallFails, agent
  <2>2. QED BY <1>2, <1>4, <1>5, <1>7, <2>1, ReturnUnsaved
<1>8. QED BY <1>3, <1>6, <1>7

\* A handler writes a session and answers.
LEMMA SaveTyped ==
  ASSUME TypeInv, UNCHANGED <<agent, dialog, asks, faults, history>>,
         NEW k \in Nat, k = Len(rows'), Len(rows) <= k, rows' \in Seq(Row),
         newest' \in 1..k, version' \in Nat, board' \in [goal : Post, lead : Post],
         \A r \in DOMAIN rows' : rows'[r].status = "completed" => rows'[r].draft \in final,
         NEW m \in Mounts, call[m].kind # "none", NEW v \in View, Return(m, "done", v)
  PROVE  TypeInv'
<1>1. Len(rows) \in Nat /\ DOMAIN call = Mounts /\ newest' # 0 /\ newest' \in 0..k
  BY LenProperties DEF TypeInv, DbTyped, CallsTyped
<1>2. PICK c : Becomes(m, c) /\ CallTyped(c, k, newest') /\ ~Unsent(c)
  <2>1. "done" \in {"done", "failed"} /\ (newest' = 0 => newest = 0) /\ (newest' = 0 => Blank(v))
    BY <1>1
  <2>2. /\ Becomes(m, Replied(m, "done", v)) /\ CallTyped(Replied(m, "done", v), k, newest')
        /\ ~Unsent(Replied(m, "done", v))
    BY ONLY <2>1, ReturnTyped, TypeInv, k \in Nat, Len(rows) <= k, m \in Mounts,
            call[m].kind # "none", v \in View, Return(m, "done", v)
  <2>3. QED BY <2>2
<1>3. CallsTyped'
  BY <1>1, <1>2, CallsStayTyped
<1>4. AgentTyped'
  <2>1. /\ Cardinality(Asking') <= Cardinality(Asking)
        /\ Cardinality(Asking') \in Nat /\ Cardinality(Asking) \in Nat
    BY <1>1, <1>2, AskingChanges, MountsFinite DEF Asking
  <2>2. QED BY <2>1, DialogAssumption DEF TypeInv, AgentTyped, agent
<1>5. DialogTyped' /\ RestTyped'
  BY <1>1, DialogStays DEF TypeInv, RestTyped, history
<1>6. DbTyped'
  BY <1>1 DEF TypeInv, DbTyped, agent
<1>7. QED BY <1>3, <1>4, <1>5, <1>6 DEF TypeInv

\* The sessions when one of them is written.
LEMMA RowsStayTyped ==
  ASSUME TypeInv, NEW r \in DOMAIN rows, NEW row \in Row
  PROVE  /\ [rows EXCEPT ![r] = row] \in Seq(Row)
         /\ Len([rows EXCEPT ![r] = row]) = Len(rows)
         /\ DOMAIN [rows EXCEPT ![r] = row] = DOMAIN rows
         /\ \A q \in DOMAIN rows : [rows EXCEPT ![r] = row][q] = IF q = r THEN row ELSE rows[q]
<1>1. rows \in Seq(Row) /\ r \in 1..Len(rows)
  BY RowTyped DEF TypeInv, DbTyped
<1>2. QED BY <1>1, ExceptSeq, LenProperties

LEMMA CommitTyped ==
  ASSUME TypeInv, NEW m \in Mounts, CommitStart(m) \/ CommitAnswer(m) \/ CommitConfirm(m)
  PROVE  TypeInv'
<1>1. /\ Len(rows) \in Nat /\ Len(rows) <= Len(rows) /\ 0 \in Post /\ Tick \in Nat
      /\ CallTyped(call[m], Len(rows), newest) /\ DOMAIN rows = 1..Len(rows)
      /\ rows \in Seq(Row) /\ board \in [goal : Post, lead : Post]
      /\ \A r \in DOMAIN rows : rows[r].status = "completed" => rows[r].draft \in final
  BY LenProperties, DialogAssumption DEF TypeInv, DbTyped, CallsTyped, Post, Tick
<1>2. /\ UNCHANGED <<agent, dialog, asks, faults, history>> /\ call[m].kind # "none"
      /\ version' = Tick
  BY DEF CommitStart, CommitAnswer, CommitConfirm, Quiet, At, Saved
<1>3. /\ call[m].held \in Post /\ call[m].shown \in Post
      /\ call[m].row # 0 => call[m].row \in DOMAIN rows
  BY <1>1 DEF CallTyped, Request
<1>4. CASE CommitStart(m) /\ call[m].row # 0
  <2>1. /\ rows' = rows /\ newest' = call[m].row /\ board' = board
        /\ Return(m, "done", SeenAt(call[m].row, Tick))
    BY <1>4 DEF CommitStart, Saved
  <2>2. SeenAt(call[m].row, Tick) \in View
    BY <1>1, <1>3, <1>4, SeenTyped
  <2>3. QED BY <1>1, <1>2, <1>3, <1>4, <2>1, <2>2, SaveTyped
<1>5. CASE CommitStart(m) /\ call[m].row = 0
  <2> DEFINE row == [status |-> "active", last |-> 0, byUser |-> TRUE, draft |-> 0]
  <2>1. /\ rows' = Append(rows, row) /\ newest' = Len(rows') /\ board' = board
        /\ Return(m, "done", [NoView EXCEPT !.at = Tick])
    BY <1>5 DEF CommitStart, Saved
  <2>2. row \in Row /\ [NoView EXCEPT !.at = Tick] \in View
    BY <1>1 DEF Row, View, NoView
  <2>3. row.status # "completed"
    OBVIOUS
  <2> HIDE DEF row
  <2>4. /\ rows' \in Seq(Row) /\ Len(rows') = Len(rows) + 1 /\ DOMAIN rows' = 1..(Len(rows) + 1)
        /\ \A r \in 1..Len(rows) : rows'[r] = rows[r]
        /\ rows'[Len(rows) + 1] = row
    BY <1>1, <2>1, <2>2, AppendProperties, LenProperties
  <2>5. \A r \in DOMAIN rows' : rows'[r].status = "completed" => rows'[r].draft \in final
    <3>1. \A r \in DOMAIN rows' : r \in DOMAIN rows \/ r = Len(rows) + 1
      BY <1>1, <2>4
    <3>2. QED BY <1>1, <2>3, <2>4, <3>1
  <2>6. /\ Len(rows) + 1 \in Nat /\ Len(rows) <= Len(rows) + 1
        /\ newest' \in 1..(Len(rows) + 1)
    BY <1>1, <2>1, <2>4
  <2>7. QED BY <1>1, <1>2, <2>1, <2>2, <2>4, <2>5, <2>6, SaveTyped
<1>6. ASSUME call[m].row \in DOMAIN rows, NEW row \in Row,
             rows' = [rows EXCEPT ![call[m].row] = row], newest' = call[m].row,
             row.status = "completed" => row.draft \in final,
             board' \in [goal : Post, lead : Post],
             NEW v \in View, Return(m, "done", v)
      PROVE  TypeInv'
  <2>1. /\ rows' \in Seq(Row) /\ Len(rows') = Len(rows) /\ DOMAIN rows' = DOMAIN rows
        /\ \A q \in DOMAIN rows : rows'[q] = IF q = call[m].row THEN row ELSE rows[q]
    BY <1>6, RowsStayTyped
  <2>2. \A r \in DOMAIN rows' : rows'[r].status = "completed" => rows'[r].draft \in final
    BY <1>1, <1>6, <2>1
  <2>3. newest' \in 1..Len(rows)
    BY <1>1, <1>6
  <2>4. QED BY <1>1, <1>2, <1>6, <2>1, <2>2, <2>3, SaveTyped
<1>7. ASSUME call[m].row # 0
      PROVE  /\ rows[call[m].row] \in Row
             /\ rows[call[m].row].draft \in Post
             /\ rows[call[m].row].status = "completed" => rows[call[m].row].draft \in final
  BY <1>1, <1>3, <1>7, RowTyped
<1>8. CASE CommitAnswer(m)
  <2> DEFINE r == call[m].row
             row == [rows[r] EXCEPT !.last = call[m].held, !.byUser = TRUE]
             v == [SeenAt(r, Tick) EXCEPT !.last = call[m].held]
  <2>1. r # 0 /\ r \in DOMAIN rows
    BY <1>1, <1>3, <1>8 DEF CommitAnswer, At, CallTyped
  <2>2. /\ newest' = r /\ board' = board /\ Return(m, "done", v)
        /\ rows' = [rows EXCEPT ![r] = row]
    <3>1. rows' = [rows EXCEPT ![r].last = call[m].held, ![r].byUser = TRUE]
      BY <1>8 DEF CommitAnswer
    <3>2. rows' = [rows EXCEPT ![r] = row]
      BY <2>1, <3>1
    <3>3. QED BY <1>8, <3>2 DEF CommitAnswer, Saved
  <2>3. row \in Row /\ (row.status = "completed" => row.draft \in final)
    BY <1>3, <1>7, <2>1 DEF Row
  <2>4. v \in View
    BY <1>1, <1>3, <2>1, SeenTyped DEF View
  <2> HIDE DEF row, v
  <2>5. QED BY <1>1, <1>6, <2>1, <2>2, <2>3, <2>4
<1>9. CASE CommitConfirm(m)
  <2> DEFINE r == call[m].row
             row == [rows[r] EXCEPT !.status = "confirmed"]
  <2>1. r # 0 /\ r \in DOMAIN rows
    BY <1>1, <1>3, <1>9 DEF CommitConfirm, At, CallTyped
  <2>2. /\ newest' = r /\ board' \in [goal : Post, lead : Post] /\ Return(m, "done", NoView)
        /\ rows' = [rows EXCEPT ![r] = row]
    BY <1>3, <1>9 DEF CommitConfirm, Saved
  <2>3. row \in Row /\ row.status # "completed" /\ NoView \in View
    BY <1>1, <1>7, <2>1, NoCallTyped DEF Row
  <2> HIDE DEF row
  <2>4. QED BY <1>1, <1>6, <2>1, <2>2, <2>3
<1>10. QED BY <1>4, <1>5, <1>8, <1>9

LEMMA AgentTypedPosts ==
  ASSUME TypeInv, NEW complete \in BOOLEAN, NEW asked \in BOOLEAN,
         AgentPosts(complete, asked)
  PROVE  TypeInv'
<1>1. /\ Len(rows) \in Nat /\ 0 \in Post /\ DOMAIN rows = 1..Len(rows) /\ rows \in Seq(Row)
      /\ Tick \in Nat /\ final \subseteq 1..posts /\ posts \in Nat /\ owed \in Nat
  BY LenProperties, DialogAssumption DEF TypeInv, DbTyped, AgentTyped, Post, Tick
<1>2. /\ posts' = posts + 1
      /\ \/ owed > 0 /\ owed' = owed - 1 /\ unasked' = unasked
         \/ unasked < MaxUnasked /\ unasked' = unasked + 1 /\ owed' = owed
      /\ final' = IF complete THEN final \cup {posts'} ELSE final
      /\ UNCHANGED <<dialog, asks, newest, board, call, faults>>
  BY DEF AgentPosts, Quiet
<1>3. Asking' = Asking /\ Cardinality(Asking) \in Nat
  BY <1>2, MountsFinite DEF Asking
<1>4. posts' \in Post /\ final \subseteq final' /\ final' \subseteq 1..posts'
  <2>1. /\ asks \in Nat /\ asks <= MaxAsks /\ unasked \in Nat /\ unasked <= MaxUnasked
        /\ posts + owed + Cardinality(Asking) <= asks + unasked
    BY DialogAssumption DEF TypeInv, AgentTyped
  <2>2. posts + 1 <= MaxAsks + MaxUnasked
    BY <1>1, <1>2, <1>3, <2>1, DialogAssumption
  <2>3. posts' \in Post
    BY <1>1, <1>2, <2>2, DialogAssumption DEF Post
  <2>4. final \subseteq final'
    BY <1>2
  <2>5. posts' \in 1..posts' /\ 1..posts \subseteq 1..posts'
    BY <1>1, <1>2
  <2>6. final' \subseteq 1..posts'
    BY <1>1, <1>2, <2>5
  <2>7. QED BY ONLY <2>3, <2>4, <2>6
<1>5. AgentTyped'
  <2>1. /\ asks \in 0..MaxAsks /\ unasked \in 0..MaxUnasked
        /\ posts + owed + Cardinality(Asking) <= asks + unasked
    BY DEF TypeInv, AgentTyped
  <2>2. asks' = asks /\ posts' = posts + 1 /\ Cardinality(Asking') = Cardinality(Asking)
    BY <1>2, <1>3
  <2>3. /\ posts \in Nat /\ owed \in Nat /\ Cardinality(Asking) \in Nat
        /\ MaxUnasked \in Nat /\ MaxAsks \in Nat
    BY <1>1, <1>3, DialogAssumption
  <2>4. /\ unasked' \in 0..MaxUnasked /\ owed' \in Nat
        /\ posts' + owed' + Cardinality(Asking') <= asks' + unasked'
    <3>1. CASE owed > 0 /\ owed' = owed - 1 /\ unasked' = unasked
      BY ONLY <2>1, <2>2, <2>3, <3>1
    <3>2. CASE unasked < MaxUnasked /\ unasked' = unasked + 1 /\ owed' = owed
      BY ONLY <2>1, <2>2, <2>3, <3>2
    <3>3. QED BY <1>2, <3>1, <3>2
  <2>5. asks' \in 0..MaxAsks /\ posts' \in Nat /\ final' \subseteq 1..posts'
    BY <1>4, <2>1, <2>2, <2>3
  <2>6. QED BY ONLY <2>4, <2>5 DEF AgentTyped
<1>6. /\ rows' \in Seq(Row) /\ Len(rows') = Len(rows) /\ version' \in Nat
      /\ newest = 0 => rows' = rows
      /\ \A r \in DOMAIN rows' : rows'[r].status = "completed" => rows'[r].draft \in final'
  <2>1. CASE newest # 0 /\ rows[newest].status # "confirmed"
    <3> DEFINE row == Stored(rows[newest], complete, posts')
    <3>1. newest \in DOMAIN rows /\ rows[newest] \in Row
      BY <2>1, NewestRow, RowTyped
    <3>2. rows' = [rows EXCEPT ![newest] = row] /\ version' = Tick
      BY <2>1, <3>1 DEF AgentPosts
    <3>3. row \in Row
      BY <1>4, <3>1 DEF Stored, Row
    <3>4. row.status = "completed" => row.draft \in final'
      <4>1. rows[newest].status = "completed" => rows[newest].draft \in final
        BY <3>1 DEF TypeInv, DbTyped
      <4>2. complete => posts' \in final'
        BY <1>2
      <4>3. QED BY <1>4, <4>1, <4>2 DEF Stored
    <3> HIDE DEF row
    <3>5. /\ rows' \in Seq(Row) /\ Len(rows') = Len(rows) /\ DOMAIN rows' = DOMAIN rows
          /\ \A q \in DOMAIN rows : rows'[q] = IF q = newest THEN row ELSE rows[q]
      BY <3>1, <3>2, <3>3, RowsStayTyped
    <3>6. \A r \in DOMAIN rows : rows[r].status = "completed" => rows[r].draft \in final
      BY DEF TypeInv, DbTyped
    <3>7. QED BY <1>1, <1>4, <2>1, <3>2, <3>4, <3>5, <3>6
  <2>2. CASE ~(newest # 0 /\ rows[newest].status # "confirmed")
    <3>1. rows' = rows /\ version' = version
      BY <2>2 DEF AgentPosts
    <3>2. QED BY <1>1, <1>4, <3>1 DEF TypeInv, DbTyped
  <2>3. QED BY <2>1, <2>2
<1>7. DbTyped'
  BY <1>2, <1>6 DEF TypeInv, DbTyped
<1>8. CallsTyped'
  BY <1>2, <1>6 DEF TypeInv, CallsTyped
<1>9. DialogTyped'
  BY <1>2, DialogStays
<1>10. RestTyped'
  <2>1. Early \in BOOLEAN
    BY DEF Early
  <2>2. spoiled' \in BOOLEAN /\ lost' \in BOOLEAN
    BY <2>1 DEF AgentPosts, TypeInv, RestTyped, history
  <2>3. QED BY <1>2, <2>2 DEF TypeInv, RestTyped
<1>11. QED BY <1>5, <1>7, <1>8, <1>9, <1>10 DEF TypeInv

LEMMA TypeInvInit ==
  Init => TypeInv
<1> SUFFICES ASSUME Init PROVE TypeInv
  OBVIOUS
<1>1. 0 \in Post /\ NoView \in View /\ Blank(NoView) /\ IsFiniteSet({})
  BY NoCallTyped, DialogAssumption, FS_EmptySet DEF Post
<1>2. <<>> \in Seq(Row) /\ Len(<<>>) = 0 /\ DOMAIN <<>> = {}
  BY EmptySeq, LenProperties
<1>3. DbTyped
  BY <1>1, <1>2 DEF Init, DbTyped
<1>4. CallsTyped
  <2>1. call = [m \in Mounts |-> NoCall] /\ Len(rows) = 0 /\ newest = 0
    BY <1>2 DEF Init, Mounts
  <2>2. CallTyped(NoCall, 0, 0)
    BY NoCallTyped
  <2>3. QED BY <2>1, <2>2 DEF CallsTyped
<1>5. AgentTyped
  <2>1. Asking = {}
    BY DEF Asking, Init, Mounts, Unsent, NoCall
  <2>2. Cardinality(Asking) = 0
    BY <2>1, FS_EmptySet
  <2>3. QED BY <2>2, DialogAssumption DEF Init, AgentTyped
<1>6. DialogTyped
  <2>1. /\ mount = 0 /\ open = FALSE /\ active = TRUE /\ view = NoView /\ waitFor = 0
        /\ polls = [sent |-> 0, back |-> {}] /\ MaxMounts \in Nat /\ MaxPolls \in Nat
    BY DialogAssumption DEF Init
  <2>2. polls \in [sent : 0..MaxPolls, back : SUBSET View] /\ polls.back = {}
    BY <2>1
  <2>3. open \in BOOLEAN /\ active \in BOOLEAN /\ ~open
    BY ONLY <2>1, Zenon
  <2>4. mount \in 0..MaxMounts
    BY ONLY <2>1
  <2>5. QED BY ONLY <1>1, <2>1, <2>2, <2>3, <2>4 DEF DialogTyped
<1>7. RestTyped
  <2>1. faults = 0 /\ spoiled = FALSE /\ lost = FALSE /\ MaxFaults \in Nat
    BY DialogAssumption DEF Init
  <2>2. spoiled \in BOOLEAN /\ lost \in BOOLEAN
    BY ONLY <2>1, Zenon
  <2>3. faults \in 0..MaxFaults
    BY ONLY <2>1
  <2>4. QED BY ONLY <2>2, <2>3 DEF RestTyped
<1>8. QED BY <1>3, <1>4, <1>5, <1>6, <1>7 DEF TypeInv

LEMMA TypeInvStep ==
  TypeInv /\ [Next]_vars => TypeInv'
<1> SUFFICES ASSUME TypeInv, [Next]_vars PROVE TypeInv'
  OBVIOUS
<1>1. CASE Open
  BY <1>1, OpenTyped
<1>2. CASE \/ Close \/ Toggle \/ Answer \/ ExtraContext \/ Confirm
           \/ Shown \/ AnyConfirmed \/ Failed
  BY <1>2, DialogStepsTyped
<1>3. CASE Poll
  BY <1>3, PollTyped
<1>4. CASE Responds \/ PostsUnasked
  BY <1>4, AgentTypedPosts DEF Responds, PostsUnasked
<1>5. ASSUME NEW m \in 1..MaxMounts, Serve(m) \/ DispatchFails(m) \/ CallFails(m)
      PROVE  TypeInv'
  <2>1. m \in Mounts
    BY DEF Mounts
  <2>2. QED BY <1>5, <2>1, LoadTyped, DispatchTyped, CommitTyped DEF Serve
<1>6. CASE UNCHANGED vars
  <2>1. UNCHANGED <<db, agent, dialog, call, asks, faults, history>>
    BY <1>6 DEF vars
  <2>2. DialogTyped' /\ RestTyped'
    BY <2>1, DialogStays DEF TypeInv, RestTyped, history, db
  <2>3. QED BY <2>1, <2>2, NoCallChanges
<1>7. QED BY <1>1, <1>2, <1>3, <1>4, <1>5, <1>6 DEF Next

LEMMA TypeInvMeansTypeOK ==
  TypeInv => TypeOK
<1> SUFFICES ASSUME TypeInv PROVE TypeOK
  OBVIOUS
<1>1. posts \in Post /\ posts + owed <= asks + unasked
  <2>1. Cardinality(Asking) \in Nat
    BY MountsFinite DEF Asking
  <2>2. QED BY <2>1, DialogAssumption DEF TypeInv, AgentTyped, Post
<1>2. call \in [1..MaxMounts -> Request(Len(rows))]
  BY DEF TypeInv, CallsTyped, CallTyped, Mounts
<1>3. polls.sent \in 0..MaxPolls /\ polls.back \subseteq View
  BY DEF TypeInv, DialogTyped
<1>4. QED BY <1>1, <1>2, <1>3
          DEF TypeOK, TypeInv, DbTyped, AgentTyped, DialogTyped, RestTyped, Request

\* The types of sessions, requests and dialog hold in every reachable state: a
\* completed session has a draft the agent posted as final, and only what it posted
\* without having been asked makes its posts more than the messages it was sent,
\* whatever is lost or left by a component that is gone (agent_onboarding_update,
\* BoardOnboardingChat).
THEOREM DialogKeepsTypes == Spec => []TypeOK
<1>1. Spec => []TypeInv
  BY TypeInvInit, TypeInvStep, PTL DEF Spec
<1>2. QED BY <1>1, TypeInvMeansTypeOK, PTL

-----------------------------------------------------------------------------
(* While nothing is spoiled                                                 *)

Latest == rows[newest]
Mine == call[mount]
Agrees(v) == v.last = Latest.last /\ v.draft = Latest.draft
Fresh(v) == v.at = version /\ owed = 0
Awaited(v) == v.last = waitFor /\ (waitFor = 0 => v.draft = 0)

\* The newest session takes what the agent posts, at most one message.
Pending == newest # 0 /\ Latest.status # "confirmed" /\ owed \in {0, 1}

\* No other component has a request under way.
Alone ==
  /\ \A m \in Mounts : ~(open /\ m = mount) => call[m] = NoCall
  /\ ~open => owed = 0 /\ view = NoView /\ polls.back = {} /\ waitFor = 0

\* A message waits for the agent from its dispatch on, so the session shows the
\* last post before the handler commits, and again when the agent has responded.
Sending == open /\ Mine.pc = "sent"
DbSteady ==
  /\ Ongoing \subseteq {newest}
  /\ newest = 0 => posts = 0
  /\ newest # 0 => version # 0
  /\ newest # 0 /\ (owed = 0 \/ Sending) => Latest.last = posts /\ posts # 0 /\ ~Latest.byUser

\* What was read since the last write is what is stored.
ViewsSteady ==
  \A v \in polls.back \cup {view} :
    v.at <= version /\ (newest # 0 /\ v.at = version => Agrees(v))

\* What may still be shown is up to date, or keeps the buttons disabled.
IdleSteady ==
  /\ Pending
  /\ owed = 1 => Awaited(Latest)
  /\ waitFor # 0 => view.last = waitFor
  /\ \A v \in polls.back \cup {view} : v.at >= view.at => Awaited(v) \/ Fresh(v)
InHand ==
  Mine.pc \in {"asked", "loaded", "sent"} /\ owed = IF Mine.pc = "sent" THEN 1 ELSE 0
StartSteady ==
  InHand /\ Mine.row = 0 /\ (Mine.pc # "asked" => Ongoing = {})
AnswerSteady ==
  /\ InHand /\ Pending /\ Mine.shown = posts
  /\ Mine.pc # "asked" => Mine.row = newest /\ Mine.held = posts
ConfirmSteady ==
  /\ owed = 0 /\ Mine.pc \in {"asked", "sent", "done"}
  /\ Mine.pc # "done" => Mine.shown = Latest.draft
  /\ Mine.pc = "sent" => Mine.row = newest /\ Mine.held = Latest.draft
ReplySteady ==
  /\ Pending /\ Mine.reply.at <= version /\ (Mine.reply.at = version => Agrees(Mine.reply))
  /\ owed = 1 => Mine.reply.at = version
  /\ \A v \in polls.back : v.at >= Mine.reply.at =>
        Fresh(v) \/ (v.last = Mine.reply.last /\ v.draft = Mine.reply.draft)
  /\ IF Mine.kind = "start" THEN Blank(Mine.reply) \/ Fresh(Mine.reply)
                            ELSE Mine.reply.last = Mine.shown /\ Mine.shown # 0
CallSteady ==
  /\ Mine.kind # "none" => waitFor = 0
  /\ \/ Mine.kind = "none" /\ IdleSteady
     \/ Mine.kind = "start" /\ StartSteady
     \/ Mine.kind \in {"answer", "context"} /\ AnswerSteady
     \/ Mine.kind = "confirm" /\ ConfirmSteady
     \/ Mine.kind \in {"start", "answer", "context"} /\ Mine.pc = "done" /\ ReplySteady

Steady == Alone /\ DbSteady /\ ViewsSteady /\ (open => CallSteady)
InStep == ~spoiled => Steady /\ board.goal = board.lead

\* Only the dialog on the page has a request under way.
LEMMA OnlyMine ==
  ASSUME Alone, NEW m \in Mounts, call[m].kind # "none"
  PROVE  open /\ m = mount /\ Mine = call[m]
BY DEF Alone, Mine, NoCall

LEMMA SteadyTyped ==
  ASSUME TypeInv
  PROVE  /\ version \in Nat /\ posts \in Nat /\ owed \in Nat /\ newest \in Nat
         /\ view \in View /\ view.at \in Nat /\ NoView.at = 0 /\ Blank(NoView)
         /\ polls.back \subseteq View /\ (\A v \in polls.back : v.at \in Nat)
         /\ open => /\ mount \in Mounts /\ DOMAIN call = Mounts
                    /\ CallTyped(Mine, Len(rows), newest)
                    /\ Mine.reply \in View /\ Mine.reply.at \in Nat
<1>1. /\ version \in Nat /\ posts \in Nat /\ owed \in Nat /\ newest \in Nat
      /\ view \in View /\ polls.back \subseteq View
  BY LenProperties DEF TypeInv, DbTyped, AgentTyped, DialogTyped
<1>2. \A v \in View : v.at \in Nat
  BY DEF View
<1>3. NoView.at = 0 /\ Blank(NoView)
  BY DEF NoView, Blank
<1>4. open => mount \in Mounts
  BY DialogAssumption DEF TypeInv, DialogTyped, Mounts
<1>5. open => /\ DOMAIN call = Mounts /\ CallTyped(Mine, Len(rows), newest)
              /\ Mine.reply \in View
  BY <1>4 DEF TypeInv, CallsTyped, Mine, CallTyped, Request
<1>6. QED BY <1>1, <1>2, <1>3, <1>4, <1>5

\* The dialog goes while nothing is on its way.
LEMMA UnmountSteady ==
  ASSUME TypeInv, Steady, open, owed = 0, NEW ended, Mine = NoCall \/ mount \in ended,
         Unmount(ended), UNCHANGED <<db, agent, mount>>
  PROVE  Steady'
<1>1. /\ ~open' /\ view' = NoView /\ waitFor' = 0 /\ polls'.back = {}
      /\ UNCHANGED <<rows, newest, version, posts, owed>>
  BY DEF Unmount, db, agent
<1>2. mount \in Mounts /\ version \in Nat /\ NoView.at = 0
  BY SteadyTyped
<1>3. \A m \in Mounts : call'[m] = NoCall
  <2>1. \A m \in Mounts : call'[m] = NoCall \/ (call'[m] = call[m] /\ m \notin ended)
    BY DEF Unmount, Mounts
  <2>2. \A m \in Mounts : m # mount => call[m] = NoCall
    BY DEF Steady, Alone
  <2>3. QED BY <2>1, <2>2 DEF Mine
<1>4. Alone'
  BY <1>1, <1>3 DEF Alone
<1>5. DbSteady'
  BY <1>1 DEF Steady, DbSteady, Ongoing, Latest, Sending
<1>6. ViewsSteady'
  BY <1>1, <1>2 DEF Steady, DbSteady, ViewsSteady
<1>7. QED BY <1>1, <1>4, <1>5, <1>6 DEF Steady

LEMMA OpenSteady ==
  ASSUME TypeInv, Steady, Open
  PROVE  Steady'
<1>1. /\ ~open /\ open' /\ mount' \in Mounts /\ DOMAIN call = Mounts
      /\ UNCHANGED <<rows, newest, version, posts, owed, view, waitFor, polls>>
      /\ call' = [call EXCEPT ![mount'] = [NoCall EXCEPT !.kind = "start", !.pc = "asked"]]
  BY DialogAssumption DEF Open, db, agent, TypeInv, DialogTyped, CallsTyped, Mounts
<1>2. /\ \A m \in Mounts \ {mount'} : call'[m] = NoCall
      /\ Mine'.kind = "start" /\ Mine'.pc = "asked" /\ Mine'.row = 0
  BY <1>1 DEF Steady, Alone, Mine, NoCall
<1>3. owed = 0 /\ waitFor = 0
  BY <1>1 DEF Steady, Alone
<1>4. Alone'
  BY <1>1, <1>2 DEF Alone
<1>5. DbSteady' /\ ViewsSteady'
  BY <1>1, <1>2, <1>3
     DEF Steady, DbSteady, ViewsSteady, Ongoing, Latest, Sending, Agrees
<1>6. CallSteady'
  BY <1>1, <1>2, <1>3 DEF CallSteady, StartSteady, InHand
<1>7. QED BY <1>4, <1>5, <1>6 DEF Steady

\* The buttons are enabled only when the dialog shows what is stored.
LEMMA ReadyIsFresh ==
  ASSUME TypeInv, Steady, Ready, Question(view) \/ view.draft # 0
  PROVE  /\ open /\ Pending /\ waitFor = 0 /\ owed = 0
         /\ Latest.last = view.last /\ Latest.draft = view.draft /\ view.last = posts
<1>1. open /\ Mine.kind = "none" /\ (waitFor = 0 \/ view.last # waitFor)
  BY DEF Ready, Loading, IsAwaitingAgent, Mine
<1>2. IdleSteady
  BY <1>1 DEF Steady, CallSteady
<1>3. waitFor = 0
  BY <1>1, <1>2 DEF IdleSteady
<1>4. ~Awaited(view)
  BY <1>3 DEF Awaited, Question
<1>5. Fresh(view)
  BY <1>2, <1>4, SteadyTyped DEF IdleSteady
<1>6. newest # 0 /\ Agrees(view)
  BY <1>2, <1>5 DEF Steady, ViewsSteady, IdleSteady, Pending, Fresh
<1>7. QED BY <1>1, <1>2, <1>3, <1>5, <1>6
          DEF IdleSteady, Agrees, Fresh, Steady, DbSteady, Latest

LEMMA AskSteady ==
  ASSUME TypeInv, Steady, open, Answer \/ ExtraContext \/ Confirm
  PROVE  Steady'
<1>1. Ready /\ (Question(view) \/ view.draft # 0)
  BY DEF Answer, ExtraContext, Confirm
<1>2. /\ Pending /\ waitFor = 0 /\ owed = 0
      /\ Latest.last = view.last /\ Latest.draft = view.draft /\ view.last = posts
  BY <1>1, ReadyIsFresh
<1>3. PICK kind \in {"answer", "context", "confirm"}, shown \in {view.last, view.draft} :
        /\ Ask(kind, shown)
        /\ shown = IF kind = "confirm" THEN view.draft ELSE view.last
  BY DEF Answer, ExtraContext, Confirm
<1>4. waitFor' = 0
  BY <1>2 DEF Answer, ExtraContext, Confirm
<1>5. mount \in Mounts /\ DOMAIN call = Mounts
  BY SteadyTyped
<1>6. /\ \A m \in Mounts \ {mount} : call'[m] = call[m]
      /\ Mine'.kind = kind /\ Mine'.pc = "asked" /\ Mine'.shown = shown
      /\ UNCHANGED <<rows, newest, version, posts, owed, open, mount, view, polls>>
  BY <1>3, <1>5 DEF Ask, Mine, NoCall, db, agent
<1>7. Alone'
  BY <1>6 DEF Steady, Alone
<1>8. DbSteady' /\ ViewsSteady'
  BY <1>2, <1>6 DEF Steady, DbSteady, ViewsSteady, Ongoing, Latest, Sending, Agrees
<1>9. CallSteady'
  <2>1. CASE kind = "confirm"
    BY <1>2, <1>3, <1>4, <1>6, <2>1 DEF CallSteady, ConfirmSteady, Latest
  <2>2. CASE kind # "confirm"
    <3>1. AnswerSteady'
      BY <1>2, <1>3, <1>6, <2>2 DEF AnswerSteady, InHand, Pending, Latest
    <3>2. QED BY <1>4, <1>6, <2>2, <3>1 DEF CallSteady
  <2>3. QED BY <2>1, <2>2
<1>10. QED BY <1>7, <1>8, <1>9 DEF Steady

LEMMA ShownSteady ==
  ASSUME TypeInv, Steady, Shown, ~spoiled'
  PROVE  Steady'
<1>1. /\ open /\ Mine.pc = "done" /\ Mine.kind # "confirm" /\ ~Overtaken(Mine.reply)
      /\ call' = [call EXCEPT ![mount] = NoCall]
      /\ Show(Mine.reply, IF Mine.kind = "start" THEN waitFor ELSE Mine.shown)
      /\ UNCHANGED <<rows, newest, version, posts, owed, mount, open, polls>>
  BY DEF Shown, Mine, db, agent
<1>2. /\ mount \in Mounts /\ DOMAIN call = Mounts /\ version \in Nat /\ view.at \in Nat
      /\ Mine.reply.at \in Nat /\ CallTyped(Mine, Len(rows), newest)
      /\ \A v \in polls.back : v.at \in Nat
  BY <1>1, SteadyTyped
<1>3. Mine.reply.at >= view.at
  BY <1>1, <1>2 DEF Overtaken
<1>4. /\ \A m \in Mounts \ {mount} : call'[m] = call[m]
      /\ Mine' = NoCall /\ Mine'.kind = "none" /\ Mine'.pc = "idle"
  BY <1>1, <1>2 DEF Mine, NoCall
<1>5. Mine.kind # "none"
  BY <1>1, <1>2 DEF CallTyped, NoCall
<1>6. ReplySteady /\ waitFor = 0 /\ Mine.kind \in {"start", "answer", "context"}
  BY <1>1, <1>5 DEF Steady, CallSteady, StartSteady, AnswerSteady, InHand
<1>7. view' = Mine.reply /\ waitFor' = IF Mine.kind = "start" THEN 0 ELSE Mine.shown
  BY <1>1, <1>6 DEF Show, ReplySteady
<1>8. Alone'
  BY <1>1, <1>4 DEF Steady, Alone
<1>9. DbSteady'
  BY <1>1, <1>4 DEF Steady, DbSteady, Ongoing, Latest, Sending
<1>10. ViewsSteady'
  <2>1. \A v \in polls'.back \cup {view'} : v \in polls.back \/ v = Mine.reply
    BY <1>1, <1>7
  <2>2. QED BY <1>1, <1>6, <2>1 DEF Steady, ViewsSteady, ReplySteady, Agrees, Latest
<1>11. IdleSteady'
  <2>1. owed = 1 => Awaited(Latest)'
    BY <1>1, <1>6, <1>7 DEF ReplySteady, Awaited, Blank, Agrees, Latest, Fresh
  <2>2. waitFor' # 0 => view'.last = waitFor'
    BY <1>6, <1>7 DEF ReplySteady
  <2>3. ASSUME NEW v \in polls'.back \cup {view'}, v.at >= view'.at
        PROVE  (v.last = waitFor' /\ (waitFor' = 0 => v.draft = 0)) \/ Fresh(v)
    <3>1. CASE v = Mine.reply
      BY <1>6, <1>7, <3>1 DEF ReplySteady, Blank
    <3>2. CASE v \in polls.back
      <4>1. Fresh(v) \/ (v.last = Mine.reply.last /\ v.draft = Mine.reply.draft)
        BY <1>6, <1>7, <2>3, <3>2 DEF ReplySteady
      <4>2. CASE v.last = Mine.reply.last /\ v.draft = Mine.reply.draft
        <5>1. CASE Mine.kind = "start" /\ Fresh(Mine.reply)
          <6>1. v.at \in Nat /\ v.at <= version /\ v.at >= version /\ owed = 0
            BY <1>2, <1>7, <2>3, <3>2, <5>1 DEF Fresh, Steady, ViewsSteady
          <6>2. QED BY <1>2, <6>1 DEF Fresh
        <5>2. CASE ~(Mine.kind = "start" /\ Fresh(Mine.reply))
          BY <1>6, <1>7, <4>2, <5>2 DEF ReplySteady, Blank
        <5>3. QED BY <5>1, <5>2
      <4>3. QED BY <4>1, <4>2
    <3>3. QED BY <1>1, <1>7, <3>1, <3>2
  <2>4. Pending'
    BY <1>1, <1>6 DEF ReplySteady, Pending, Latest
  <2>5. QED BY <1>1, <2>1, <2>2, <2>3, <2>4 DEF IdleSteady, Awaited, Fresh
<1>12. CallSteady'
  BY <1>4, <1>11 DEF CallSteady
<1>13. QED BY <1>8, <1>9, <1>10, <1>12 DEF Steady

LEMMA DialogSteady ==
  ASSUME TypeInv, Steady, ~spoiled', Close \/ Toggle \/ AnyConfirmed \/ Failed
  PROVE  Steady'
<1>1. open /\ mount \in Mounts /\ CallTyped(Mine, Len(rows), newest)
  <2>1. CASE Close \/ Toggle \/ Failed
    BY <2>1, SteadyTyped DEF Close, Toggle, Failed
  <2>2. ASSUME NEW m \in 1..MaxMounts, Confirmed(m) PROVE open
    <3>1. m \in Mounts /\ call[m].kind # "none"
      BY <2>2 DEF Confirmed, Mounts
    <3>2. QED BY <3>1, OnlyMine DEF Steady
  <2>3. QED BY <2>1, <2>2, SteadyTyped DEF AnyConfirmed
<1>2. CASE Close
  <2>1. Ready /\ owed = 0
    BY <1>2 DEF Close, Busy
  <2>2. Mine = NoCall
    BY <1>1, <2>1 DEF Ready, Loading, Mine, CallTyped
  <2>3. QED BY <1>1, <1>2, <2>1, <2>2, UnmountSteady DEF Close
<1>3. CASE Toggle
  BY <1>3
     DEF Toggle, Steady, Alone, DbSteady, ViewsSteady, CallSteady, IdleSteady, StartSteady,
         AnswerSteady, ConfirmSteady, ReplySteady, InHand, Pending, Latest, Mine, Sending,
         Agrees, Fresh, Awaited, Ongoing, db, agent
<1>4. CASE AnyConfirmed
  <2>1. PICK m \in Mounts : Confirmed(m)
    BY <1>4 DEF AnyConfirmed, Mounts
  <2>2. m = mount /\ Mine.pc = "done" /\ Mine.kind = "confirm"
    <3>1. call[m].pc = "done" /\ call[m].kind = "confirm"
      BY <2>1 DEF Confirmed
    <3>2. m = mount /\ Mine = call[m]
      BY <3>1, OnlyMine DEF Steady
    <3>3. QED BY <3>1, <3>2
  <2>3. owed = 0
    BY <1>1, <2>2 DEF Steady, CallSteady, ConfirmSteady
  <2>4. Unmount({m}) /\ UNCHANGED <<db, agent, mount>>
    BY <1>1, <2>1, <2>2 DEF Confirmed
  <2>5. QED BY <1>1, <2>2, <2>3, <2>4, UnmountSteady
<1>5. CASE Failed
  <2>1. Mine.pc = "failed"
    BY <1>5 DEF Failed, Mine
  <2>2. Mine.kind # "none"
    BY <1>1, <2>1 DEF CallTyped, NoCall
  <2>3. FALSE
    BY <1>1, <2>1, <2>2
       DEF Steady, CallSteady, StartSteady, AnswerSteady, ConfirmSteady, InHand
  <2>4. QED BY <2>3
<1>6. QED BY <1>2, <1>3, <1>4, <1>5

-----------------------------------------------------------------------------
(* Polls *)

\* What is read now is fresh, or repeats what is awaited.
LEMMA ReadPollSteady ==
  ASSUME TypeInv, Steady, ReadPoll
  PROVE  Steady'
<1> DEFINE s == Seen(newest)
<1>1. /\ open /\ polls'.back = polls.back \cup IF newest = 0 THEN {} ELSE {s}
      /\ UNCHANGED <<rows, newest, version, posts, owed, mount, open, view, waitFor, call>>
  BY DEF ReadPoll, db, agent
<1>2. /\ version \in Nat /\ owed \in Nat /\ view.at \in Nat /\ Mine.reply.at \in Nat
  BY <1>1, SteadyTyped
<1>3. s.at = version /\ s.last = Latest.last /\ s.draft = Latest.draft
  BY DEF Seen, SeenAt, Latest
<1> HIDE DEF s
<1>4. \A v \in polls'.back : v \in polls.back \/ (v = s /\ newest # 0)
  BY <1>1
<1>5. Alone' /\ DbSteady'
  BY <1>1 DEF Steady, Alone, DbSteady, Ongoing, Latest, Sending, Mine
<1>6. ViewsSteady'
  BY <1>1, <1>2, <1>3, <1>4 DEF Steady, ViewsSteady, Agrees, Latest
<1>7. ASSUME IdleSteady PROVE IdleSteady'
  <2>1. Awaited(s) \/ Fresh(s)
    BY <1>3, <1>7 DEF IdleSteady, Pending, Awaited, Fresh
  <2>2. QED BY <1>1, <1>4, <1>7, <2>1 DEF IdleSteady, Awaited, Fresh, Pending, Latest
<1>8. ASSUME ReplySteady PROVE ReplySteady'
  <2>1. Fresh(s) \/ (s.last = Mine.reply.last /\ s.draft = Mine.reply.draft)
    BY <1>3, <1>8 DEF ReplySteady, Pending, Fresh, Agrees
  <2>2. QED
    BY <1>1, <1>4, <1>8, <2>1 DEF ReplySteady, Fresh, Pending, Latest, Agrees, Mine, Blank
<1>9. CallSteady'
  BY <1>1, <1>7, <1>8
     DEF Steady, CallSteady, StartSteady, AnswerSteady, ConfirmSteady, InHand, Pending, Latest,
         Mine, Ongoing
<1>10. QED BY <1>1, <1>5, <1>6, <1>9 DEF Steady

LEMMA PollSteady ==
  ASSUME TypeInv, Steady, Poll, ~spoiled'
  PROVE  Steady'
<1>1. CASE SendPoll
  <2>1. /\ polls'.back = polls.back
        /\ UNCHANGED <<rows, newest, version, posts, owed, mount, open, view, waitFor, call>>
    BY <1>1 DEF SendPoll, db, agent, TypeInv, DialogTyped
  <2>2. Alone' /\ DbSteady' /\ ViewsSteady'
    BY <2>1 DEF Steady, Alone, DbSteady, ViewsSteady, Ongoing, Latest, Sending, Mine, Agrees
  <2>3. open => CallSteady'
    BY <2>1
       DEF Steady, CallSteady, IdleSteady, StartSteady, AnswerSteady, ConfirmSteady, ReplySteady,
           InHand, Pending, Latest, Mine, Agrees, Fresh, Awaited, Ongoing, Blank
  <2>4. QED BY <2>1, <2>2, <2>3 DEF Steady
<1>2. CASE PollArrives
  <2>1. PICK v \in polls.back :
          /\ polls' = [polls EXCEPT !.back = @ \ {v}]
          /\ Show(v, waitFor) /\ spoiled' = (spoiled \/ Overtaken(v))
    BY <1>2 DEF PollArrives
  <2>2. /\ open /\ polls'.back = polls.back \ {v} /\ ~Overtaken(v)
        /\ UNCHANGED <<rows, newest, version, posts, owed, mount, open, call>>
    BY <1>2, <2>1 DEF PollArrives, db, agent, TypeInv, DialogTyped
  <2>3. /\ version \in Nat /\ owed \in Nat /\ view.at \in Nat
        /\ \A w \in polls.back : w.at \in Nat
    BY <2>2, SteadyTyped
  <2>4. v.at >= view.at /\ view' = v /\ waitFor' = IF v.last = waitFor THEN waitFor ELSE 0
    BY <2>1, <2>2, <2>3 DEF Overtaken, Show
  <2>5. Alone' /\ DbSteady'
    BY <2>2 DEF Steady, Alone, DbSteady, Ongoing, Latest, Sending, Mine
  <2>6. ViewsSteady'
    BY <2>2, <2>4 DEF Steady, ViewsSteady, Agrees, Latest
  <2>7. ASSUME IdleSteady PROVE IdleSteady'
    <3>1. CASE Fresh(v)
      <4>1. \A w \in polls'.back \cup {view'} : w.at >= view'.at => Fresh(w)
        BY <2>2, <2>3, <2>4, <3>1 DEF Steady, ViewsSteady, Fresh
      <4>2. QED BY <2>2, <2>4, <2>7, <3>1, <4>1 DEF IdleSteady, Fresh, Pending, Latest, Awaited
    <3>2. CASE Awaited(v)
      <4>1. waitFor' = waitFor /\ v.last = waitFor
        BY <2>4, <3>2 DEF Awaited
      <4>2. \A w \in polls'.back \cup {view'} : w.at >= view'.at => Awaited(w) \/ Fresh(w)
        BY <2>2, <2>3, <2>4, <2>7, <3>2 DEF IdleSteady
      <4>3. QED BY <2>2, <2>4, <2>7, <4>1, <4>2 DEF IdleSteady, Fresh, Pending, Latest, Awaited
    <3>3. QED BY <2>3, <2>4, <2>7, <3>1, <3>2 DEF IdleSteady
  <2>8. CallSteady'
    <3>1. waitFor = 0 => waitFor' = 0
      BY <2>4
    <3>2. ASSUME ReplySteady PROVE ReplySteady'
      BY <2>2, <3>2 DEF ReplySteady, Fresh, Pending, Latest, Agrees, Mine, Blank
    <3>3. QED
      BY <2>2, <2>7, <3>1, <3>2
         DEF Steady, CallSteady, StartSteady, AnswerSteady, ConfirmSteady, InHand, Pending,
             Latest, Mine, Ongoing
  <2>9. QED BY <2>2, <2>5, <2>6, <2>8 DEF Steady
<1>3. QED BY <1>1, <1>2, ReadPollSteady DEF Poll

-----------------------------------------------------------------------------
(* The handlers and the agent                                               *)

\* A handler moves on in the one request that is under way.
LEMMA MineChanges ==
  ASSUME TypeInv, Steady, NEW m \in Mounts, call[m].kind # "none",
         NEW c, Becomes(m, c), UNCHANGED dialog
  PROVE  /\ open /\ m = mount /\ Mine = call[m] /\ Mine' = c /\ Alone'
         /\ UNCHANGED <<mount, open, view, waitFor, polls>>
<1>1. open /\ m = mount /\ Mine = call[m]
  BY OnlyMine DEF Steady
<1>2. DOMAIN call = Mounts
  BY DEF TypeInv, CallsTyped
<1>3. UNCHANGED <<mount, open, view, waitFor, polls>>
  BY DEF dialog
<1>4. Mine' = c /\ \A q \in Mounts \ {m} : call'[q] = call[q]
  BY <1>1, <1>2, <1>3 DEF Becomes, Mine
<1>5. Alone'
  BY <1>1, <1>3, <1>4 DEF Steady, Alone
<1>6. QED BY <1>1, <1>3, <1>4, <1>5

\* The answer of a handler.
LEMMA MineReturns ==
  ASSUME TypeInv, Steady, NEW m \in Mounts, call[m].kind # "none",
         NEW pc, NEW v, Return(m, pc, v), UNCHANGED dialog
  PROVE  /\ open /\ m = mount /\ Mine = call[m] /\ Alone'
         /\ Mine'.kind = Mine.kind /\ Mine'.shown = Mine.shown /\ Mine'.pc = pc
         /\ Mine'.reply = v
         /\ UNCHANGED <<mount, open, view, waitFor, polls>>
<1>1. open /\ m = mount /\ Mine = call[m]
  BY OnlyMine DEF Steady
<1>2. Becomes(m, Replied(m, pc, v))
  BY DEF Return, Replied, Becomes
<1>3. /\ Mine' = Replied(m, pc, v) /\ Alone'
      /\ UNCHANGED <<mount, open, view, waitFor, polls>>
  BY <1>2, MineChanges
<1>4. QED BY <1>1, <1>3 DEF Replied, Heard, NoCall

\* The dialog waits for the agent in no other way while a request is under way.
LEMMA MineSteady ==
  ASSUME Steady, open, Mine.kind # "none"
  PROVE  /\ waitFor = 0
         /\ Mine.kind = "start" /\ Mine.pc # "done" => StartSteady
         /\ Mine.kind \in {"answer", "context"} /\ Mine.pc # "done" => AnswerSteady
         /\ Mine.kind = "confirm" => ConfirmSteady
BY DEF Steady, CallSteady

LEMMA LoadSteady ==
  ASSUME TypeInv, Steady, NEW m \in Mounts, LoadStart(m) \/ LoadAnswer(m) \/ LoadConfirm(m)
  PROVE  Steady'
<1>1. /\ call[m].kind # "none" /\ call[m].pc = "asked"
      /\ UNCHANGED <<rows, newest, version, posts, owed, dialog>>
  BY DEF LoadStart, LoadAnswer, LoadConfirm, At, Quiet, db, agent
<1>2. open /\ m = mount /\ Mine = call[m]
  BY <1>1, OnlyMine DEF Steady
<1>3. /\ version \in Nat /\ DOMAIN call = Mounts /\ CallTyped(Mine, Len(rows), newest)
      /\ \A v \in polls.back : v.at \in Nat
  BY <1>2, SteadyTyped
<1>4. owed = 0 /\ waitFor = 0
  BY <1>1, <1>2, <1>3, MineSteady
     DEF StartSteady, AnswerSteady, ConfirmSteady, InHand, CallTyped, Request
<1>5. newest # 0 => Latest.last = posts /\ posts # 0 /\ ~Latest.byUser
  BY <1>4 DEF Steady, DbSteady
<1>6. ASSUME UNCHANGED <<mount, open, view, waitFor, polls>>, Alone', CallSteady'
      PROVE  Steady'
  <2>1. DbSteady' /\ ViewsSteady'
    BY <1>1, <1>5, <1>6 DEF Steady, DbSteady, ViewsSteady, Ongoing, Latest, Agrees
  <2>2. QED BY <1>6, <2>1 DEF Steady
<1>7. CASE LoadStart(m)
  <2>1. StartSteady /\ Mine.kind = "start"
    BY <1>1, <1>2, <1>7, MineSteady DEF LoadStart, At
  <2>2. CASE Ongoing = {}
    <3>1. Becomes(m, [call[m] EXCEPT !.pc = "loaded"])
      BY <1>7, <2>2 DEF LoadStart, Becomes
    <3>2. /\ Mine' = [call[m] EXCEPT !.pc = "loaded"] /\ Alone'
          /\ UNCHANGED <<mount, open, view, waitFor, polls>>
      BY <1>1, <3>1, MineChanges
    <3>3. Mine'.kind = "start" /\ Mine'.pc = "loaded" /\ Mine'.row = 0
      BY <1>2, <1>3, <2>1, <3>2 DEF StartSteady, CallTyped, Request
    <3>4. CallSteady'
      BY <1>1, <1>4, <2>2, <3>2, <3>3 DEF CallSteady, StartSteady, InHand, Ongoing
    <3>5. QED BY <1>6, <3>2, <3>4
  <2>3. CASE Ongoing # {}
    <3>1. newest # 0 /\ newest \in DOMAIN rows /\ Latest.status = "active"
      BY <2>3, RowTyped DEF Steady, DbSteady, Ongoing, Latest
    <3>2. Return(m, "done", Seen(newest))
      BY <1>5, <1>7, <2>3, <3>1 DEF LoadStart, Steady, DbSteady, Latest
    <3>3. /\ Mine'.kind = "start" /\ Mine'.pc = "done" /\ Mine'.reply = Seen(newest) /\ Alone'
          /\ UNCHANGED <<mount, open, view, waitFor, polls>>
      BY <1>1, <1>2, <2>1, <3>2, MineReturns
    <3>4. /\ Mine'.reply.at = version /\ Mine'.reply.last = Latest.last
          /\ Mine'.reply.draft = Latest.draft
      BY <3>3 DEF Seen, SeenAt, Latest
    <3>5. Pending'
      BY <1>1, <1>4, <3>1 DEF Pending, Latest
    <3>6. \A v \in polls.back : v.at >= version => v.at = version
      BY <1>3 DEF Steady, ViewsSteady
    <3>7. ReplySteady'
      BY <1>1, <1>3, <1>4, <3>3, <3>4, <3>5, <3>6 DEF ReplySteady, Fresh, Agrees, Latest
    <3>8. CallSteady'
      BY <1>4, <3>3, <3>7 DEF CallSteady
    <3>9. QED BY <1>6, <3>3, <3>8
  <2>4. QED BY <2>2, <2>3
<1>8. CASE LoadAnswer(m)
  <2> DEFINE c == [call[m] EXCEPT !.pc = "loaded", !.row = newest, !.held = rows[newest].last]
  <2>1. Becomes(m, c) /\ Mine.kind \in {"answer", "context"}
    BY <1>2, <1>3, <1>8 DEF LoadAnswer, At, Becomes
  <2>2. Mine' = c /\ Alone' /\ UNCHANGED <<mount, open, view, waitFor, polls>>
    <3> HIDE DEF c
    <3>1. QED BY <1>1, <2>1, MineChanges
  <2>3. /\ Mine'.kind = Mine.kind /\ Mine'.pc = "loaded" /\ Mine'.row = newest
        /\ Mine'.held = Latest.last /\ Mine'.shown = Mine.shown
    BY <1>2, <1>3, <2>2 DEF CallTyped, Request, Latest
  <2>4. AnswerSteady
    BY <1>1, <1>2, <2>1, MineSteady
  <2>5. AnswerSteady'
    BY <1>1, <1>4, <1>5, <2>3, <2>4 DEF AnswerSteady, InHand, Pending, Latest
  <2>6. CallSteady'
    BY <1>4, <2>1, <2>2, <2>3, <2>5 DEF CallSteady
  <2>7. QED BY <1>6, <2>2, <2>6
<1>9. CASE LoadConfirm(m)
  <2> DEFINE c == [call[m] EXCEPT !.pc = "sent", !.row = newest, !.held = rows[newest].draft]
  <2>1. Becomes(m, c) /\ Mine.kind = "confirm"
    BY <1>2, <1>3, <1>9 DEF LoadConfirm, At, Becomes
  <2>2. Mine' = c /\ Alone' /\ UNCHANGED <<mount, open, view, waitFor, polls>>
    <3> HIDE DEF c
    <3>1. QED BY <1>1, <2>1, MineChanges
  <2>3. /\ Mine'.kind = "confirm" /\ Mine'.pc = "sent" /\ Mine'.row = newest
        /\ Mine'.held = Latest.draft /\ Mine'.shown = Mine.shown
    BY <1>2, <1>3, <2>1, <2>2 DEF CallTyped, Request, Latest
  <2>4. ConfirmSteady
    BY <1>1, <1>2, <2>1, MineSteady
  <2>5. CallSteady'
    BY <1>1, <1>2, <1>4, <2>2, <2>3, <2>4 DEF CallSteady, ConfirmSteady, Latest
  <2>6. QED BY <1>6, <2>2, <2>5
<1>10. QED BY <1>7, <1>8, <1>9

LEMMA DispatchSteady ==
  ASSUME TypeInv, Steady, NEW m \in Mounts, Dispatch(m)
  PROVE  Steady'
<1> DEFINE c == [call[m] EXCEPT !.pc = "sent"]
<1>1. /\ call[m].kind \in {"start", "answer", "context"} /\ call[m].pc = "loaded"
      /\ Becomes(m, c) /\ owed' = owed + 1
      /\ UNCHANGED <<rows, newest, version, posts, dialog>>
  BY DEF Dispatch, At, Quiet, Becomes, db
<1>2. /\ open /\ m = mount /\ Mine = call[m] /\ Mine' = c /\ Alone'
      /\ UNCHANGED <<mount, open, view, waitFor, polls>>
  <2> HIDE DEF c
  <2>1. call[m].kind # "none"
    BY <1>1
  <2>2. QED BY <1>1, <2>1, MineChanges
<1>3. CallTyped(Mine, Len(rows), newest)
  BY <1>2, SteadyTyped
<1>4. /\ Mine'.kind = Mine.kind /\ Mine'.pc = "sent" /\ Mine'.row = Mine.row
      /\ Mine'.held = Mine.held /\ Mine'.shown = Mine.shown
  BY <1>2, <1>3 DEF CallTyped, Request
<1>5. /\ waitFor = 0
      /\ Mine.kind = "start" => StartSteady
      /\ Mine.kind # "start" => AnswerSteady
  BY <1>1, <1>2, MineSteady
<1>6. owed = 0 /\ owed' = 1
  BY <1>1, <1>2, <1>5 DEF StartSteady, AnswerSteady, InHand
<1>7. DbSteady' /\ ViewsSteady'
  BY <1>1, <1>2, <1>6 DEF Steady, DbSteady, ViewsSteady, Ongoing, Latest, Agrees
<1>8. CASE Mine.kind = "start"
  <2>1. StartSteady'
    BY <1>1, <1>2, <1>4, <1>5, <1>6, <1>8 DEF StartSteady, InHand, Ongoing
  <2>2. QED BY <1>2, <1>4, <1>5, <1>7, <1>8, <2>1 DEF Steady, CallSteady
<1>9. CASE Mine.kind # "start"
  <2>1. AnswerSteady'
    BY <1>1, <1>2, <1>4, <1>5, <1>6, <1>9 DEF AnswerSteady, InHand, Pending, Latest
  <2>2. QED BY <1>1, <1>2, <1>4, <1>5, <1>7, <1>9, <2>1 DEF Steady, CallSteady
<1>10. QED BY <1>8, <1>9

LEMMA CommitStartSteady ==
  ASSUME TypeInv, Steady, ~spoiled, NEW m \in Mounts, CommitStart(m)
  PROVE  Steady' /\ board' = board
<1> DEFINE row == [status |-> "active", last |-> 0, byUser |-> TRUE, draft |-> 0]
           v == [NoView EXCEPT !.at = Tick]
<1>1. /\ call[m].kind = "start" /\ call[m].kind # "none" /\ call[m].pc = "sent"
      /\ UNCHANGED <<board, posts, owed, dialog>>
  BY DEF CommitStart, At, Quiet, agent
<1>2. open /\ m = mount /\ Mine = call[m]
  BY <1>1, OnlyMine DEF Steady
<1>3. StartSteady /\ waitFor = 0
  BY <1>1, <1>2, MineSteady
<1>4. owed = 1 /\ Ongoing = {} /\ call[m].row = 0
  BY <1>1, <1>2, <1>3 DEF StartSteady, InHand
<1>5. rows \in Seq(Row) /\ Len(rows) \in Nat /\ DOMAIN rows = 1..Len(rows) /\ row \in Row
  BY LenProperties, DialogAssumption DEF TypeInv, DbTyped, Row, Post
<1>6. /\ rows' = Append(rows, row) /\ newest' = Len(rows') /\ version' = version + 1
      /\ Return(m, "done", v)
  BY <1>4 DEF CommitStart, Saved, Tick
<1>7. v.at = version + 1 /\ Blank(v)
  BY DEF NoView, Tick, Blank
<1> HIDE DEF row, v
<1>8. /\ Mine'.kind = "start" /\ Mine'.pc = "done" /\ Mine'.reply = v /\ Alone'
      /\ UNCHANGED <<mount, open, view, waitFor, polls>>
  BY <1>1, <1>2, <1>6, MineReturns
<1>9. /\ newest' = Len(rows) + 1 /\ DOMAIN rows' = 1..(Len(rows) + 1)
      /\ \A r \in 1..Len(rows) : rows'[r] = rows[r]
      /\ Latest' = row
  BY <1>5, <1>6, AppendProperties, LenProperties DEF Latest
<1>10. version \in Nat /\ \A w \in polls.back \cup {view} : w.at \in Nat /\ w.at <= version
  BY SteadyTyped DEF Steady, ViewsSteady
<1>11. Ongoing' \subseteq {newest'}
  <2>1. \A r \in DOMAIN rows' : r = newest' \/ r \in DOMAIN rows
    BY <1>5, <1>9
  <2>2. QED BY <1>4, <1>5, <1>9, <2>1 DEF Ongoing
<1>12. DbSteady'
  BY <1>1, <1>4, <1>5, <1>6, <1>8, <1>9, <1>10, <1>11 DEF DbSteady, Sending
<1>13. ViewsSteady'
  BY <1>6, <1>8, <1>10 DEF ViewsSteady
<1>14. row.status = "active" /\ row.last = 0 /\ row.draft = 0
  BY DEF row
<1>15. ReplySteady'
  <2>1. Pending'
    BY <1>1, <1>4, <1>5, <1>9, <1>14 DEF Pending
  <2>2. Mine'.reply.at = version' /\ Blank(Mine'.reply)
    BY <1>6, <1>7, <1>8
  <2>3. \A w \in polls.back : ~(w.at >= version + 1)
    BY <1>10
  <2>4. version' <= version'
    BY <1>6, <1>10
  <2>5. Mine'.reply.last = Latest'.last /\ Mine'.reply.draft = Latest'.draft
    BY <1>7, <1>8, <1>9, <1>14 DEF Blank
  <2>6. QED BY <1>6, <1>7, <1>8, <2>1, <2>2, <2>3, <2>4, <2>5 DEF ReplySteady, Agrees
<1>16. CallSteady'
  BY <1>3, <1>8, <1>15 DEF CallSteady
<1>17. QED BY <1>1, <1>8, <1>12, <1>13, <1>16 DEF Steady

LEMMA CommitAnswerSteady ==
  ASSUME TypeInv, Steady, ~spoiled, NEW m \in Mounts, CommitAnswer(m)
  PROVE  Steady' /\ board' = board
<1> DEFINE r == call[m].row
           v == [SeenAt(r, Tick) EXCEPT !.last = call[m].held]
<1>1. /\ call[m].kind \in {"answer", "context"} /\ call[m].kind # "none" /\ call[m].pc = "sent"
      /\ UNCHANGED <<board, posts, owed, dialog>>
  BY DEF CommitAnswer, At, Quiet, agent
<1>2. open /\ m = mount /\ Mine = call[m]
  BY <1>1, OnlyMine DEF Steady
<1>3. AnswerSteady /\ waitFor = 0
  BY <1>1, <1>2, MineSteady
<1>4. /\ owed = 1 /\ Pending /\ r = newest /\ newest # 0
      /\ call[m].held = posts /\ call[m].shown = posts
  BY <1>1, <1>2, <1>3 DEF AnswerSteady, InHand, Pending
<1>5. posts # 0
  BY <1>1, <1>2, <1>4 DEF Steady, DbSteady, Sending
<1>6. newest \in DOMAIN rows
  BY <1>4, NewestRow
<1>7. /\ rows' = [rows EXCEPT ![r].last = call[m].held, ![r].byUser = TRUE]
      /\ newest' = newest /\ version' = version + 1 /\ Return(m, "done", v)
  BY <1>4 DEF CommitAnswer, Saved, Tick
<1>8. v.at = version + 1 /\ v.last = posts /\ v.draft = Latest.draft
  BY <1>4 DEF SeenAt, Tick, Latest
<1> HIDE DEF v
<1>9. /\ Mine'.kind = Mine.kind /\ Mine'.pc = "done" /\ Mine'.reply = v /\ Alone'
      /\ Mine'.shown = posts
      /\ UNCHANGED <<mount, open, view, waitFor, polls>>
  BY <1>1, <1>2, <1>4, <1>7, MineReturns
<1>10. /\ DOMAIN rows' = DOMAIN rows /\ \A q \in DOMAIN rows : rows'[q].status = rows[q].status
       /\ Latest'.status = Latest.status /\ Latest'.last = posts /\ Latest'.draft = Latest.draft
  <2>1. rows[newest] \in Row
    BY <1>6, RowTyped
  <2>2. rows[newest] = [status |-> rows[newest].status, last |-> rows[newest].last,
                        byUser |-> rows[newest].byUser, draft |-> rows[newest].draft]
    BY <2>1 DEF Row
  <2>3. /\ DOMAIN rows' = DOMAIN rows
        /\ \A q \in DOMAIN rows :
             rows'[q] = IF q = newest
                        THEN [rows[newest] EXCEPT !.last = posts, !.byUser = TRUE] ELSE rows[q]
    <3>1. rows' = [rows EXCEPT ![newest] = [@ EXCEPT !.last = posts, !.byUser = TRUE]]
      BY <1>4, <1>6, <1>7
    <3>2. QED BY <1>6, <3>1
  <2>4. /\ [rows[newest] EXCEPT !.last = posts, !.byUser = TRUE].status = rows[newest].status
        /\ [rows[newest] EXCEPT !.last = posts, !.byUser = TRUE].last = posts
        /\ [rows[newest] EXCEPT !.last = posts, !.byUser = TRUE].draft = rows[newest].draft
    BY <2>2
  <2>5. QED BY <1>6, <1>7, <2>3, <2>4 DEF Latest
<1>11. version \in Nat /\ \A w \in polls.back \cup {view} : w.at \in Nat /\ w.at <= version
  BY SteadyTyped DEF Steady, ViewsSteady
<1>12. DbSteady'
  BY <1>1, <1>4, <1>7, <1>9, <1>10, <1>11 DEF Steady, DbSteady, Sending, Ongoing
<1>13. ViewsSteady'
  BY <1>7, <1>9, <1>11 DEF ViewsSteady
<1>14. ReplySteady'
  <2>1. Pending'
    BY <1>1, <1>4, <1>7, <1>10 DEF Pending
  <2>2. /\ Mine'.reply.at = version' /\ version' <= version'
        /\ Mine'.reply.last = Latest'.last /\ Mine'.reply.draft = Latest'.draft
    BY <1>7, <1>8, <1>9, <1>10, <1>11
  <2>3. \A w \in polls.back : ~(w.at >= version + 1)
    BY <1>11
  <2>4. Mine'.reply.last = Mine'.shown /\ Mine'.shown # 0 /\ Mine'.kind # "start"
    BY <1>1, <1>2, <1>5, <1>8, <1>9
  <2>5. QED BY <1>7, <1>9, <2>1, <2>2, <2>3, <2>4 DEF ReplySteady, Agrees
<1>15. CallSteady'
  BY <1>1, <1>2, <1>3, <1>9, <1>14 DEF CallSteady
<1>16. QED BY <1>1, <1>9, <1>12, <1>13, <1>15 DEF Steady

LEMMA CommitConfirmSteady ==
  ASSUME TypeInv, Steady, ~spoiled, NEW m \in Mounts, CommitConfirm(m)
  PROVE  Steady' /\ board'.goal = board'.lead
<1>1. /\ call[m].kind = "confirm" /\ call[m].kind # "none" /\ call[m].pc = "sent"
      /\ board' = [goal |-> call[m].shown, lead |-> call[m].held]
      /\ UNCHANGED <<posts, owed, dialog>>
  BY DEF CommitConfirm, At, Quiet, agent
<1>2. open /\ m = mount /\ Mine = call[m]
  BY <1>1, OnlyMine DEF Steady
<1>3. ConfirmSteady /\ waitFor = 0
  BY <1>1, <1>2, MineSteady
<1>4. owed = 0 /\ call[m].row = newest /\ call[m].shown = call[m].held
  BY <1>1, <1>2, <1>3 DEF ConfirmSteady
<1>5. newest # 0 /\ newest \in DOMAIN rows
  <2>1. CallTyped(call[m], Len(rows), newest)
    BY DEF TypeInv, CallsTyped
  <2>2. newest # 0
    BY <1>1, <2>1 DEF CallTyped
  <2>3. QED BY <2>2, NewestRow
<1>6. /\ rows' = [rows EXCEPT ![newest].status = "confirmed"]
      /\ newest' = newest /\ version' = version + 1 /\ Return(m, "done", NoView)
  BY <1>4 DEF CommitConfirm, Saved, Tick
<1>7. /\ Mine'.kind = "confirm" /\ Mine'.pc = "done" /\ Alone'
      /\ UNCHANGED <<mount, open, view, waitFor, polls>>
  BY <1>1, <1>2, <1>6, MineReturns
<1>8. /\ DOMAIN rows' = DOMAIN rows
      /\ \A q \in DOMAIN rows : q # newest => rows'[q] = rows[q]
      /\ Latest'.last = Latest.last /\ Latest'.byUser = Latest.byUser
      /\ Latest'.status = "confirmed"
  <2>1. rows[newest] \in Row
    BY <1>5, RowTyped
  <2>2. rows[newest] = [status |-> rows[newest].status, last |-> rows[newest].last,
                        byUser |-> rows[newest].byUser, draft |-> rows[newest].draft]
    BY <2>1 DEF Row
  <2>3. /\ DOMAIN rows' = DOMAIN rows
        /\ \A q \in DOMAIN rows :
             rows'[q] = IF q = newest
                        THEN [rows[newest] EXCEPT !.status = "confirmed"] ELSE rows[q]
    BY <1>5, <1>6
  <2>4. QED BY <1>5, <1>6, <2>2, <2>3 DEF Latest
<1>9. version \in Nat /\ \A w \in polls.back \cup {view} : w.at \in Nat /\ w.at <= version
  BY SteadyTyped DEF Steady, ViewsSteady
<1>10. DbSteady'
  BY <1>1, <1>4, <1>5, <1>6, <1>7, <1>8, <1>9 DEF Steady, DbSteady, Ongoing
<1>11. ViewsSteady'
  BY <1>6, <1>7, <1>9 DEF ViewsSteady
<1>12. CallSteady'
  BY <1>1, <1>3, <1>4, <1>7 DEF CallSteady, ConfirmSteady
<1>13. QED BY <1>1, <1>4, <1>7, <1>10, <1>11, <1>12 DEF Steady

\* The agent posts what was asked after the handler has committed.
LEMMA AgentSteady ==
  ASSUME TypeInv, Steady, ~spoiled, ~spoiled', NEW complete \in BOOLEAN,
         NEW asked \in BOOLEAN, AgentPosts(complete, asked)
  PROVE  Steady' /\ board' = board
<1>1. /\ owed > 0 /\ owed' = owed - 1 /\ posts' = posts + 1 /\ ~Early
      /\ UNCHANGED <<newest, board, call, mount, open, view, waitFor, polls>>
  BY DEF AgentPosts, Quiet, dialog
<1>2. /\ version \in Nat /\ owed \in Nat /\ posts \in Nat
      /\ \A w \in polls.back \cup {view} : w.at \in Nat /\ w.at <= version
  BY SteadyTyped DEF Steady, ViewsSteady
<1>3. open /\ mount \in Mounts /\ CallTyped(Mine, Len(rows), newest) /\ Mine.reply.at \in Nat
  BY <1>1, <1>2, SteadyTyped DEF Steady, Alone
<1>4. ~(Mine.kind \in {"start", "answer", "context"} /\ Mine.pc = "sent")
  BY <1>1, <1>3 DEF Early, At, Mine, Mounts
<1>5. \/ Mine.kind = "none" /\ IdleSteady
      \/ Mine.kind \in {"start", "answer", "context"} /\ Mine.pc = "done" /\ ReplySteady
  <2>1. ~(Mine.kind = "start" /\ StartSteady)
    BY <1>1, <1>4 DEF StartSteady, InHand
  <2>2. ~(Mine.kind \in {"answer", "context"} /\ AnswerSteady)
    BY <1>1, <1>4 DEF AnswerSteady, InHand
  <2>3. ~(Mine.kind = "confirm" /\ ConfirmSteady)
    BY <1>1 DEF ConfirmSteady
  <2>4. QED BY <1>3, <2>1, <2>2, <2>3 DEF Steady, CallSteady
<1>6. Pending /\ owed = 1 /\ owed' = 0
  BY <1>1, <1>5 DEF IdleSteady, ReplySteady, Pending
<1>7. newest # 0 /\ Latest.status # "confirmed" /\ newest \in DOMAIN rows
  BY <1>6, NewestRow DEF Pending
<1>8. /\ rows' = [rows EXCEPT ![newest] = Stored(@, complete, posts')]
      /\ version' = version + 1
  BY <1>7 DEF AgentPosts, Latest, Tick
<1>9. /\ DOMAIN rows' = DOMAIN rows
      /\ \A q \in DOMAIN rows : q # newest => rows'[q] = rows[q]
      /\ Latest' = Stored(Latest, complete, posts')
  BY <1>1, <1>7, <1>8 DEF Latest
<1>10. Latest'.last = posts' /\ ~Latest'.byUser /\ Latest'.status # "confirmed"
  BY <1>7, <1>9 DEF Stored
<1>11. DbSteady'
  <2>1. Ongoing' \subseteq {newest'}
    BY <1>1, <1>9 DEF Steady, DbSteady, Ongoing
  <2>2. posts' # 0 /\ version' # 0
    BY <1>1, <1>2, <1>8
  <2>3. QED BY <1>1, <1>7, <1>10, <2>1, <2>2 DEF DbSteady
<1>12. ViewsSteady'
  BY <1>1, <1>2, <1>8 DEF ViewsSteady
<1>13. Alone'
  BY <1>1, <1>3 DEF Steady, Alone
<1>14. Pending'
  BY <1>1, <1>6, <1>7, <1>10 DEF Pending
<1>15. \A w : ~Fresh(w)
  BY <1>6 DEF Fresh
<1>16. ASSUME IdleSteady PROVE IdleSteady'
  BY <1>1, <1>6, <1>14, <1>15, <1>16 DEF IdleSteady, Awaited
<1>17. ASSUME ReplySteady PROVE ReplySteady'
  <2>1. Mine' = Mine
    BY <1>1 DEF Mine
  <2>2. Mine.reply.at <= version' /\ Mine.reply.at # version'
    BY <1>2, <1>3, <1>8, <1>17 DEF ReplySteady
  <2>3. QED BY <1>1, <1>6, <1>14, <1>15, <1>17, <2>1, <2>2 DEF ReplySteady
<1>18. CallSteady'
  <2>1. Mine' = Mine
    BY <1>1 DEF Mine
  <2>2. Mine.kind # "none" => waitFor = 0
    BY <1>3 DEF Steady, CallSteady
  <2>3. QED BY <1>1, <1>5, <1>16, <1>17, <2>1, <2>2 DEF CallSteady
<1>19. QED BY <1>1, <1>3, <1>11, <1>12, <1>13, <1>18 DEF Steady

LEMMA InStepInit ==
  Init => InStep
<1> SUFFICES ASSUME Init PROVE InStep
  OBVIOUS
<1>1. NoView.at = 0
  BY DEF NoView
<1>2. /\ ~open /\ rows = <<>> /\ newest = 0 /\ version = 0 /\ posts = 0 /\ owed = 0
      /\ view = NoView /\ waitFor = 0 /\ polls.back = {} /\ board.goal = board.lead
      /\ \A m \in Mounts : call[m] = NoCall
  BY DEF Init, Mounts
<1>3. Ongoing = {}
  BY <1>2, EmptySeq DEF Ongoing
<1>4. QED BY <1>1, <1>2, <1>3 DEF InStep, Steady, Alone, DbSteady, ViewsSteady

LEMMA InStepStep ==
  TypeInv /\ InStep /\ [Next]_vars => InStep'
<1> SUFFICES ASSUME TypeInv, InStep, [Next]_vars, ~spoiled'
             PROVE  Steady' /\ board'.goal = board'.lead
  BY DEF InStep
<1>1. CASE UNCHANGED vars
  <2>1. /\ UNCHANGED <<rows, newest, version, board, posts, owed, mount, open, view, waitFor,
                       polls, call, spoiled>>
    BY <1>1 DEF vars, db, agent, dialog, history
  <2>2. Steady' = Steady
    BY <2>1
       DEF Steady, Alone, DbSteady, ViewsSteady, CallSteady, IdleSteady, StartSteady,
           AnswerSteady, ConfirmSteady, ReplySteady, InHand, Pending, Latest, Mine, Sending,
           Agrees, Fresh, Awaited, Ongoing
  <2>3. QED BY <2>1, <2>2 DEF InStep
<1>2. CASE Next
  <2>1. ~spoiled
    BY <1>2
       DEF Next, Open, Close, Toggle, Answer, ExtraContext, Confirm, Ask, Shown,
           AnyConfirmed, Confirmed, Failed, Poll, SendPoll, ReadPoll,
           PollArrives, Responds, PostsUnasked, AgentPosts, Serve, LoadStart,
           LoadAnswer, LoadConfirm, Dispatch, CommitStart, CommitAnswer, CommitConfirm,
           DispatchFails, CallFails, history
  <2>2. Steady /\ board.goal = board.lead
    BY <2>1 DEF InStep
  <2>3. CASE Open
    BY <2>2, <2>3, OpenSteady DEF Open, db
  <2>4. CASE Close \/ Toggle \/ AnyConfirmed \/ Failed
    BY <2>2, <2>4, DialogSteady DEF Close, Toggle, AnyConfirmed, Confirmed, Failed, db
  <2>5. CASE Answer \/ ExtraContext \/ Confirm
    <3>1. open /\ board' = board
      BY <2>5 DEF Answer, ExtraContext, Confirm, Ready, Ask, db
    <3>2. QED BY <2>2, <2>5, <3>1, AskSteady
  <2>6. CASE Shown
    BY <2>2, <2>6, ShownSteady DEF Shown, db
  <2>7. CASE Poll
    BY <2>2, <2>7, PollSteady DEF Poll, SendPoll, ReadPoll, PollArrives, db
  <2>8. CASE Responds \/ PostsUnasked
    BY <2>1, <2>2, <2>8, AgentSteady DEF Responds, PostsUnasked
  <2>9. ASSUME NEW m \in 1..MaxMounts, Serve(m) \/ DispatchFails(m) \/ CallFails(m)
        PROVE  Steady' /\ board'.goal = board'.lead
    <3>1. m \in Mounts
      BY DEF Mounts
    <3>2. CASE LoadStart(m) \/ LoadAnswer(m) \/ LoadConfirm(m)
      BY <2>2, <3>1, <3>2, LoadSteady DEF LoadStart, LoadAnswer, LoadConfirm, db
    <3>3. CASE Dispatch(m)
      BY <2>2, <3>1, <3>3, DispatchSteady DEF Dispatch, db
    <3>4. CASE CommitStart(m) \/ CommitAnswer(m) \/ CommitConfirm(m)
      BY <2>1, <2>2, <3>1, <3>4, CommitStartSteady, CommitAnswerSteady, CommitConfirmSteady
    <3>5. CASE DispatchFails(m) \/ CallFails(m)
      BY <3>5 DEF DispatchFails, CallFails
    <3>6. QED BY <2>9, <3>2, <3>3, <3>4, <3>5 DEF Serve
  <2>10. QED BY <1>2, <2>3, <2>4, <2>5, <2>6, <2>7, <2>8, <2>9 DEF Next
<1>3. QED BY <1>1, <1>2

LEMMA StaysInStep == Spec => [](TypeInv /\ InStep)
<1>1. Spec => []TypeInv
  BY TypeInvInit, TypeInvStep, PTL DEF Spec
<1>2. Spec => []InStep
  BY <1>1, InStepInit, InStepStep, PTL DEF Spec
<1>3. QED BY <1>1, <1>2, PTL

\* The goal and the lead agent of a confirmed board come from one draft, the one the
\* user saw: no post overtakes the confirmation while it is read, as long as no request
\* failed, no reply was overtaken, the dialog was not closed while the agent was at work,
\* the agent was not faster than a commit and it posted nothing it had not been asked
\* for, which agent_onboarding_update takes as it comes (confirm_onboarding, confirmGoal).
THEOREM ConfirmsOneDraft == Spec => []ConfirmsDraft
<1>1. TypeInv /\ InStep => ConfirmsDraft
  BY DEF InStep, ConfirmsDraft
<1>2. QED BY <1>1, StaysInStep, PTL

\* An answer is sent to an agent that waits for one, and is the answer to the question
\* it asked last, except after the same incidents (handleAnswer, answer_onboarding).
THEOREM AnswersMeetQuestions == Spec => AnswersFit
<1>1. TypeInv /\ InStep /\ [Next]_vars =>
        [\A m \in 1..MaxMounts :
           (Dispatch(m) /\ call[m].kind # "start" /\ ~spoiled)
             => (owed = 0 /\ call[m].shown = posts)]_vars
  <2> SUFFICES ASSUME TypeInv, InStep, NEW m \in 1..MaxMounts,
                      Dispatch(m), call[m].kind # "start", ~spoiled
               PROVE  owed = 0 /\ call[m].shown = posts
    OBVIOUS
  <2>1. /\ call[m].kind \in {"answer", "context"} /\ call[m].kind # "none"
        /\ call[m].pc = "loaded" /\ m \in Mounts /\ Steady
    BY DEF Dispatch, At, InStep, Mounts
  <2>2. open /\ Mine = call[m]
    BY <2>1, OnlyMine DEF Steady
  <2>3. AnswerSteady
    BY <2>1, <2>2, MineSteady
  <2>4. QED BY <2>1, <2>2, <2>3 DEF AnswerSteady, InHand
<1>2. QED BY <1>1, StaysInStep, PTL DEF Spec, AnswersFit
=============================================================================
