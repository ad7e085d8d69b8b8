----------------------------- MODULE BoardFeeds -----------------------------
(***************************************************************************)
(* How the lists of a board page stay current: the snapshot and the        *)
(* server-sent event streams of app/boards/[boardId]/page.tsx, the         *)
(* requests by which the page itself changes a row, and the generators of  *)
(* the backend that poll the database for each open stream.                *)
(*                                                                         *)
(* The streams of a board (tasks, approvals, agents, chat) do not share a  *)
(* row, so a behaviour follows one of them, chosen at the start in feed;   *)
(* or the stream of a board group (app/board-groups/[groupId]/page.tsx:    *)
(* its chat and its notes), whose snapshot is a query of its own beside    *)
(* the stream; or one of the streams of the activity page                  *)
(* (app/activity/page.tsx), whose list holds an item for every change it   *)
(* has heard of and is seeded while the streams already run.               *)
(*                                                                         *)
(* Every change of a row has a stamp of its own: the time the server wrote *)
(* into it, which a transaction chooses before it commits.  A row is known *)
(* by the stamp of its last change.  A change of a task is told by an event *)
(* of the activity log, which a second transaction writes after that of    *)
(* the row and which has the stamp of the change here; some changes have   *)
(* no event at all.  (An approval that is reopened, and a task moved        *)
(* through the websocket, keep their stamp in the code.)                   *)
(*                                                                         *)
(* The query of a snapshot brings the newest rows only, and the list of    *)
(* the activity page keeps three hundred items of all its streams.         *)
(***************************************************************************)
EXTENDS Naturals, Sequences, FiniteSets

CONSTANTS
  Item,      \* ids of the rows of the followed list
  None,      \* no row
  MaxClock,  \* bound on stamps, and so on changes
  MaxNews,   \* the same for the streams of the activity page
  PageSize,  \* how many rows a limited query brings
  MaxAsks    \* bound on requests the page makes and on queries it repeats

ASSUME FeedsAssumption ==
  /\ None \notin Item /\ IsFiniteSet(Item)
  /\ MaxClock \in Nat \ {0} /\ MaxNews \in 1..MaxClock
  /\ PageSize \in Nat \ {0} /\ MaxAsks \in Nat

VARIABLES
  feed,    \* the list followed, one of Feeds
  clock,   \* the last stamp given
  first,   \* the stamp each row was created with
  row,     \* the stamp of its last committed change; 0: not there
  gone,    \* rows that were deleted
  open,    \* the stamp of a transaction that has not committed; 0: none
  serving, \* rows whose open transaction serves the page's request
  event,   \* the activity log of tasks: which row the stamp is about
  pending, \* changes of tasks whose event is still to be written
  conn,    \* the stream: "unloaded" before the snapshot, "off" or "on";
           \* that of a group, which is not opened again by itself: "ended"
  cursor,  \* last_seen of the generator; when conn is "off", up to where
           \* the streams have brought the list
  seen,    \* of seen_ids, the event at the cursor: no other is due again
  wire,    \* frames sent and not yet read
  query,   \* the query of a group, or for the seeds of the activity page:
           \* "none", "asked", "read" or, of the seeds, "kept"
  found,   \* what it read
  known,   \* approvalsByIdRef, agentsByIdRef of the activity page: the
           \* stamp of the version kept there; 0: none
  cut,     \* versions of rows the limits have left out (history)
  fallen,  \* items beyond the three hundredth, which seenIdsRef still has
  list,    \* the list of the page
  made,    \* rows this page has asked to create (history)
  asks,    \* how many requests it has made
  ask,     \* the request for each row: "none" or its kind
  stage,   \* of that request: "asked", "done" (answer under way), "failed"
  reply,   \* the stamp of the row in the answer
  before,  \* previousTasks of a move
  spoiled  \* one of the races below has happened (history)

rows == <<clock, first, row, gone, open, serving, event, pending>>
stream == <<conn, cursor, seen>>
answers == <<ask, stage, reply, before>>
request == <<made, asks, answers>>
rest == <<query, found, known, cut, fallen>>
vars == <<feed, rows, stream, wire, rest, list, request, spoiled>>

Groups == {"groupChat", "groupNotes"}
News == {"newsTask", "newsApproval", "newsAgent", "newsChat"}
Feeds == {"task", "approval", "agent", "chat"} \cup Groups \cup News
(* The rows are messages, never changed; or tasks, which have a log.        *)
Messages == {"chat", "newsChat"} \cup Groups
Tasks == {"task", "newsTask"}
Unlimited == {"task", "agent", "newsAgent"}

Stamp == 0..MaxClock
Frame == [id : Item, at : Stamp]
(* mine: the page shows a status it has set itself and the server has not  *)
(* confirmed.  again: an item of the activity page that tells a change      *)
(* under another id than the seeds do.                                     *)
Card == [id : Item, at : Stamp, mine : BOOLEAN, again : BOOLEAN]

TypeOK ==
  /\ feed \in Feeds
  /\ clock \in Stamp /\ first \in [Item -> Stamp] /\ row \in [Item -> Stamp]
  /\ gone \subseteq Item /\ open \in [Item -> Stamp]
  /\ serving \subseteq Item /\ made \subseteq Item
  /\ event \in [1..MaxClock -> Item \cup {None}]
  /\ pending \in [1..MaxClock -> Item \cup {None}]
  /\ conn \in {"unloaded", "off", "on", "ended"} /\ cursor \in 0..(MaxClock + 1)
  /\ seen \subseteq Stamp
  /\ query \in {"none", "asked", "read", "kept"} /\ found \subseteq Frame
  /\ known \in [Item -> Stamp] /\ cut \subseteq Frame /\ fallen \subseteq Card
  /\ wire \in Seq(Frame) /\ list \in Seq(Card) /\ before \in [Item -> Seq(Card)]
  /\ asks \in 0..MaxAsks
  /\ ask \in [Item -> {"none", "create", "move", "save", "delete", "decide", "post"}]
  /\ stage \in [Item -> {"none", "asked", "done", "failed"}]
  /\ reply \in [Item -> Stamp] /\ spoiled \in BOOLEAN

Init ==
  /\ feed \in Feeds
  /\ clock = 1
  /\ \E S \in SUBSET Item :
       /\ row = [i \in Item |-> IF i \in S THEN 1 ELSE 0]
       /\ \E i \in IF feed = "newsTask" /\ S # {} THEN S ELSE {None} :
            event = [t \in 1..MaxClock |-> IF t = 1 THEN i ELSE None]
  /\ first = row /\ gone = {} /\ open = [i \in Item |-> 0]
  /\ serving = {} /\ made = {} /\ pending = [t \in 1..MaxClock |-> None]
  /\ conn = "unloaded" /\ cursor = 0 /\ seen = {} /\ wire = <<>> /\ list = <<>>
  /\ query = "none" /\ found = {} /\ known = [i \in Item |-> 0]
  /\ cut = {} /\ fallen = {}
  /\ asks = 0 /\ ask = [i \in Item |-> "none"] /\ stage = [i \in Item |-> "none"]
  /\ reply = [i \in Item |-> 0] /\ before = [i \in Item |-> <<>>]
  /\ spoiled = FALSE

-----------------------------------------------------------------------------
(* The list.                                                                *)
Shown == {list[n].id : n \in DOMAIN list}
Copies(i) == {n \in DOMAIN list : list[n].id = i}
Least(S) == CHOOSE n \in S : \A k \in S : n <= k
Latest(S) == IF S = {} THEN 0 ELSE CHOOSE t \in S : \A u \in S : u <= t

(* latestTaskTimestamp and its siblings: the newest stamp of the list.      *)
Since == Latest({list[n].at : n \in DOMAIN list})

Put(i, t) == [id |-> i, at |-> t, mine |-> FALSE, again |-> FALSE]

(* A row the list does not know is ignored.                                 *)
UpsertKnown(i, t) ==
  IF i \in Shown THEN [list EXCEPT ![Least(Copies(i))] = Put(i, t)] ELSE list

(* findIndex, then replace it there or put it in front.                     *)
Upsert(i, t) ==
  IF i \in Shown THEN [list EXCEPT ![Least(Copies(i))] = Put(i, t)]
                 ELSE <<Put(i, t)>> \o list

(* Appended to a list in order and sorted by created_at: the new card comes *)
(* before the first one that is newer.                                      *)
Sorted(cards, new) ==
  LET place == Least({n \in 1..(Len(cards) + 1) : n \in DOMAIN cards => cards[n].at > new.at})
  IN [n \in 1..(Len(cards) + 1) |->
        IF n < place THEN cards[n] ELSE IF n = place THEN new ELSE cards[n - 1]]

(* Variants of Insert: without the search by id, without the sort.          *)
InsertAgain(i, t) == Sorted(list, Put(i, t))

InsertLast(i, t) == IF i \in Shown THEN list ELSE list \o <<Put(i, t)>>

(* Appended and sorted, unless it is there.                                 *)
Insert(i, t) == IF i \in Shown THEN list ELSE Sorted(list, Put(i, t))

(* pushFeedItem: in front, unless seenIdsRef has its id.  The last item     *)
(* falls out when there are three hundred; those of the other streams are   *)
(* not followed, so it may or may not.                                      *)
FallsOut(items) ==
  /\ list # <<>> /\ list' = items \o SubSeq(list, 1, Len(list) - 1)
  /\ fallen' = fallen \cup {list[Len(list)]}

PushFeedItem(i, t, again) ==
  LET item == [Put(i, t) EXCEPT !.again = again]
  IN IF item \in fallen \/ \E n \in DOMAIN list : list[n] = item
     THEN UNCHANGED <<list, fallen>>
     ELSE \/ list' = <<item>> \o list /\ UNCHANGED fallen
          \/ FallsOut(<<item>>)

(* prev.map: every card of the row.                                         *)
Replace(i, t) == [n \in DOMAIN list |-> IF list[n].id = i THEN Put(i, t) ELSE list[n]]

(* The elements of a finite set of numbers, in their order.                 *)
Ascending(S) ==
  {order \in [1..Cardinality(S) -> S] : \A n, k \in DOMAIN order : n < k => order[n] < order[k]}

Moved(cards, i) == [n \in DOMAIN cards |->
                      IF cards[n].id = i THEN [cards[n] EXCEPT !.mine = TRUE] ELSE cards[n]]

-----------------------------------------------------------------------------
(* The snapshot; loadBoard runs once, before any stream.                    *)
Existing == {i \in Item : row[i] # 0 /\ i \notin gone}

Version(i) == [id |-> i, at |-> row[i]]

Queried ==
  IF feed = "newsTask"
  THEN {[id |-> event[t], at |-> t] : t \in {u \in 1..clock : event[u] \in Existing}}
  ELSE {Version(i) : i \in Existing}

(* The newest by created_at, which only approvals have besides their stamp. *)
Age(f) == IF feed \in {"approval", "newsApproval"} THEN first[f.id] ELSE f.at

Newest(page) ==
  IF feed \in Unlimited \/ Cardinality(Queried) <= PageSize THEN page = Queried
  ELSE /\ Cardinality(page) = PageSize
       /\ \A f \in page, g \in Queried \ page : Age(g) <= Age(f)

Load ==
  /\ feed \notin Groups \cup News /\ conn = "unloaded" /\ conn' = "off"
  /\ \E page \in SUBSET Queried : Newest(page) /\ cut' = Queried \ page /\
       \E order \in [1..Cardinality(page) -> page] :
         /\ \A n, k \in DOMAIN order : n < k => order[n] # order[k] /\
              IF feed = "chat" THEN order[n].at <= order[k].at
                               ELSE first[order[n].id] >= first[order[k].id]
         /\ list' = [n \in DOMAIN order |-> Put(order[n].id, order[n].at)]
  /\ cursor' = Since'
  /\ UNCHANGED <<feed, rows, seen, wire, query, found, known, fallen, request, spoiled>>

(* The panel of a group opens: its query runs beside its stream.            *)
Opens ==
  /\ conn = "unloaded" /\ conn' = "off"
  /\ query' = "asked"
  /\ UNCHANGED <<feed, rows, cursor, seen, wire, found, known, cut, fallen, list, request, spoiled>>

OpenGroup == feed \in Groups /\ Opens

(* setBoards: the streams start, and the snapshots are requested.           *)
OpenActivity == feed \in News /\ Opens

(* It may run again when the panel or the window is opened once more.       *)
AskAgain ==
  /\ feed \in Groups /\ conn = "off" /\ query = "none" /\ query' = "asked"
  /\ asks < MaxAsks /\ asks' = asks + 1
  /\ UNCHANGED <<feed, rows, stream, wire, found, known, cut, fallen, list, made, answers,
                 spoiled>>

(* The name of the user has arrived: the effects run again, those of the    *)
(* streams and loadInitial, whose earlier run is cancelled.                 *)
SeedAgain ==
  /\ feed \in News /\ conn = "off" /\ query' = "asked" /\ found' = {}
  /\ asks < MaxAsks /\ asks' = asks + 1
  /\ UNCHANGED <<feed, rows, stream, wire, known, cut, fallen, list, made, answers, spoiled>>

ReadHistory ==
  /\ query = "asked" /\ query' = "read"
  /\ found' \in SUBSET Queried /\ Newest(found')
  /\ cut' = (cut \cup Queried) \ found'
  /\ UNCHANGED <<feed, rows, stream, wire, known, fallen, list, request, spoiled>>

Arranged(frames) ==
  {order \in [1..Cardinality(frames) -> frames] :
     \A n, k \in DOMAIN order : n < k => order[n] # order[k] /\ order[n].at <= order[k].at}

Reached == IF conn = "on" THEN cursor ELSE Latest({cursor} \cup {f.at : f \in found})

(* The rows are merged, by their ids, with those that are shown already.    *)
Merged == found \cup {[id |-> list[n].id, at |-> list[n].at] :
                        n \in {k \in DOMAIN list : \A f \in found : f.id # list[k].id}}

HistoryArrives ==
  /\ feed \in Groups /\ query = "read" /\ query' = "none" /\ found' = {}
  /\ \E order \in Arranged(Merged) :
       list' = [n \in DOMAIN order |-> Put(order[n].id, order[n].at)]
  /\ cursor' = Reached
  /\ UNCHANGED <<feed, rows, conn, seen, wire, known, cut, fallen, request, spoiled>>

(* The snapshots arrive: their versions are kept to compare the next with.  *)
SeedsKept ==
  /\ feed \in News /\ query = "read" /\ query' = "kept"
  /\ LET versions(i) == {f \in found : f.id = i /\ feed \in {"newsApproval", "newsAgent"}}
     IN known' = [i \in Item |-> IF versions(i) = {} THEN known[i]
                                                    ELSE (CHOOSE f \in versions(i) : TRUE).at]
  /\ UNCHANGED <<feed, rows, stream, wire, found, cut, fallen, list, request, spoiled>>

(* The snapshot of the board is rejected, which is passed over: the rest of *)
(* the seeds is shown without its rows.  (The events are a list of their    *)
(* own.)                                                                    *)
SeedsMissing ==
  /\ feed \in News \ {"newsTask"} /\ query = "asked" /\ query' = "read" /\ found' = {}
  /\ spoiled' = (spoiled \/ cursor # 0)
  /\ UNCHANGED <<feed, rows, stream, wire, known, cut, fallen, list, request>>

(* The seeds take the place of the items the streams have brought so far.   *)
Outdated == \E n \in DOMAIN list : \A f \in found : f.id = list[n].id => f.at < list[n].at

SeedsShown ==
  /\ query = "kept" /\ query' = "none" /\ found' = {} /\ fallen' = {}
  /\ \E kept \in SUBSET found :
       /\ \A f \in kept, g \in found \ kept : g.at <= f.at
       /\ cut' = (cut \cup found \cup {[id |-> c.id, at |-> c.at] : c \in fallen}) \ kept
       /\ \E order \in [1..Cardinality(kept) -> kept] :
            /\ \A n, k \in DOMAIN order :
                 n < k => order[n] # order[k] /\ order[n].at >= order[k].at
            /\ list' = [n \in DOMAIN order |-> Put(order[n].id, order[n].at)]
  /\ cursor' = Reached
  /\ spoiled' = (spoiled \/ Outdated)
  /\ UNCHANGED <<feed, rows, conn, seen, wire, known, request>>

(* An item of another stream pushes the last one out.                       *)
PushedOut ==
  /\ feed \in News /\ FallsOut(<<>>)
  /\ UNCHANGED <<feed, rows, stream, wire, query, found, known, cut, request, spoiled>>

(* It is not tried again; a stream that has relied on it misses the rest.   *)
HistoryFails ==
  /\ query # "none" /\ query' = "none" /\ found' = {}
  /\ spoiled' = (spoiled \/ cursor # 0)
  /\ UNCHANGED <<feed, rows, stream, wire, known, cut, fallen, list, request>>

(* What the query brings.                                                   *)
Coming(i) == query = "asked" \/ Version(i) \in found
Uncertain == \E i \in Item : (row[i] # 0 \/ open[i] # 0) /\ ~Coming(i)

(* A stream that starts behind the list: the list holds a stamp newer than  *)
(* any the streams have sent.                                               *)
Ahead == Since > cursor /\ Uncertain

(* since is left out of the request for an empty list, and the server       *)
(* starts at its own now: whatever was written before stays unseen.         *)
Gap == list = <<>> /\ Uncertain

(* since is never sent.                                                     *)
ConnectFromNow ==
  /\ conn = "off" /\ conn' = "on"
  /\ cursor' = clock + 1
  /\ seen' = {}
  /\ spoiled' = (spoiled \/ Ahead \/ Gap)
  /\ UNCHANGED <<feed, rows, wire, rest, list, request>>

Connect ==
  /\ conn = "off" /\ conn' = "on"
  /\ cursor' = IF Since = 0 THEN clock + 1 ELSE Since
  /\ seen' = {}
  /\ spoiled' = (spoiled \/ Ahead \/ Gap)
  /\ UNCHANGED <<feed, rows, wire, rest, list, request>>

ConnectTasks == feed = "task" /\ Connect
ConnectApprovals == feed = "approval" /\ Connect
ConnectAgents == feed = "agent" /\ Connect
ConnectChat == feed = "chat" /\ Connect
ConnectGroupChat == feed = "groupChat" /\ Connect
ConnectGroupNotes == feed = "groupNotes" /\ Connect
ConnectNewsTasks == feed = "newsTask" /\ Connect
ConnectNewsApprovals == feed = "newsApproval" /\ Connect
ConnectNewsChat == feed = "newsChat" /\ Connect
ConnectNewsAgents == feed = "newsAgent" /\ Connect

(* A lost frame is older than one that has arrived.                         *)
CutShort == \E n \in DOMAIN wire : wire[n].at < Since

(* The stream ends, the window loses the focus, or the panel is closed.     *)
Disconnect ==
  /\ conn = "on" /\ conn' = "off"
  /\ wire' = <<>> /\ seen' = {}
  /\ cursor' = IF wire = <<>> \/ Since > cursor THEN cursor ELSE Since
  /\ spoiled' = (spoiled \/ CutShort)
  /\ UNCHANGED <<feed, rows, rest, list, request>>

(* The server ends the stream of a group: its reader is done, and only a    *)
(* panel or a window that is opened again connects once more.               *)
GroupEnds ==
  /\ feed \in Groups /\ conn = "on" /\ wire = <<>> /\ conn' = "ended"
  /\ UNCHANGED <<feed, rows, cursor, seen, wire, rest, list, request, spoiled>>

GroupReopens ==
  /\ conn = "ended" /\ conn' = "off"
  /\ UNCHANGED <<feed, rows, cursor, seen, wire, rest, list, request, spoiled>>

Read(kind) == conn = "on" /\ feed = kind /\ wire # <<>> /\ wire' = Tail(wire)

ReadTask ==
  /\ Read("task") /\ list' = Upsert(Head(wire).id, Head(wire).at)
  /\ UNCHANGED <<feed, rows, stream, rest, request, spoiled>>

ReadApproval ==
  /\ Read("approval") /\ list' = Upsert(Head(wire).id, Head(wire).at)
  /\ UNCHANGED <<feed, rows, stream, rest, request, spoiled>>

ReadAgent ==
  /\ Read("agent") /\ list' = Upsert(Head(wire).id, Head(wire).at)
  /\ UNCHANGED <<feed, rows, stream, rest, request, spoiled>>

ReadChat ==
  /\ Read("chat") /\ list' = Insert(Head(wire).id, Head(wire).at)
  /\ UNCHANGED <<feed, rows, stream, rest, request, spoiled>>

ReadGroupChat ==
  /\ Read("groupChat") /\ list' = Insert(Head(wire).id, Head(wire).at)
  /\ UNCHANGED <<feed, rows, stream, rest, request, spoiled>>

ReadGroupNotes ==
  /\ Read("groupNotes") /\ list' = Insert(Head(wire).id, Head(wire).at)
  /\ UNCHANGED <<feed, rows, stream, rest, request, spoiled>>

ReadNewsTask ==
  /\ Read("newsTask") /\ PushFeedItem(Head(wire).id, Head(wire).at, FALSE)
  /\ UNCHANGED <<feed, rows, stream, query, found, known, cut, request, spoiled>>

(* mapApprovalEvent: a version that is known already is told as an update.  *)
NewsOfApproval(i, t) == PushFeedItem(i, t, known[i] = t)

ReadNewsApproval ==
  /\ Read("newsApproval")
  /\ LET i == Head(wire).id  t == Head(wire).at
     IN known' = [known EXCEPT ![i] = t] /\ NewsOfApproval(i, t)
  /\ UNCHANGED <<feed, rows, stream, query, found, cut, request, spoiled>>

ReadNewsChat ==
  /\ Read("newsChat") /\ PushFeedItem(Head(wire).id, Head(wire).at, FALSE)
  /\ UNCHANGED <<feed, rows, stream, query, found, known, cut, request, spoiled>>

(* mapAgentEvent: a version that is known already is not told.  (Changes of *)
(* an agent are those of its status or profile; others make no item.)       *)
NewsOfAgent(i, t) == IF known[i] = t THEN UNCHANGED <<list, fallen>> ELSE PushFeedItem(i, t, TRUE)

ReadNewsAgent ==
  /\ Read("newsAgent")
  /\ LET i == Head(wire).id  t == Head(wire).at
     IN known' = [known EXCEPT ![i] = t] /\ NewsOfAgent(i, t)
  /\ UNCHANGED <<feed, rows, stream, query, found, cut, request, spoiled>>

-----------------------------------------------------------------------------
(* The generators.  A poll comes two seconds after the frames of the last   *)
(* one, which have been read by then.                                       *)
(* The events that are due, in the order of their stamps; each is sent with *)
(* the row as it is now, which is all the board page looks at.              *)
Due == {t \in 1..clock : /\ event[t] # None /\ event[t] \in Existing
                         /\ t >= cursor /\ t \notin seen}

PollTasks ==
  /\ feed \in Tasks /\ conn = "on" /\ wire = <<>> /\ Due # {}
  /\ \E order \in Ascending(Due) :
       wire' = [n \in DOMAIN order |->
                  [id |-> event[order[n]],
                   at |-> IF feed = "task" THEN row[event[order[n]]] ELSE order[n]]]
  /\ cursor' = Latest(Due) /\ seen' = {Latest(Due)}
  /\ UNCHANGED <<feed, rows, conn, rest, list, request, spoiled>>

(* The other streams send the rows themselves, those at the cursor again    *)
(* with every poll: approvals in the order in which they were created.      *)
Fresh == {i \in Existing : row[i] >= cursor}

PollRows(key) ==
  /\ conn = "on" /\ wire = <<>> /\ Fresh # {}
  /\ \E order \in [1..Cardinality(Fresh) -> Fresh] :
       /\ \A n, k \in DOMAIN order :
            n < k => order[n] # order[k] /\ key[order[n]] <= key[order[k]]
       /\ wire' = [n \in DOMAIN order |-> [id |-> order[n], at |-> row[order[n]]]]
  /\ cursor' = Latest({row[i] : i \in Fresh})
  /\ UNCHANGED <<feed, rows, conn, seen, rest, list, request, spoiled>>

PollApprovals == feed \in {"approval", "newsApproval"} /\ PollRows(first)
PollAgents == feed \in {"agent", "newsAgent"} /\ PollRows(row)
PollChat == feed \in {"chat", "newsChat"} /\ PollRows(row)
PollGroup == feed \in Groups /\ PollRows(row)

-----------------------------------------------------------------------------
(* Changes of rows, by others or for a request of the page.  A message is   *)
(* never changed.                                                           *)
Begin(i) ==
  /\ clock < (IF feed \in News THEN MaxNews ELSE MaxClock) /\ clock' = clock + 1
  /\ open[i] = 0 /\ i \notin gone
  /\ open' = [open EXCEPT ![i] = clock + 1]
  /\ UNCHANGED <<feed, first, row, gone, event, pending, stream, wire, rest, list, request,
                 spoiled>>

BeginOther(i) ==
  /\ ask[i] \in {"create", "post"} => row[i] # 0
  /\ feed \in Messages => row[i] = 0
  /\ Begin(i) /\ UNCHANGED serving

BeginOwn(i) ==
  /\ stage[i] = "asked" /\ ask[i] # "delete" /\ i \notin serving
  /\ Begin(i) /\ serving' = serving \cup {i}

(* A transaction commits a stamp that the stream, or a query that has been  *)
(* read, has passed.                                                        *)
Late(t) ==
  /\ query # "asked"
  /\ \/ t < cursor
     \/ conn # "on" /\ t < Since
     \/ \E f \in found : t < f.at

Own(i) == i \in serving /\ reply[i] = 0

CommitRow(i) ==
  /\ open[i] # 0 /\ open' = [open EXCEPT ![i] = 0]
  /\ row' = [row EXCEPT ![i] = open[i]]
  /\ first' = IF row[i] = 0 THEN [first EXCEPT ![i] = open[i]] ELSE first
  /\ reply' = IF Own(i) THEN [reply EXCEPT ![i] = open[i]] ELSE reply
  /\ UNCHANGED <<feed, clock, gone, event, stream, wire, rest, list, made, asks, ask, before>>

Answer(i) == serving' = serving \ {i} /\ stage' = [stage EXCEPT ![i] = "done"]

Commit(i) ==
  /\ feed \notin Tasks /\ CommitRow(i)
  /\ IF Own(i) THEN Answer(i) ELSE UNCHANGED <<serving, stage>>
  /\ spoiled' = (spoiled \/ Late(open[i])) /\ UNCHANGED pending

(* The handlers of tasks commit the row, then its event.                    *)
CommitTask(i) ==
  /\ feed \in Tasks /\ CommitRow(i)
  /\ pending' = [pending EXCEPT ![open[i]] = i]
  /\ UNCHANGED <<serving, stage, spoiled>>

(* The deletion of an agent frees its tasks, the websocket and the pipeline *)
(* move and make some: without an event.                                    *)
CommitSilently(i) ==
  /\ feed \in Tasks /\ ~Own(i) /\ CommitRow(i)
  /\ UNCHANGED <<pending, serving, stage, spoiled>>

Log(i, t) ==
  /\ pending[t] = i /\ pending' = [pending EXCEPT ![t] = None]
  /\ i \notin gone /\ event' = [event EXCEPT ![t] = i]
  /\ IF i \in serving /\ reply[i] = t THEN Answer(i) ELSE UNCHANGED <<serving, stage>>
  /\ spoiled' = (spoiled \/ Late(t))
  /\ UNCHANGED <<feed, clock, first, row, gone, open, stream, wire, rest, list, made, asks,
                 ask, reply, before>>

(* The handler stops between its two transactions, or the task is gone.     *)
LogFails(i, t) ==
  /\ pending[t] = i /\ pending' = [pending EXCEPT ![t] = None]
  /\ IF i \in serving /\ reply[i] = t
     THEN serving' = serving \ {i} /\ stage' = [stage EXCEPT ![i] = "failed"]
     ELSE UNCHANGED <<serving, stage>>
  /\ UNCHANGED <<feed, clock, first, row, gone, open, event, stream, wire, rest, list, made,
                 asks, ask, reply, before, spoiled>>

(* A task is deleted, with its events: no stream tells of it.               *)
Delete(i) ==
  /\ feed \in Tasks /\ i \in Existing /\ open[i] = 0
  /\ gone' = gone \cup {i}
  /\ UNCHANGED <<feed, clock, first, row, open, serving, event, pending, stream, wire,
                 rest, list, made, asks, ask, reply, before, spoiled>>

DeleteOther(i) == Delete(i) /\ UNCHANGED stage
DeleteOwn(i) ==
  /\ ask[i] = "delete" /\ stage[i] = "asked"
  /\ Delete(i) /\ stage' = [stage EXCEPT ![i] = "done"]

(* The server refuses, or the answer is lost: both throw.                   *)
Fail(i) ==
  /\ stage[i] \in {"asked", "done"}
  /\ stage' = [stage EXCEPT ![i] = "failed"]
  /\ serving' = serving \ {i}
  /\ UNCHANGED <<feed, clock, first, row, gone, open, event, pending, stream, wire, rest,
                 list, made, asks, ask, reply, before, spoiled>>

-----------------------------------------------------------------------------
(* The page's own requests, one for a row at a time.                        *)
Ask(i, kind) ==
  /\ conn # "unloaded" /\ asks < MaxAsks /\ asks' = asks + 1
  /\ ask[i] = "none"
  /\ ask' = [ask EXCEPT ![i] = kind] /\ stage' = [stage EXCEPT ![i] = "asked"]
  /\ UNCHANGED <<feed, rows, stream, wire, rest, reply, spoiled>>

New(i) == row[i] = 0 /\ open[i] = 0 /\ i \notin made

AskCreate(i) ==
  /\ feed = "task" /\ New(i) /\ Ask(i, "create") /\ made' = made \cup {i}
  /\ UNCHANGED <<list, before>>

(* The card moves before the server has agreed.                             *)
AskMove(i) ==
  /\ feed = "task" /\ i \in Shown /\ Ask(i, "move")
  /\ list' = Moved(list, i) /\ before' = [before EXCEPT ![i] = list]
  /\ UNCHANGED made

AskSave(i) ==
  /\ feed = "task" /\ i \in Shown /\ Ask(i, "save") /\ UNCHANGED <<list, before, made>>
AskDelete(i) ==
  /\ feed = "task" /\ i \in Shown /\ Ask(i, "delete") /\ UNCHANGED <<list, before, made>>
AskDecide(i) ==
  /\ feed = "approval" /\ i \in Shown /\ Ask(i, "decide") /\ UNCHANGED <<list, before, made>>
AskPost(i) ==
  /\ feed = "chat" /\ New(i) /\ Ask(i, "post") /\ made' = made \cup {i}
  /\ UNCHANGED <<list, before>>

AskGroupChat(i) ==
  /\ feed = "groupChat" /\ New(i) /\ Ask(i, "post") /\ made' = made \cup {i}
  /\ UNCHANGED <<list, before>>
AskGroupNote(i) ==
  /\ feed = "groupNotes" /\ New(i) /\ Ask(i, "post") /\ made' = made \cup {i}
  /\ UNCHANGED <<list, before>>

(* The answer is older than what the stream has shown of the row.           *)
Overtaken(i) == \E n \in Copies(i) : list[n].at > reply[i]

Finish(i, kind) ==
  /\ ask[i] = kind
  /\ ask' = [ask EXCEPT ![i] = "none"] /\ stage' = [stage EXCEPT ![i] = "none"]
  /\ reply' = [reply EXCEPT ![i] = 0] /\ before' = [before EXCEPT ![i] = <<>>]
  /\ UNCHANGED <<feed, rows, stream, wire, rest, made, asks>>

Answered(i, kind) ==
  /\ stage[i] = "done" /\ Finish(i, kind)
  /\ spoiled' = (spoiled \/ Overtaken(i))

(* The answer is put into the list as it came, not normalized.              *)
CreatedRaw(i) == Answered(i, "create") /\ list' = <<[id |-> i, at |-> reply[i]]>> \o list

(* The new card is put in front, whether or not the stream brought it.      *)
Created(i) == Answered(i, "create") /\ list' = <<Put(i, reply[i])>> \o list
MoveDone(i) == Answered(i, "move") /\ list' = Replace(i, reply[i])
Saved(i) == Answered(i, "save") /\ list' = Replace(i, reply[i])
Decided(i) == Answered(i, "decide") /\ list' = Replace(i, reply[i])
Posted(i) == Answered(i, "post") /\ list' = Insert(i, reply[i])
Deleted(i) ==
  /\ stage[i] = "done" /\ Finish(i, "delete") /\ UNCHANGED spoiled
  /\ \E others \in Ascending({n \in DOMAIN list : list[n].id # i}) :
       list' = [n \in DOMAIN others |-> list[others[n]]]

(* The catch block does not restore the list.                               *)
MoveFailedKept(i) ==
  /\ stage[i] = "failed" /\ Finish(i, "move")
  /\ list' = list
  /\ spoiled' = (spoiled \/ list # Moved(before[i], i))

(* A failed move puts back the list as it was when it began.                *)
MoveFailed(i) ==
  /\ stage[i] = "failed" /\ Finish(i, "move")
  /\ list' = before[i]
  /\ spoiled' = (spoiled \/ list # Moved(before[i], i))

RequestFailed(i) ==
  /\ stage[i] = "failed" /\ ask[i] # "move" /\ Finish(i, ask[i])
  /\ UNCHANGED <<list, spoiled>>

-----------------------------------------------------------------------------
Page(i) ==
  \/ Created(i) \/ MoveDone(i) \/ Saved(i) \/ Decided(i) \/ Posted(i) \/ Deleted(i)
  \/ MoveFailed(i) \/ RequestFailed(i)

Serve(i) == BeginOwn(i) \/ DeleteOwn(i) \/ Fail(i)

Stream ==
  \/ Load
  \/ PollTasks \/ PollApprovals \/ PollAgents \/ PollChat \/ PollGroup
  \/ ReadTask \/ ReadApproval \/ ReadAgent \/ ReadChat
  \/ ReadGroupChat \/ ReadGroupNotes
  \/ ReadNewsTask \/ ReadNewsApproval \/ ReadNewsAgent \/ ReadNewsChat

(* What the server does about a row, when it can.                           *)
Server(i) == Commit(i) \/ CommitTask(i) \/ (\E t \in 1..MaxClock : Log(i, t)) \/ Serve(i)

History == ReadHistory \/ HistoryArrives \/ SeedsKept \/ SeedsShown

Next ==
  \/ Stream
  \/ ConnectTasks \/ ConnectApprovals \/ ConnectAgents \/ ConnectChat
  \/ ConnectGroupChat \/ ConnectGroupNotes
  \/ ConnectNewsTasks \/ ConnectNewsApprovals \/ ConnectNewsAgents \/ ConnectNewsChat
  \/ OpenGroup \/ AskAgain \/ OpenActivity \/ SeedAgain \/ History
  \/ SeedsMissing \/ HistoryFails \/ PushedOut \/ GroupEnds \/ GroupReopens \/ Disconnect
  \/ \E i \in Item :
       \/ BeginOther(i) \/ CommitSilently(i) \/ DeleteOther(i)
       \/ \E t \in 1..MaxClock : LogFails(i, t)
       \/ AskCreate(i) \/ AskMove(i) \/ AskSave(i) \/ AskDelete(i)
       \/ AskDecide(i) \/ AskPost(i) \/ AskGroupChat(i) \/ AskGroupNote(i)
       \/ Server(i) \/ Page(i)

Spec ==
  /\ Init /\ [][Next]_vars
  /\ WF_vars(Stream) /\ WF_vars(History)
  /\ \A i \in Item : WF_vars(Server(i)) /\ WF_vars(Page(i))

-----------------------------------------------------------------------------
(* The card a row is updated in shows its last change; an item tells it.    *)
Current(i) ==
  IF feed \in News THEN \E n \in Copies(i) : list[n].at = row[i]
  ELSE /\ i \in Shown
       /\ LET card == list[Least(Copies(i))] IN card.at = row[i] /\ ~card.mine

(* The last change of the row has its event, or needs none: the board page  *)
(* has loaded the tasks that were there at the start.                       *)
Told(i) == feed \in Tasks => event[row[i]] = i \/ (feed = "task" /\ row[i] = 1)

(* A limit has left the row out as it is, and it has not changed since.     *)
LeftOut(i) == Version(i) \in cut \/ (\E c \in fallen : c.id = i /\ c.at = row[i])

InWire(i) == \E n \in DOMAIN wire : wire[n].id = i /\ wire[n].at = row[i]

ToBeSent(i) ==
  IF conn = "on" THEN row[i] >= cursor /\ (feed \in Tasks => row[i] \notin seen)
                 ELSE row[i] >= Since

(* Of the changes that an event tells, if they are of tasks (Told), and that *)
(* the limits leave in (LeftOut), one fails to reach the page only if it or *)
(* its event committed after a later one had been sent or read (Late), the  *)
(* stream started ahead of it (Ahead) or with an empty list (Gap), it was   *)
(* cut between two frames (CutShort), an overtaken answer or the rollback   *)
(* of a move hid it, the seeds of the activity page took its place          *)
(* (Outdated) or came without the board's snapshot, or the query of a group *)
(* or for the seeds failed.  Without those, every such row is shown as it   *)
(* is or will be sent, across lost connections and failed requests.         *)
NothingLost ==
  (~spoiled /\ conn # "unloaded" /\ (conn # "on" => ~Ahead /\ ~Gap)) =>
    \A i \in Existing : Told(i) =>
      Current(i) \/ InWire(i) \/ ToBeSent(i) \/ Coming(i) \/ LeftOut(i) \/ ask[i] = "move"

(* A row has one entry, except a task this page has created; an item of the *)
(* activity page, however often the stream sends its row, is there once.    *)
UniqueCards ==
  IF feed \in News
  THEN \A n, k \in DOMAIN list : n # k => list[n] # list[k]
  ELSE \A i \in Item : Cardinality(Copies(i)) <= IF feed = "task" /\ i \in made THEN 2 ELSE 1

(* The chat stays in the order of its stamps, so that its last command is   *)
(* the newest the page has heard of.                                        *)
ChatInOrder ==
  feed \in {"chat"} \cup Groups => \A n, k \in DOMAIN list : n < k => list[n].at <= list[k].at

(* A status the server has not confirmed is shown only while its request is *)
(* under way.                                                               *)
MovesSettle == ~spoiled => \A n \in DOMAIN list : list[n].mine => ask[list[n].id] = "move"

(* Without those races a page whose stream stays open shows every such row  *)
(* as it is, in the end.                                                    *)
CatchesUp ==
  ([](~spoiled) /\ <>[](conn = "on")) => <>[](\A i \in Existing : Told(i) => (Current(i) \/ LeftOut(i)))
=============================================================================
