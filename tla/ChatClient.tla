----------------------------- MODULE ChatClient -----------------------------
(***************************************************************************)
(* The chat connection of one H5 user: the WSClient of lib/ws-client.ts,   *)
(* the hook that drives it (hooks/useWebSocket.ts), the message list of    *)
(* components/h5/ChatWindow.tsx, and the other end of its sockets: the     *)
(* handler of api/ws_h5.py and the user registry of                        *)
(* services/ws_relay/connection_manager.py.                                *)
(*                                                                         *)
(* Browser and server are event loops: a client step is one event handler, *)
(* a server step is what a coroutine does between two awaits.  A socket    *)
(* that was closed or lost stays "closing" until its close event runs.     *)
(* Ids of finished sockets are used again, so reconnecting never ends.     *)
(***************************************************************************)
EXTENDS Naturals, Sequences

CONSTANTS
  Socket,     \* ids of WebSocket objects and of their server handlers
  Message,    \* chat messages the user types, each answered at most once
  Token,      \* access tokens
  Expired,    \* those of them the server does not accept
  FirstToken, \* what the component may be mounted with
  None,       \* null: no socket, no registry entry, no token
  MaxRekeys,  \* bound on changes of the access token
  MaxFaults   \* bound on lost connections and failed constructors

ASSUME ChatAssumption ==
  /\ None \notin Socket \cup Token
  /\ Expired \subseteq Token /\ FirstToken \subseteq Token \cup {None}
  /\ Message \cap {"auth_ok", "auth_error", "close"} = {}
  /\ Token \cap {"idle", "welcomed", "replacing", "serving", "closed"} = {}
  /\ MaxRekeys \in Nat /\ MaxFaults \in Nat

VARIABLES
  mounted,  \* the component: "new", "yes" or "no"
  token,    \* the access token the component renders with
  key,      \* this.token, the one given to the last connect()
  rekeys,   \* how often the token has changed
  cur,      \* this.ws
  want,     \* this.shouldReconnect
  timer,    \* this.reconnectTimer is armed
  retried,  \* this.backoff.attempt() > 0
  status,   \* this._status
  beat,     \* this.heartbeatTimer runs
  link,     \* each socket as the browser sees it
  welcome,  \* sockets that have handled auth_ok (history)
  inbox,    \* what the server sent and the browser has not handled
  handler,  \* the coroutine of each socket on the server
  entry,    \* H5ConnectionManager._connections[h5_user_id]
  chat,     \* where each message is
  faults

component == <<mounted, token, rekeys>>
client == <<key, cur, want, timer, retried, status, beat>>
server == <<handler, entry>>
vars == <<component, client, link, welcome, inbox, server, chat, faults>>

(* A message stands for its chat_reply frame.                               *)
Frame == {"auth_ok", "auth_error", "close"} \cup Message

TypeOK ==
  /\ mounted \in {"new", "yes", "no"}
  /\ token \in Token \cup {None} /\ key \in Token \cup {None}
  /\ rekeys \in 0..MaxRekeys /\ faults \in 0..MaxFaults
  /\ cur \in Socket \cup {None} /\ entry \in Socket \cup {None}
  /\ want \in BOOLEAN /\ timer \in BOOLEAN /\ retried \in BOOLEAN
  /\ status \in {"disconnected", "connecting", "connected", "reconnecting"}
  /\ beat \in BOOLEAN
  /\ link \in [Socket -> {"free", "connecting", "open", "closing"}]
  /\ welcome \subseteq Socket
  /\ inbox \in [Socket -> Seq(Frame)]
  /\ handler \in [Socket -> Token \cup {"idle", "welcomed", "replacing", "serving", "closed"}]
  /\ chat \in [Message -> {"unsent", "sent", "replied", "shown", "dropped", "lost"}]

Init ==
  /\ mounted = "new" /\ token \in FirstToken /\ rekeys = 0
  /\ key = None /\ cur = None /\ want = FALSE /\ timer = FALSE /\ retried = FALSE
  /\ status = "disconnected" /\ beat = FALSE
  /\ link = [s \in Socket |-> "free"] /\ welcome = {}
  /\ inbox = [s \in Socket |-> <<>>]
  /\ handler = [s \in Socket |-> "idle"] /\ entry = None
  /\ chat = [m \in Message |-> "unsent"]
  /\ faults = 0

-----------------------------------------------------------------------------
(* WSClient.  Unused(s): s may stand for the next WebSocket.                *)
Unused(s) == link[s] = "free" /\ handler[s] = "idle"

(* openSocket with the links as they are after an earlier part of the step. *)
OpenSocket(links, again) ==
  \E s \in Socket :
    /\ Unused(s)
    /\ link' = [links EXCEPT ![s] = "connecting"]
    /\ cur' = s
    /\ status' = IF again THEN "reconnecting" ELSE "connecting"

(* The links once disconnect() has closed the current socket.               *)
Dropped == IF cur = None THEN link ELSE [link EXCEPT ![cur] = "closing"]

(* disconnect() leaves shouldReconnect as it is.                            *)
DisconnectStillWanting ==
  /\ want' = want /\ timer' = FALSE /\ beat' = FALSE
  /\ link' = Dropped
  /\ inbox' = IF cur = None THEN inbox ELSE [inbox EXCEPT ![cur] = <<>>]
  /\ cur' = None /\ status' = "disconnected"
  /\ UNCHANGED <<key, retried>>

Disconnect ==
  /\ want' = FALSE /\ timer' = FALSE /\ beat' = FALSE
  /\ link' = Dropped
  /\ inbox' = IF cur = None THEN inbox ELSE [inbox EXCEPT ![cur] = <<>>]
  /\ cur' = None /\ status' = "disconnected"
  /\ UNCHANGED <<key, retried>>

(* The cleanup of the previous effect, disconnect(), and connect().         *)
Connect(t) ==
  /\ key' = t /\ want' = TRUE /\ timer' = FALSE /\ beat' = FALSE /\ retried' = FALSE
  /\ inbox' = IF cur = None THEN inbox ELSE [inbox EXCEPT ![cur] = <<>>]
  /\ OpenSocket(Dropped, FALSE)

(* The timer is not cleared: a variant of Reconnect.                        *)
ReconnectOnce ==
  /\ timer /\ timer' = timer
  /\ IF want THEN OpenSocket(link, retried) ELSE UNCHANGED <<link, cur, status>>
  /\ UNCHANGED <<component, key, want, retried, beat, welcome, inbox, server, chat, faults>>

(* setTimeout's callback of scheduleReconnect.                              *)
Reconnect ==
  /\ timer /\ timer' = FALSE
  /\ IF want THEN OpenSocket(link, retried) ELSE UNCHANGED <<link, cur, status>>
  /\ UNCHANGED <<component, key, want, retried, beat, welcome, inbox, server, chat, faults>>

(* The WebSocket constructor throws in the callback: the catch block.       *)
ReconnectThrows ==
  /\ timer /\ want /\ faults < MaxFaults
  /\ faults' = faults + 1
  /\ retried' = TRUE /\ status' = "reconnecting"
  /\ UNCHANGED <<component, key, cur, want, timer, beat, link, welcome, inbox, server, chat>>

(* onopen sends the token, and the server's handler receives it.            *)
Open(s) ==
  /\ link[s] = "connecting"
  /\ link' = [link EXCEPT ![s] = "open"]
  /\ handler' = [handler EXCEPT ![s] = key]
  /\ UNCHANGED <<component, client, welcome, inbox, entry, chat, faults>>

(* Variants of onclose: without stopHeartbeat, without this.ws = null,      *)
(* without scheduleReconnect.                                               *)
ClosedBeating(s) ==
  /\ link[s] = "closing"
  /\ link' = [link EXCEPT ![s] = "free"]
  /\ welcome' = welcome \ {s}
  /\ cur' = None /\ beat' = beat
  /\ timer' = (timer \/ want) /\ retried' = (retried \/ want)
  /\ status' = IF want THEN "reconnecting" ELSE "disconnected"
  /\ UNCHANGED <<component, key, want, inbox, server, chat, faults>>

ClosedKept(s) ==
  /\ link[s] = "closing"
  /\ link' = [link EXCEPT ![s] = "free"]
  /\ welcome' = welcome \ {s}
  /\ cur' = cur /\ beat' = FALSE
  /\ timer' = (timer \/ want) /\ retried' = (retried \/ want)
  /\ status' = IF want THEN "reconnecting" ELSE "disconnected"
  /\ UNCHANGED <<component, key, want, inbox, server, chat, faults>>

ClosedForGood(s) ==
  /\ link[s] = "closing"
  /\ link' = [link EXCEPT ![s] = "free"]
  /\ welcome' = welcome \ {s}
  /\ cur' = None /\ beat' = FALSE
  /\ timer' = timer /\ retried' = retried
  /\ status' = IF want THEN "reconnecting" ELSE "disconnected"
  /\ UNCHANGED <<component, key, want, inbox, server, chat, faults>>

(* onclose, of whichever socket.                                            *)
Closed(s) ==
  /\ link[s] = "closing"
  /\ link' = [link EXCEPT ![s] = "free"]
  /\ welcome' = welcome \ {s}
  /\ cur' = None /\ beat' = FALSE
  /\ timer' = (timer \/ want) /\ retried' = (retried \/ want)
  /\ status' = IF want THEN "reconnecting" ELSE "disconnected"
  /\ UNCHANGED <<component, key, want, inbox, server, chat, faults>>

Arrives(s, frame) ==
  /\ link[s] = "open" /\ inbox[s] # <<>> /\ Head(inbox[s]) = frame
  /\ inbox' = [inbox EXCEPT ![s] = Tail(@)]

(* setStatus is given the name of the frame.                                *)
AuthOkByName(s) ==
  /\ Arrives(s, "auth_ok")
  /\ retried' = FALSE /\ status' = "auth_ok" /\ beat' = TRUE
  /\ welcome' = welcome \cup {s}
  /\ UNCHANGED <<component, key, cur, want, timer, link, server, chat, faults>>

AuthOk(s) ==
  /\ Arrives(s, "auth_ok")
  /\ retried' = FALSE /\ status' = "connected" /\ beat' = TRUE
  /\ welcome' = welcome \cup {s}
  /\ UNCHANGED <<component, key, cur, want, timer, link, server, chat, faults>>

AuthError(s) ==
  /\ Arrives(s, "auth_error")
  /\ want' = FALSE /\ status' = "disconnected"
  /\ UNCHANGED <<component, key, cur, timer, retried, beat, link, welcome, server, chat, faults>>

(* The server's close frame: readyState is CLOSING until onclose.           *)
ServerCloses(s) ==
  /\ Arrives(s, "close")
  /\ link' = [link EXCEPT ![s] = "closing"]
  /\ UNCHANGED <<component, client, welcome, server, chat, faults>>

(* The network loses the connection, or refuses it.                         *)
Lose(s) ==
  /\ link[s] \in {"connecting", "open"} /\ faults < MaxFaults
  /\ faults' = faults + 1
  /\ link' = [link EXCEPT ![s] = "closing"]
  /\ inbox' = [inbox EXCEPT ![s] = <<>>]
  /\ UNCHANGED <<component, client, welcome, server, chat>>

-----------------------------------------------------------------------------
(* useWebSocket: the effects of mounting, of a new token and of unmounting. *)
Mount ==
  /\ mounted = "new" /\ mounted' = "yes"
  /\ IF token = None THEN Disconnect ELSE Connect(token)
  /\ UNCHANGED <<token, rekeys, welcome, server, chat, faults>>

Rekey(t) ==
  /\ mounted = "yes" /\ t # token /\ rekeys < MaxRekeys
  /\ token' = t /\ rekeys' = rekeys + 1
  /\ IF t = None THEN Disconnect ELSE Connect(t)
  /\ UNCHANGED <<mounted, welcome, server, chat, faults>>

Unmount ==
  /\ mounted = "yes" /\ mounted' = "no"
  /\ Disconnect
  /\ UNCHANGED <<token, rekeys, welcome, server, chat, faults>>

-----------------------------------------------------------------------------
(* The input is open as soon as the client connects.                        *)
SendEarly(m) ==
  /\ mounted = "yes" /\ chat[m] = "unsent"
  /\ status # "disconnected"
  /\ chat' = [chat EXCEPT ![m] =
                IF cur # None /\ link[cur] = "open" THEN "sent" ELSE "dropped"]
  /\ UNCHANGED <<component, client, link, welcome, inbox, server, faults>>

(* ChatWindow: the input is open while the status is not "disconnected" or  *)
(* "connecting"; send() drops the message unless the socket is open.        *)
Send(m) ==
  /\ mounted = "yes" /\ chat[m] = "unsent"
  /\ status \in {"connected", "reconnecting"}
  /\ chat' = [chat EXCEPT ![m] =
                IF cur # None /\ link[cur] = "open" THEN "sent" ELSE "dropped"]
  /\ UNCHANGED <<component, client, link, welcome, inbox, server, faults>>

(* The chat_reply handler appends the reply, while the window is mounted.   *)
Heard(s, m) ==
  /\ Arrives(s, m)
  /\ chat' = IF mounted = "yes" THEN [chat EXCEPT ![m] = "shown"] ELSE chat
  /\ UNCHANGED <<component, client, link, welcome, server, faults>>

-----------------------------------------------------------------------------
(* The server.  A frame for a socket the client left is lost.               *)
Push(s, frames) ==
  inbox' = IF link[s] = "open" THEN [inbox EXCEPT ![s] = @ \o frames] ELSE inbox

Refuse(s) ==
  /\ handler[s] \in Expired
  /\ Push(s, <<"auth_error", "close">>)
  /\ handler' = [handler EXCEPT ![s] = "idle"]
  /\ UNCHANGED <<component, client, link, welcome, entry, chat, faults>>

Greet(s) ==
  /\ handler[s] \in Token \ Expired
  /\ Push(s, <<"auth_ok">>)
  /\ handler' = [handler EXCEPT ![s] = "welcomed"]
  /\ UNCHANGED <<component, client, link, welcome, entry, chat, faults>>

(* auth_ok cannot be written: the handler ends before it has registered.     *)
GreetFails(s) ==
  /\ handler[s] \in Token \ Expired /\ link[s] # "open"
  /\ handler' = [handler EXCEPT ![s] = "idle"]
  /\ UNCHANGED <<component, client, link, welcome, inbox, entry, chat, faults>>

(* connect() of the registry: an entry that the server has not closed yet   *)
(* is closed, and awaited, before it is replaced.                           *)
CloseOld(s) ==
  /\ handler[s] = "welcomed" /\ entry # None /\ handler[entry] = "serving"
  /\ Push(entry, <<"close">>)
  /\ handler' = [handler EXCEPT ![s] = "replacing", ![entry] = "closed"]
  /\ UNCHANGED <<component, client, link, welcome, entry, chat, faults>>

Register(s) ==
  /\ handler[s] \in {"welcomed", "replacing"}
  /\ (handler[s] = "welcomed" /\ entry # None) => handler[entry] = "closed"
  /\ entry' = s
  /\ handler' = [handler EXCEPT ![s] = "serving"]
  /\ UNCHANGED <<component, client, link, welcome, inbox, chat, faults>>

(* receive_text raises: the finally block pops whatever entry there is.     *)
Leave(s) ==
  /\ handler[s] \in {"serving", "closed"}
  /\ handler[s] = "serving" => link[s] \in {"closing", "free"}
  /\ entry' = None
  /\ handler' = [handler EXCEPT ![s] = "idle"]
  /\ UNCHANGED <<component, client, link, welcome, inbox, chat, faults>>

(* The agent answers through the registry.                                  *)
Answer(m) ==
  /\ chat[m] = "sent" /\ entry # None /\ link[entry] = "open"
  /\ Push(entry, <<m>>)
  /\ chat' = [chat EXCEPT ![m] = "replied"]
  /\ UNCHANGED <<component, client, link, welcome, server, faults>>

(* No entry, a socket that is gone (and popped, if the send raises), or a   *)
(* message that could not be routed: nobody answers.                        *)
Unanswered(m) ==
  /\ chat[m] = "sent"
  /\ chat' = [chat EXCEPT ![m] = "lost"]
  /\ entry' \in {entry} \cup {None : e \in {x \in {entry} \ {None} : link[x] # "open"}}
  /\ UNCHANGED <<component, client, link, welcome, inbox, handler, faults>>

-----------------------------------------------------------------------------
Browser(s) ==
  \/ Open(s) \/ Closed(s) \/ AuthOk(s) \/ AuthError(s) \/ ServerCloses(s)
  \/ \E m \in Message : Heard(s, m)

Serve(s) == Refuse(s) \/ Greet(s) \/ GreetFails(s) \/ CloseOld(s) \/ Register(s) \/ Leave(s)

Next ==
  \/ Mount \/ Unmount \/ Reconnect \/ ReconnectThrows
  \/ \E t \in Token \cup {None} : Rekey(t)
  \/ \E m \in Message : Send(m) \/ Answer(m) \/ Unanswered(m)
  \/ \E s \in Socket : Browser(s) \/ Serve(s) \/ Lose(s)

(* Timers fire, sockets open or close and handlers run; users, tokens and   *)
(* the network owe nothing.                                                 *)
Spec ==
  /\ Init /\ [][Next]_vars
  /\ WF_vars(Mount) /\ WF_vars(Reconnect)
  /\ \A s \in Socket : WF_vars(Browser(s)) /\ WF_vars(Serve(s))

-----------------------------------------------------------------------------
Live(s) == link[s] \in {"connecting", "open"}

(* The header says "connected", and the heartbeat runs, only while some     *)
(* socket that was welcomed still has its close event to come: whatever     *)
(* sockets of earlier tokens open, close and are replaced in between.       *)
ConnectedIsBacked == (status = "connected" \/ beat) => \E s \in welcome : link[s] # "free"

(* As long as the token has not changed, "a single" connection holds: at    *)
(* most one socket is in use, it is the one messages are sent on, and       *)
(* "connected" means that it was welcomed.                                  *)
OneSocketPerToken ==
  (rekeys = 0 /\ mounted = "yes") =>
    /\ \A s \in Socket : link[s] # "free" => s = cur
    /\ status = "connected" => cur \in welcome
    /\ timer => cur = None

(* A message vanishes in send() only after a connection was lost or the     *)
(* token changed: until then the input is open only on an open socket.      *)
DroppedAfterTrouble == (rekeys = 0 /\ faults = 0) => \A m \in Message : chat[m] # "dropped"

(* A component that is not there any more, or has no token, opens no        *)
(* further socket, though close events and timers of its sockets still run. *)
NoneOpenedUnasked ==
  [][\A s \in Socket :
       (link[s] = "free" /\ link'[s] = "connecting") => (mounted' = "yes" /\ token' # None)]_vars

(* "Disconnects and cleans up on unmount or when `enabled` becomes false":  *)
(* no socket is left open then.                                             *)
CleansUp == (mounted = "no" \/ (mounted = "yes" /\ token = None)) => \A s \in Socket : ~Live(s)

(* With a good token the client is connected again and again, however often *)
(* the network fails and the server replaces its sockets; and it stays      *)
(* connected if the token never changed.                                    *)
Reconnects ==
  (<>[](mounted = "yes" /\ token # None) /\ [](token \notin Expired))
    => []<>(status = "connected")
StaysConnected ==
  (<>[](mounted = "yes") /\ [](token \in Token \ Expired) /\ [](rekeys = 0))
    => <>[](status = "connected")
=============================================================================
