-------------------------- MODULE ChatClientProofs --------------------------
(***************************************************************************)
(* Safety of the chat connection for any number of sockets, messages,      *)
(* tokens and faults: types, one socket as long as the token does not      *)
(* change, a "connected" that a socket backs, no socket opened after the   *)
(* component is gone, and no message dropped before something goes wrong.  *)
(***************************************************************************)
EXTENDS ChatClient, TLAPS

(* Before the component is mounted nothing has begun; once it is gone the   *)
(* client wants no connection; it acts only with a token.                   *)
MountInv ==
  /\ mounted = "new" =>
       /\ \A s \in Socket : link[s] = "free"
       /\ cur = None /\ ~timer /\ ~want /\ status = "disconnected" /\ ~beat
  /\ want => mounted = "yes" /\ token # None
  /\ (timer \/ want \/ \E s \in Socket : link[s] = "connecting") => key \in Token

TypeInv == TypeOK /\ MountInv

-----------------------------------------------------------------------------
(* openSocket takes a free socket and leaves every other one as it is.      *)
LEMMA Opening ==
  ASSUME NEW links \in [Socket -> {"free", "connecting", "open", "closing"}],
         NEW again \in BOOLEAN, OpenSocket(links, again)
  PROVE  \E s \in Socket :
           /\ link[s] = "free" /\ cur' = s
           /\ link' \in [Socket -> {"free", "connecting", "open", "closing"}]
           /\ link'[s] = "connecting"
           /\ \A q \in Socket \ {s} : link'[q] = links[q]
           /\ status' \in {"connecting", "reconnecting"}
BY DEF OpenSocket, Unused

(* disconnect() leaves no timer, no heartbeat and no current socket.        *)
LEMMA Dropping ==
  ASSUME TypeOK
  PROVE  /\ Dropped \in [Socket -> {"free", "connecting", "open", "closing"}]
         /\ \A s \in Socket : Dropped[s] = IF s = cur THEN "closing" ELSE link[s]
BY ChatAssumption DEF Dropped, TypeOK

LEMMA Disconnecting ==
  ASSUME TypeOK, Disconnect
  PROVE  /\ want' = FALSE /\ timer' = FALSE /\ beat' = FALSE /\ retried' = retried /\ key' = key
         /\ cur' = None /\ status' = "disconnected" /\ link' = Dropped
         /\ inbox' \in [Socket -> Seq(Frame)]
BY DEF Disconnect, TypeOK

LEMMA Connecting ==
  ASSUME TypeOK, NEW t \in Token, Connect(t)
  PROVE  /\ want' = TRUE /\ timer' = FALSE /\ beat' = FALSE /\ retried' = FALSE /\ key' = t
         /\ inbox' \in [Socket -> Seq(Frame)]
         /\ OpenSocket(Dropped, FALSE)
<1>1. inbox' \in [Socket -> Seq(Frame)]
  BY DEF Connect, TypeOK
<1>2. QED
  BY <1>1 DEF Connect

LEMMA Pushing ==
  ASSUME TypeOK, NEW s \in Socket, NEW frames \in Seq(Frame), Push(s, frames)
  PROVE  inbox' \in [Socket -> Seq(Frame)]
BY DEF Push, TypeOK

LEMMA Frames ==
  /\ <<"auth_error", "close">> \in Seq(Frame) /\ <<"auth_ok">> \in Seq(Frame)
  /\ <<"close">> \in Seq(Frame) /\ <<>> \in Seq(Frame)
  /\ \A m \in Message : <<m>> \in Seq(Frame)
BY DEF Frame

LEMMA Arriving ==
  ASSUME TypeOK, NEW s \in Socket, NEW frame, Arrives(s, frame)
  PROVE  inbox' \in [Socket -> Seq(Frame)] /\ link[s] = "open"
BY DEF Arrives, TypeOK

-----------------------------------------------------------------------------
LEMMA ChatTypes == Spec => []TypeInv
<1>1. Init => TypeInv
  <2> SUFFICES ASSUME Init PROVE TypeInv
    OBVIOUS
  <2>1. TypeOK
    <3>1. /\ inbox \in [Socket -> Seq(Frame)]
          /\ link \in [Socket -> {"free", "connecting", "open", "closing"}]
      BY Frames DEF Init
    <3>2. handler \in [Socket -> Token \cup {"idle", "welcomed", "replacing", "serving", "closed"}]
      BY DEF Init
    <3>3. chat \in [Message -> {"unsent", "sent", "replied", "shown", "dropped", "lost"}]
      BY DEF Init
    <3>4. rekeys \in 0..MaxRekeys /\ faults \in 0..MaxFaults
      BY ChatAssumption DEF Init
    <3>5. token \in Token \cup {None} /\ welcome \subseteq Socket
      BY ChatAssumption DEF Init
    <3>6. QED
      BY <3>1, <3>2, <3>3, <3>4, <3>5 DEF Init, TypeOK
  <2>2. MountInv
    BY DEF Init, MountInv
  <2>3. QED
    BY <2>1, <2>2 DEF TypeInv
<1>2. TypeInv /\ [Next]_vars => TypeInv'
  <2> SUFFICES ASSUME TypeInv, [Next]_vars PROVE TypeInv'
    OBVIOUS
  <2> TypeOK /\ MountInv
    BY DEF TypeInv
  <2> USE ChatAssumption DEF component, client, server
  <2>1. CASE Mount
    <3>1. CASE token = None
      <4>1. Disconnect
        BY <2>1, <3>1 DEF Mount
      <4>2. TypeOK'
        BY <2>1, <4>1, Disconnecting, Dropping DEF Mount, TypeOK
      <4>3. MountInv'
        BY <2>1, <4>1, Disconnecting, Dropping DEF Mount, MountInv
      <4>4. QED
        BY <4>2, <4>3 DEF TypeInv
    <3>2. CASE token # None
      <4>1. token \in Token /\ Connect(token)
        BY <2>1, <3>2 DEF Mount, TypeOK
      <4>2. TypeOK'
        <5>1. PICK s \in Socket : cur' = s
              /\ link' \in [Socket -> {"free", "connecting", "open", "closing"}]
              /\ status' \in {"connecting", "reconnecting"}
          BY <4>1, Connecting, Dropping, Opening
        <5>2. QED
          BY <2>1, <4>1, <5>1, Connecting DEF Mount, TypeOK
      <4>3. MountInv'
        BY <2>1, <4>1, Connecting DEF Mount, MountInv
      <4>4. QED
        BY <4>2, <4>3 DEF TypeInv
    <3>3. QED
      BY <3>1, <3>2
  <2>2. ASSUME NEW t \in Token \cup {None}, Rekey(t) PROVE TypeInv'
    <3> rekeys' \in 0..MaxRekeys /\ token' = t
      BY <2>2 DEF Rekey, TypeOK
    <3>1. CASE t = None
      <4>1. Disconnect
        BY <2>2, <3>1 DEF Rekey
      <4>2. TypeOK'
        <5>1. /\ link' \in [Socket -> {"free", "connecting", "open", "closing"}]
              /\ inbox' \in [Socket -> Seq(Frame)]
              /\ cur' = None /\ want' = FALSE /\ timer' = FALSE /\ beat' = FALSE
              /\ status' = "disconnected" /\ UNCHANGED <<key, retried>>
          BY <4>1, Disconnecting, Dropping
        <5>2. UNCHANGED <<mounted, welcome, server, chat, faults>>
          BY <2>2 DEF Rekey
        <5>3. QED
          BY <5>1, <5>2 DEF TypeOK
      <4>3. MountInv'
        BY <2>2, <4>1, Disconnecting, Dropping DEF Rekey, MountInv
      <4>4. QED
        BY <4>2, <4>3 DEF TypeInv
    <3>2. CASE t # None
      <4>1. t \in Token /\ Connect(t)
        BY <2>2, <3>2 DEF Rekey
      <4>2. TypeOK'
        <5>1. PICK s \in Socket : cur' = s
              /\ link' \in [Socket -> {"free", "connecting", "open", "closing"}]
              /\ status' \in {"connecting", "reconnecting"}
          BY <4>1, Connecting, Dropping, Opening
        <5>2. QED
          BY <2>2, <4>1, <5>1, Connecting DEF Rekey, TypeOK
      <4>3. MountInv'
        BY <2>2, <4>1, Connecting DEF Rekey, MountInv
      <4>4. QED
        BY <4>2, <4>3 DEF TypeInv
    <3>3. QED
      BY <3>1, <3>2
  <2>3. CASE Unmount
    <3>1. Disconnect
      BY <2>3 DEF Unmount
    <3>2. TypeOK'
      BY <2>3, <3>1, Disconnecting, Dropping DEF Unmount, TypeOK
    <3>3. MountInv'
      BY <2>3, <3>1, Disconnecting, Dropping DEF Unmount, MountInv
    <3>4. QED
      BY <3>2, <3>3 DEF TypeInv
  <2>4. CASE Reconnect
    <3>1. CASE want
      <4>1. link \in [Socket -> {"free", "connecting", "open", "closing"}] /\ retried \in BOOLEAN
            /\ OpenSocket(link, retried)
        BY <2>4, <3>1 DEF Reconnect, TypeOK
      <4>2. TypeOK'
        <5>1. PICK s \in Socket : cur' = s
              /\ link' \in [Socket -> {"free", "connecting", "open", "closing"}]
              /\ status' \in {"connecting", "reconnecting"}
          BY <4>1, Opening
        <5>2. QED
          BY <2>4, <5>1 DEF Reconnect, TypeOK
      <4>3. MountInv'
        BY <2>4, <3>1 DEF Reconnect, MountInv
      <4>4. QED
        BY <4>2, <4>3 DEF TypeInv
    <3>2. CASE ~want
      BY <2>4, <3>2 DEF Reconnect, TypeInv, TypeOK, MountInv
    <3>3. QED
      BY <3>1, <3>2
  <2>5. CASE ReconnectThrows
    BY <2>5 DEF ReconnectThrows, TypeInv, TypeOK, MountInv
  <2>6. ASSUME NEW s \in Socket, Open(s) PROVE TypeInv'
    BY <2>6 DEF Open, TypeInv, TypeOK, MountInv
  <2>7. ASSUME NEW s \in Socket, Closed(s) PROVE TypeInv'
    BY <2>7 DEF Closed, TypeInv, TypeOK, MountInv
  <2>8. ASSUME NEW s \in Socket, AuthOk(s) PROVE TypeInv'
    <3>1. TypeOK'
      <4>1. inbox' \in [Socket -> Seq(Frame)] /\ welcome' \subseteq Socket
        BY <2>8, Arriving DEF AuthOk, TypeOK
      <4>2. retried' = FALSE /\ status' = "connected" /\ beat' = TRUE
            /\ UNCHANGED <<component, key, cur, want, timer, link, server, chat, faults>>
        BY <2>8 DEF AuthOk
      <4>3. QED
        BY ONLY TypeOK, <4>1, <4>2 DEF TypeOK, component, server
    <3>2. MountInv'
      BY <2>8 DEF AuthOk, Arrives, MountInv
    <3>3. QED
      BY <3>1, <3>2 DEF TypeInv
  <2>9. ASSUME NEW s \in Socket, AuthError(s) PROVE TypeInv'
    <3>1. TypeOK'
      <4>1. inbox' \in [Socket -> Seq(Frame)]
        BY <2>9, Arriving DEF AuthError
      <4>2. want' = FALSE /\ status' = "disconnected"
            /\ UNCHANGED <<component, key, cur, timer, retried, beat, link, welcome, server,
                           chat, faults>>
        BY <2>9 DEF AuthError
      <4>3. QED
        BY ONLY TypeOK, <4>1, <4>2 DEF TypeOK, component, server
    <3>2. MountInv'
      BY <2>9 DEF AuthError, Arrives, MountInv
    <3>3. QED
      BY <3>1, <3>2 DEF TypeInv
  <2>10. ASSUME NEW s \in Socket, ServerCloses(s) PROVE TypeInv'
    BY <2>10, Arriving DEF ServerCloses, TypeInv, TypeOK, MountInv
  <2>11. ASSUME NEW s \in Socket, NEW m \in Message, Heard(s, m) PROVE TypeInv'
    BY <2>11, Arriving DEF Heard, TypeInv, TypeOK, MountInv
  <2>12. ASSUME NEW s \in Socket, Lose(s) PROVE TypeInv'
    BY <2>12 DEF Lose, TypeInv, TypeOK, MountInv
  <2>13. ASSUME NEW s \in Socket, Refuse(s) PROVE TypeInv'
    <3>1. inbox' \in [Socket -> Seq(Frame)]
      BY <2>13, Pushing, Frames DEF Refuse, TypeOK
    <3>2. /\ handler' \in [Socket ->
                Token \cup {"idle", "welcomed", "replacing", "serving", "closed"}]
          /\ UNCHANGED <<component, client, link, welcome, entry, chat, faults>>
      BY <2>13 DEF Refuse, TypeOK
    <3>3. TypeOK'
      BY <3>1, <3>2 DEF TypeOK
    <3>4. MountInv'
      BY <3>2 DEF MountInv
    <3>5. QED
      BY <3>3, <3>4 DEF TypeInv
  <2>14. ASSUME NEW s \in Socket, Greet(s) PROVE TypeInv'
    <3>1. inbox' \in [Socket -> Seq(Frame)]
      BY <2>14, Pushing, Frames DEF Greet, TypeOK
    <3>2. /\ handler' \in [Socket ->
                Token \cup {"idle", "welcomed", "replacing", "serving", "closed"}]
          /\ UNCHANGED <<component, client, link, welcome, entry, chat, faults>>
      BY <2>14 DEF Greet, TypeOK
    <3>3. TypeOK'
      BY <3>1, <3>2 DEF TypeOK
    <3>4. MountInv'
      BY <3>2 DEF MountInv
    <3>5. QED
      BY <3>3, <3>4 DEF TypeInv
  <2>15. ASSUME NEW s \in Socket, GreetFails(s) PROVE TypeInv'
    BY <2>15 DEF GreetFails, TypeInv, TypeOK, MountInv
  <2>16. ASSUME NEW s \in Socket, CloseOld(s) PROVE TypeInv'
    <3>1. inbox' \in [Socket -> Seq(Frame)]
      BY <2>16, Pushing, Frames DEF CloseOld, TypeOK
    <3>2. handler' \in [Socket -> Token \cup {"idle", "welcomed", "replacing", "serving", "closed"}]
      BY <2>16 DEF CloseOld, TypeOK
    <3>3. UNCHANGED <<component, client, link, welcome, entry, chat, faults>>
      BY <2>16 DEF CloseOld
    <3>4. TypeOK' /\ MountInv'
      BY <3>1, <3>2, <3>3 DEF TypeOK, MountInv
    <3>5. QED
      BY <3>4 DEF TypeInv
  <2>17. ASSUME NEW s \in Socket, Register(s) PROVE TypeInv'
    BY <2>17 DEF Register, TypeInv, TypeOK, MountInv
  <2>18. ASSUME NEW s \in Socket, Leave(s) PROVE TypeInv'
    BY <2>18 DEF Leave, TypeInv, TypeOK, MountInv
  <2>19. ASSUME NEW m \in Message, Send(m) PROVE TypeInv'
    BY <2>19 DEF Send, TypeInv, TypeOK, MountInv
  <2>20. ASSUME NEW m \in Message, Answer(m) PROVE TypeInv'
    <3>1. inbox' \in [Socket -> Seq(Frame)]
      BY <2>20, Pushing, Frames DEF Answer, TypeOK
    <3>2. QED
      BY <2>20, <3>1 DEF Answer, TypeInv, TypeOK, MountInv
  <2>21. ASSUME NEW m \in Message, Unanswered(m) PROVE TypeInv'
    BY <2>21 DEF Unanswered, TypeInv, TypeOK, MountInv
  <2>22. CASE UNCHANGED vars
    BY <2>22 DEF vars, TypeInv, TypeOK, MountInv
  <2>23. QED
    BY <2>1, <2>2, <2>3, <2>4, <2>5, <2>6, <2>7, <2>8, <2>9, <2>10, <2>11, <2>12, <2>13,
       <2>14, <2>15, <2>16, <2>17, <2>18, <2>19, <2>20, <2>21, <2>22 DEF Next, Browser, Serve
<1>3. QED
  BY <1>1, <1>2, PTL DEF Spec

(* Every reachable state of the chat connection is type-correct.            *)
THEOREM ChatTypeCorrect == Spec => []TypeOK
<1>1. TypeInv => TypeOK
  BY DEF TypeInv
<1>2. QED
  BY <1>1, ChatTypes, PTL

-----------------------------------------------------------------------------
(* The steps of the server, of send() and of the message list: they leave   *)
(* the client and its links alone.                                          *)
LEMMA ServerSteps ==
  ASSUME \/ \E s \in Socket : Serve(s)
         \/ \E m \in Message : Send(m) \/ Answer(m) \/ Unanswered(m)
         \/ \E s \in Socket, m \in Message : Heard(s, m)
         \/ UNCHANGED vars
  PROVE  UNCHANGED <<mounted, token, rekeys, cur, want, timer, status, beat, link, welcome>>
BY DEF Serve, Refuse, Greet, GreetFails, CloseOld, Register, Leave, Send, Answer, Unanswered,
       Heard, vars, component, client

(* How Mount, Rekey and Unmount change the client: by disconnect() or by    *)
(* connect(), and always without a heartbeat.                               *)
LEMMA EffectSteps ==
  ASSUME TypeInv, Mount \/ Unmount \/ \E t \in Token \cup {None} : Rekey(t)
  PROVE  /\ beat' = FALSE /\ status' # "connected" /\ timer' = FALSE /\ welcome' = welcome
         /\ mounted # "no" /\ mounted' # "new"
         /\ \/ cur' = None /\ link' = Dropped /\ want' = FALSE
            \/ /\ mounted' = "yes"
               /\ \E s \in Socket :
                    /\ link[s] = "free" /\ cur' = s /\ link'[s] = "connecting"
                    /\ \A q \in Socket \ {s} : link'[q] = Dropped[q]
<1> TypeOK
  BY DEF TypeInv
<1>1. /\ mounted # "no" /\ mounted' # "new" /\ welcome' = welcome
      /\ Disconnect \/ (mounted' = "yes" /\ \E t \in Token : Connect(t))
  BY DEF Mount, Unmount, Rekey, TypeOK
<1>2. CASE Disconnect
  BY <1>1, <1>2, Disconnecting
<1>3. ASSUME NEW t \in Token, Connect(t), mounted' = "yes"
      PROVE  /\ beat' = FALSE /\ status' # "connected" /\ timer' = FALSE
             /\ \E s \in Socket :
                  /\ link[s] = "free" /\ cur' = s /\ link'[s] = "connecting"
                  /\ \A q \in Socket \ {s} : link'[q] = Dropped[q]
  <2>1. beat' = FALSE /\ timer' = FALSE /\ OpenSocket(Dropped, FALSE)
    BY <1>3, Connecting
  <2>2. PICK s \in Socket :
          /\ link[s] = "free" /\ cur' = s /\ link'[s] = "connecting"
          /\ \A q \in Socket \ {s} : link'[q] = Dropped[q]
          /\ status' \in {"connecting", "reconnecting"}
    BY <2>1, Dropping, Opening
  <2>3. QED
    BY <2>1, <2>2
<1>4. QED
  BY <1>1, <1>2, <1>3

(* The callback of the timer.                                               *)
LEMMA ReconnectSteps ==
  ASSUME TypeInv, Reconnect
  PROVE  /\ timer /\ timer' = FALSE
         /\ UNCHANGED <<mounted, rekeys, want, beat, welcome>>
         /\ \/ ~want /\ UNCHANGED <<cur, link, status>>
            \/ /\ want /\ status' \in {"connecting", "reconnecting"}
               /\ \E s \in Socket :
                    /\ link[s] = "free" /\ cur' = s /\ link'[s] = "connecting"
                    /\ \A q \in Socket \ {s} : link'[q] = link[q]
<1>1. CASE want
  <2>1. /\ link \in [Socket -> {"free", "connecting", "open", "closing"}]
        /\ retried \in BOOLEAN /\ OpenSocket(link, retried)
    BY <1>1 DEF Reconnect, TypeInv, TypeOK
  <2>2. PICK s \in Socket :
          /\ link[s] = "free" /\ cur' = s /\ link'[s] = "connecting"
          /\ \A q \in Socket \ {s} : link'[q] = link[q]
          /\ status' \in {"connecting", "reconnecting"}
    BY <2>1, Opening
  <2>3. QED
    BY <1>1, <2>2 DEF Reconnect, component
<1>2. CASE ~want
  BY <1>2 DEF Reconnect, component
<1>3. QED
  BY <1>1, <1>2

-----------------------------------------------------------------------------
(* "connected" and the heartbeat are backed by a socket that was welcomed   *)
(* and whose close event is still to come: that event clears both.          *)
THEOREM ConnectedAlwaysBacked == Spec => []ConnectedIsBacked
<1>1. Init => ConnectedIsBacked
  BY DEF Init, ConnectedIsBacked
<1>2. TypeInv /\ ConnectedIsBacked /\ [Next]_vars => ConnectedIsBacked'
  <2> SUFFICES ASSUME TypeInv, ConnectedIsBacked, [Next]_vars PROVE ConnectedIsBacked'
    OBVIOUS
  <2> link \in [Socket -> {"free", "connecting", "open", "closing"}] /\ welcome \subseteq Socket
    BY DEF TypeInv, TypeOK
  <2> USE DEF ConnectedIsBacked, component, client
  <2>1. ASSUME \A q \in Socket : link[q] # "free" => link'[q] # "free",
               welcome \subseteq welcome', beat' = beat, status' = "connected" => status = "connected"
        PROVE  ConnectedIsBacked'
    BY <2>1
  <2>2. CASE Mount \/ Unmount \/ \E t \in Token \cup {None} : Rekey(t)
    BY <2>2, EffectSteps
  <2>3. CASE Reconnect
    BY <2>3, <2>1, ReconnectSteps
  <2>4. CASE ReconnectThrows
    BY <2>4, <2>1 DEF ReconnectThrows
  <2>5. ASSUME NEW s \in Socket, Open(s) \/ ServerCloses(s) \/ Lose(s)
        PROVE  ConnectedIsBacked'
    BY <2>5, <2>1 DEF Open, ServerCloses, Lose
  <2>6. ASSUME NEW s \in Socket, Closed(s) PROVE ConnectedIsBacked'
    BY <2>6 DEF Closed
  <2>7. ASSUME NEW s \in Socket, AuthOk(s) PROVE ConnectedIsBacked'
    BY <2>7 DEF AuthOk, Arrives
  <2>8. ASSUME NEW s \in Socket, AuthError(s) PROVE ConnectedIsBacked'
    BY <2>8, <2>1 DEF AuthError
  <2>9. CASE \/ \E s \in Socket : Serve(s)
             \/ \E m \in Message : Send(m) \/ Answer(m) \/ Unanswered(m)
             \/ \E s \in Socket, m \in Message : Heard(s, m)
             \/ UNCHANGED vars
    BY <2>9, <2>1, ServerSteps
  <2>10. QED
    BY <2>2, <2>3, <2>4, <2>5, <2>6, <2>7, <2>8, <2>9 DEF Next, Browser
<1>3. QED
  BY <1>1, <1>2, ChatTypes, PTL DEF Spec

-----------------------------------------------------------------------------
(* Without a change of the token there is one socket at most, the current   *)
(* one: a timer is armed only by the event that ends it.                    *)
THEOREM OneSocketAlways == Spec => []OneSocketPerToken
<1>1. Init => OneSocketPerToken
  BY DEF Init, OneSocketPerToken
<1>2. TypeInv /\ OneSocketPerToken /\ [Next]_vars => OneSocketPerToken'
  <2> SUFFICES ASSUME TypeInv, OneSocketPerToken, [Next]_vars, rekeys' = 0, mounted' = "yes"
               PROVE  /\ \A s \in Socket : link'[s] # "free" => s = cur'
                      /\ status' = "connected" => cur' \in welcome'
                      /\ timer' => cur' = None
    BY DEF OneSocketPerToken
  <2> DEFINE Single == /\ \A s \in Socket : link'[s] # "free" => s = cur'
                       /\ status' = "connected" => cur' \in welcome'
                       /\ timer' => cur' = None
  <2> TypeOK /\ MountInv /\ link \in [Socket -> {"free", "connecting", "open", "closing"}]
    BY DEF TypeInv, TypeOK
  <2> USE DEF component, client
  <2>1. ASSUME mounted = "yes", rekeys = 0
        PROVE  /\ \A s \in Socket : link[s] # "free" => s = cur
               /\ status = "connected" => cur \in welcome
               /\ timer => cur = None
    BY <2>1 DEF OneSocketPerToken
  <2>2. ASSUME NEW s \in Socket, NEW l, link[s] # "free", link' = [link EXCEPT ![s] = l],
               UNCHANGED <<mounted, rekeys, cur, status, timer, welcome>>
        PROVE  Single
    BY <2>1, <2>2
  <2>3. CASE UNCHANGED <<mounted, rekeys, cur, timer, link, welcome>>
             /\ (status' = "connected" => status = "connected")
    BY <2>1, <2>3
  <2>4. CASE Mount
    <3>1. cur = None /\ \A s \in Socket : Dropped[s] = "free"
      BY <2>4, Dropping, ChatAssumption DEF Mount, MountInv
    <3>2. QED
      BY <2>4, <3>1, EffectSteps
  <2>5. CASE Unmount
    BY <2>5 DEF Unmount
  <2>6. ASSUME NEW t \in Token \cup {None}, Rekey(t) PROVE Single
    <3>1. rekeys \in Nat /\ rekeys' = rekeys + 1
      BY <2>6, ChatAssumption DEF Rekey, TypeOK
    <3>2. QED
      BY <3>1
  <2>7. CASE Reconnect
    <3>1. cur = None /\ \A s \in Socket : link[s] = "free"
      BY <2>1, <2>7, ReconnectSteps, ChatAssumption
    <3>2. QED
      BY <2>7, <3>1, <2>1, ReconnectSteps
  <2>8. CASE ReconnectThrows
    <3>1. cur = None
      BY <2>1, <2>8 DEF ReconnectThrows
    <3>2. QED
      BY <2>1, <2>8, <3>1 DEF ReconnectThrows
  <2>9. ASSUME NEW s \in Socket, Open(s) \/ ServerCloses(s) \/ Lose(s) PROVE Single
    BY <2>9, <2>2 DEF Open, ServerCloses, Lose, Arrives
  <2>10. ASSUME NEW s \in Socket, Closed(s) PROVE Single
    <3>1. s = cur
      BY <2>1, <2>10 DEF Closed
    <3>2. QED
      BY <2>1, <2>10, <3>1 DEF Closed
  <2>11. ASSUME NEW s \in Socket, AuthOk(s) PROVE Single
    <3>1. s = cur
      BY <2>1, <2>11 DEF AuthOk, Arrives
    <3>2. QED
      BY <2>1, <2>11, <3>1 DEF AuthOk
  <2>12. ASSUME NEW s \in Socket, AuthError(s) PROVE Single
    BY <2>3, <2>12 DEF AuthError
  <2>13. CASE \/ \E s \in Socket : Serve(s)
              \/ \E m \in Message : Send(m) \/ Answer(m) \/ Unanswered(m)
              \/ \E s \in Socket, m \in Message : Heard(s, m)
              \/ UNCHANGED vars
    BY <2>3, <2>13, ServerSteps
  <2>14. QED
    BY <2>4, <2>5, <2>6, <2>7, <2>8, <2>9, <2>10, <2>11, <2>12, <2>13 DEF Next, Browser
<1>3. QED
  BY <1>1, <1>2, ChatTypes, PTL DEF Spec

-----------------------------------------------------------------------------
(* A component that is gone, or was given null for a token, opens no socket, *)
(* although timers and events of its sockets still run: it wants no         *)
(* connection any more (disconnect(), scheduleReconnect).                   *)
THEOREM NoneIsOpenedUnasked == Spec => NoneOpenedUnasked
<1>1. TypeInv /\ [Next]_vars =>
        [\A s \in Socket : (link[s] = "free" /\ link'[s] = "connecting")
                             => (mounted' = "yes" /\ token' # None)]_vars
  <2> SUFFICES ASSUME TypeInv, Next, NEW q \in Socket, link[q] = "free", link'[q] = "connecting"
               PROVE  mounted' = "yes" /\ token' # None
    BY Zenon
  <2> /\ link \in [Socket -> {"free", "connecting", "open", "closing"}]
      /\ TypeOK /\ (want => mounted = "yes" /\ token # None)
    BY DEF TypeInv, TypeOK, MountInv
  <2>1. ~Disconnect
    BY Disconnecting, Dropping DEF Dropped
  <2>2. CASE Mount
    BY <2>1, <2>2 DEF Mount
  <2>3. CASE Unmount
    BY <2>1, <2>3 DEF Unmount
  <2>4. ASSUME NEW t \in Token \cup {None}, Rekey(t) PROVE mounted' = "yes" /\ token' # None
    BY <2>1, <2>4 DEF Rekey
  <2>5. CASE Reconnect
    <3>1. want
      BY <2>5, ReconnectSteps
    <3>2. QED
      BY <2>5, <3>1 DEF Reconnect, component
  <2>6. CASE ReconnectThrows
    BY <2>6 DEF ReconnectThrows
  <2>7. ASSUME NEW s \in Socket,
               Open(s) \/ Closed(s) \/ ServerCloses(s) \/ Lose(s) \/ AuthOk(s) \/ AuthError(s)
        PROVE  FALSE
    BY <2>7 DEF Open, Closed, ServerCloses, Lose, AuthOk, AuthError, Arrives
  <2>8. CASE \/ \E s \in Socket : Serve(s)
             \/ \E m \in Message : Send(m) \/ Answer(m) \/ Unanswered(m)
             \/ \E s \in Socket, m \in Message : Heard(s, m)
    BY <2>8, ServerSteps
  <2>9. QED
    BY <2>2, <2>3, <2>4, <2>5, <2>6, <2>7, <2>8 DEF Next, Browser
<1>2. QED
  BY <1>1, ChatTypes, PTL DEF Spec, NoneOpenedUnasked

-----------------------------------------------------------------------------
(* Messages dropped by send()                                               *)

(* Nothing went wrong yet: no connection lost, no change of the token.      *)
Calm == mounted = "yes" /\ rekeys = 0 /\ faults = 0

Benign == {"auth_ok"} \cup Message

(* The server ends a socket only by refusing its token, and then the client *)
(* has stopped wanting it before the close frame arrives; a socket it serves *)
(* is open, and no close frame is on its way.                               *)
QuietSocket(s) ==
  /\ handler[s] \in Token \cup {"idle", "welcomed", "serving"}
  /\ handler[s] # "idle" => link[s] = "open" /\ inbox[s] \in Seq(Benign)
  /\ link[s] # "open" \/ handler[s] \in Token => inbox[s] = <<>>
  /\ link[s] = "open" /\ handler[s] = "idle" =>
       \/ inbox[s] = <<"auth_error", "close">>
       \/ inbox[s] = <<"close">> /\ ~want /\ status = "disconnected"
  /\ link[s] = "closing" => ~want /\ status = "disconnected"

QuietClient ==
  /\ ~timer /\ status # "reconnecting"
  /\ status = "connected" => cur # None /\ link[cur] = "open"
  /\ entry # None => handler[entry] = "serving"

CalmInv ==
  /\ mounted = "new" =>
       entry = None /\ \A s \in Socket : handler[s] = "idle" /\ inbox[s] = <<>>
  /\ Calm => QuietClient /\ \A s \in Socket : QuietSocket(s)

LEMMA BenignFrames ==
  /\ \A q \in Seq(Benign), f \in Benign : q \o <<f>> \in Seq(Benign)
  /\ \A q \in Seq(Benign) : q # <<>> => Head(q) \in Benign /\ Tail(q) \in Seq(Benign)
  /\ <<>> \in Seq(Benign) /\ "auth_error" \notin Benign /\ "close" \notin Benign
  /\ <<>> \o <<"auth_error", "close">> = <<"auth_error", "close">>
BY ChatAssumption DEF Benign

(* Mounting finds no handler and no frame, and leaves at most one socket,   *)
(* connecting.                                                              *)
LEMMA MountIsQuiet ==
  ASSUME TypeInv, CalmInv, Mount
  PROVE  QuietClient' /\ \A s \in Socket : QuietSocket(s)'
<1>1. /\ cur = None /\ entry = None
      /\ \A s \in Socket : link[s] = "free" /\ handler[s] = "idle" /\ inbox[s] = <<>>
      /\ UNCHANGED <<handler, entry>>
  BY DEF Mount, TypeInv, MountInv, CalmInv, server
<1>2. /\ inbox' = inbox /\ timer' = FALSE
      /\ status' \in {"disconnected", "connecting"}
      /\ \A s \in Socket : link'[s] \in {"free", "connecting"}
  <2>1. Dropped = link
    BY <1>1 DEF Dropped
  <2>2. CASE Disconnect
    BY <1>1, <2>1, <2>2 DEF Disconnect
  <2>3. CASE Connect(token)
    <3>1. inbox' = inbox /\ timer' = FALSE /\ OpenSocket(link, FALSE)
      BY <1>1, <2>1, <2>3 DEF Connect
    <3>2. PICK s \in Socket : /\ link' = [link EXCEPT ![s] = "connecting"]
                              /\ status' = "connecting"
      BY <3>1 DEF OpenSocket
    <3>3. QED BY <1>1, <3>1, <3>2 DEF TypeInv, TypeOK
  <2>4. QED BY <2>2, <2>3 DEF Mount
<1>3. QED
  BY <1>1, <1>2, ChatAssumption DEF QuietClient, QuietSocket

(* A step that leaves socket q alone, while the client does not begin to    *)
(* want a connection.                                                       *)
LEMMA OthersQuiet ==
  ASSUME NEW q \in Socket, QuietSocket(q),
         UNCHANGED <<handler[q], inbox[q], link[q]>>,
         \/ link[q] = "free"
         \/ UNCHANGED <<want, status>>
  PROVE  QuietSocket(q)'
BY DEF QuietSocket

(* The events of the browser, the timer and send() while all is calm.       *)
LEMMA BrowserIsQuiet ==
  ASSUME TypeInv, OneSocketPerToken, CalmInv, Calm, Calm',
         \/ Reconnect \/ ReconnectThrows
         \/ \E m \in Message : Send(m) \/ Unanswered(m)
         \/ \E s \in Socket : Browser(s) \/ Lose(s)
  PROVE  QuietClient' /\ \A s \in Socket : QuietSocket(s)'
<1> USE DEF component, client, server
<1>1. /\ QuietClient /\ \A s \in Socket : QuietSocket(s)
      /\ \A s \in Socket : link[s] # "free" => s = cur
      /\ faults \in Nat /\ faults + 1 # 0
      /\ handler \in [Socket -> Token \cup {"idle", "welcomed", "replacing", "serving", "closed"}]
      /\ inbox \in [Socket -> Seq(Frame)]
      /\ link \in [Socket -> {"free", "connecting", "open", "closing"}]
      /\ entry \in Socket \cup {None}
  BY ChatAssumption DEF CalmInv, Calm, OneSocketPerToken, TypeInv, TypeOK
<1>2. ~Reconnect /\ ~ReconnectThrows /\ \A s \in Socket : ~Lose(s)
  BY <1>1 DEF Reconnect, ReconnectThrows, Lose, QuietClient, Calm
<1>3. ASSUME NEW m \in Message, Send(m) PROVE QuietClient' /\ \A s \in Socket : QuietSocket(s)'
  BY <1>1, <1>3, OthersQuiet DEF Send, QuietClient
<1>4. ASSUME NEW m \in Message, Unanswered(m)
      PROVE  QuietClient' /\ \A s \in Socket : QuietSocket(s)'
  BY <1>1, <1>4, OthersQuiet DEF Unanswered, QuietClient
<1>5. ASSUME NEW s \in Socket, Browser(s),
             \A q \in Socket \ {s} : UNCHANGED <<handler[q], inbox[q], link[q]>>,
             QuietSocket(s)', QuietClient', s = cur
      PROVE  QuietClient' /\ \A q \in Socket : QuietSocket(q)'
  BY <1>1, <1>5, OthersQuiet
<1>6. ASSUME NEW s \in Socket, Open(s) PROVE QuietClient' /\ \A q \in Socket : QuietSocket(q)'
  <2>1. /\ s = cur /\ key \in Token /\ inbox[s] = <<>> /\ link[s] = "connecting"
        /\ status # "connected" /\ handler[s] = "idle"
    BY <1>1, <1>6 DEF Open, TypeInv, MountInv, QuietSocket, QuietClient
  <2>2. /\ handler' = [handler EXCEPT ![s] = key] /\ link' = [link EXCEPT ![s] = "open"]
        /\ UNCHANGED <<inbox, want, timer, status, cur, entry>>
    BY <1>6 DEF Open
  <2>3. handler'[s] = key /\ link'[s] = "open" /\ inbox'[s] = <<>>
    BY <1>1, <2>1, <2>2
  <2>4. QuietSocket(s)'
    BY <2>1, <2>3, BenignFrames, ChatAssumption DEF QuietSocket
  <2>5. QuietClient'
    BY <1>1, <2>1, <2>2 DEF QuietClient
  <2>6. QED BY <1>1, <1>5, <1>6, <2>1, <2>2, <2>4, <2>5 DEF Browser
<1>7. ASSUME NEW s \in Socket, Closed(s) PROVE QuietClient' /\ \A q \in Socket : QuietSocket(q)'
  <2>1. /\ s = cur /\ ~want /\ inbox[s] = <<>> /\ handler[s] = "idle"
    <3>1. link[s] = "closing"
      BY <1>7 DEF Closed
    <3>2. QuietSocket(s) /\ s = cur
      BY <1>1, <3>1
    <3>3. QED BY <3>1, <3>2 DEF QuietSocket
  <2>2. /\ link' = [link EXCEPT ![s] = "free"] /\ status' = "disconnected"
        /\ ~timer' /\ UNCHANGED <<handler, inbox, want, entry>>
    BY <1>1, <1>7, <2>1 DEF Closed, QuietClient
  <2>3. QuietSocket(s)'
    BY <1>1, <2>1, <2>2, ChatAssumption DEF QuietSocket
  <2>4. QuietClient'
    BY <1>1, <2>2 DEF QuietClient
  <2>5. QED BY <1>1, <1>5, <1>7, <2>1, <2>2, <2>3, <2>4 DEF Browser
<1>8. ASSUME NEW s \in Socket, NEW frame \in Frame, Arrives(s, frame)
      PROVE  /\ s = cur /\ link[s] = "open" /\ inbox[s] # <<>> /\ Head(inbox[s]) = frame
             /\ inbox' = [inbox EXCEPT ![s] = Tail(@)] /\ inbox'[s] = Tail(inbox[s])
             /\ handler[s] # "idle" => /\ frame \in Benign /\ inbox'[s] \in Seq(Benign)
                                       /\ handler[s] \notin Token
             /\ handler[s] = "idle" =>
                  \/ frame = "auth_error" /\ inbox'[s] = <<"close">>
                  \/ frame = "close" /\ inbox'[s] = <<>> /\ ~want /\ status = "disconnected"
  <2>1. /\ s = cur /\ link[s] = "open" /\ inbox[s] # <<>> /\ Head(inbox[s]) = frame
        /\ inbox' = [inbox EXCEPT ![s] = Tail(@)] /\ inbox'[s] = Tail(inbox[s])
    BY <1>1, <1>8 DEF Arrives
  <2>2. handler[s] # "idle" => /\ frame \in Benign /\ inbox'[s] \in Seq(Benign)
                               /\ handler[s] \notin Token
    BY <1>1, <2>1, BenignFrames DEF QuietSocket
  <2>3. ASSUME handler[s] = "idle"
        PROVE  \/ frame = "auth_error" /\ inbox'[s] = <<"close">>
               \/ frame = "close" /\ inbox'[s] = <<>> /\ ~want /\ status = "disconnected"
    <3>1. \/ inbox[s] = <<"auth_error", "close">>
          \/ inbox[s] = <<"close">> /\ ~want /\ status = "disconnected"
      BY <1>1, <2>1, <2>3 DEF QuietSocket
    <3>2. /\ Head(<<"auth_error", "close">>) = "auth_error"
          /\ Tail(<<"auth_error", "close">>) = <<"close">>
          /\ Head(<<"close">>) = "close" /\ Tail(<<"close">>) = <<>>
      OBVIOUS
    <3>3. QED BY <2>1, <3>1, <3>2
  <2>4. QED BY <2>1, <2>2, <2>3
<1>9. ASSUME NEW s \in Socket, AuthOk(s) PROVE QuietClient' /\ \A q \in Socket : QuietSocket(q)'
  <2>1. /\ Arrives(s, "auth_ok") /\ status' = "connected"
        /\ UNCHANGED <<handler, link, want, timer, cur, entry>>
    BY <1>9 DEF AuthOk
  <2>2. "auth_ok" \in Frame
    BY DEF Frame
  <2>3. /\ s = cur /\ link[s] = "open" /\ handler[s] # "idle" /\ inbox'[s] \in Seq(Benign)
        /\ inbox' = [inbox EXCEPT ![s] = Tail(@)] /\ handler[s] \notin Token
    BY <1>8, <2>1, <2>2
  <2>4. QuietSocket(s)'
    BY <1>1, <2>1, <2>3 DEF QuietSocket
  <2>5. QuietClient'
    BY <1>1, <2>1, <2>3, ChatAssumption DEF QuietClient
  <2>6. QED BY <1>1, <1>5, <1>9, <2>1, <2>3, <2>4, <2>5 DEF Browser
<1>10. ASSUME NEW s \in Socket, AuthError(s)
       PROVE  QuietClient' /\ \A q \in Socket : QuietSocket(q)'
  <2>1. /\ Arrives(s, "auth_error") /\ status' = "disconnected" /\ want' = FALSE
        /\ UNCHANGED <<handler, link, timer, cur, entry>>
    BY <1>10 DEF AuthError
  <2>2. "auth_error" \in Frame
    BY DEF Frame
  <2>3. /\ s = cur /\ link[s] = "open" /\ handler[s] = "idle" /\ inbox'[s] = <<"close">>
        /\ inbox' = [inbox EXCEPT ![s] = Tail(@)]
    BY <1>8, <2>1, <2>2, BenignFrames
  <2>4. QuietSocket(s)'
    BY <1>1, <2>1, <2>3, ChatAssumption DEF QuietSocket
  <2>5. QuietClient'
    BY <1>1, <2>1 DEF QuietClient
  <2>6. QED BY <1>1, <1>5, <1>10, <2>1, <2>3, <2>4, <2>5 DEF Browser
<1>11. ASSUME NEW s \in Socket, ServerCloses(s)
       PROVE  QuietClient' /\ \A q \in Socket : QuietSocket(q)'
  <2>1. /\ Arrives(s, "close") /\ link' = [link EXCEPT ![s] = "closing"]
        /\ UNCHANGED <<handler, want, status, timer, cur, entry>>
    BY <1>11 DEF ServerCloses
  <2>2. "close" \in Frame
    BY DEF Frame
  <2>3. /\ s = cur /\ handler[s] = "idle" /\ inbox'[s] = <<>>
        /\ inbox' = [inbox EXCEPT ![s] = Tail(@)] /\ ~want /\ status = "disconnected"
    BY <1>8, <2>1, <2>2, BenignFrames
  <2>4. QuietSocket(s)'
    BY <1>1, <2>1, <2>3, ChatAssumption DEF QuietSocket
  <2>5. QuietClient'
    BY <1>1, <2>1, <2>3 DEF QuietClient
  <2>6. QED BY <1>1, <1>5, <1>11, <2>1, <2>3, <2>4, <2>5 DEF Browser
<1>12. ASSUME NEW s \in Socket, NEW m \in Message, Heard(s, m)
       PROVE  QuietClient' /\ \A q \in Socket : QuietSocket(q)'
  <2>1. Arrives(s, m) /\ UNCHANGED <<handler, link, want, status, timer, cur, entry>>
    BY <1>12 DEF Heard
  <2>2. m \in Frame /\ m # "auth_error" /\ m # "close"
    BY ChatAssumption DEF Frame
  <2>3. /\ s = cur /\ link[s] = "open" /\ handler[s] # "idle" /\ inbox'[s] \in Seq(Benign)
        /\ inbox' = [inbox EXCEPT ![s] = Tail(@)] /\ handler[s] \notin Token
    BY <1>8, <2>1, <2>2
  <2>4. QuietSocket(s)'
    BY <1>1, <2>1, <2>3 DEF QuietSocket
  <2>5. QuietClient'
    BY <1>1, <2>1 DEF QuietClient
  <2>6. QED BY <1>1, <1>5, <1>12, <2>1, <2>3, <2>4, <2>5 DEF Browser
<1>13. QED
  BY <1>2, <1>3, <1>4, <1>6, <1>7, <1>9, <1>10, <1>11, <1>12 DEF Browser

(* The server's steps while all is calm: only a refusal closes a socket.     *)
LEMMA ServerIsQuiet ==
  ASSUME TypeInv, OneSocketPerToken, CalmInv, Calm,
         \/ \E s \in Socket : Serve(s)
         \/ \E m \in Message : Answer(m)
  PROVE  QuietClient' /\ \A s \in Socket : QuietSocket(s)'
<1> USE DEF component, client, server
<1>1. /\ QuietClient /\ \A s \in Socket : QuietSocket(s)
      /\ \A s \in Socket : link[s] # "free" => s = cur
      /\ handler \in [Socket -> Token \cup {"idle", "welcomed", "replacing", "serving", "closed"}]
      /\ inbox \in [Socket -> Seq(Frame)]
      /\ entry \in Socket \cup {None}
  BY ChatAssumption DEF CalmInv, Calm, OneSocketPerToken, TypeInv, TypeOK
<1>2. ASSUME NEW s \in Socket, NEW h,
             h \in Token \cup {"idle", "welcomed", "serving"},
             handler' = [handler EXCEPT ![s] = h], handler[s] # "idle", handler[s] # "serving",
             UNCHANGED <<client, link>>,
             \A q \in Socket \ {s} : inbox'[q] = inbox[q],
             entry' = entry \/ (entry' = s /\ h = "serving"),
             h = "idle" => inbox'[s] = <<"auth_error", "close">>,
             h # "idle" => h \notin Token /\ inbox'[s] \in Seq(Benign)
      PROVE  QuietClient' /\ \A q \in Socket : QuietSocket(q)'
  <2>1. link[s] = "open" /\ handler'[s] = h
    BY <1>1, <1>2 DEF QuietSocket
  <2>2. QuietSocket(s)'
    BY <1>2, <2>1, ChatAssumption DEF QuietSocket
  <2>3. QuietClient'
    BY <1>1, <1>2, <2>1 DEF QuietClient
  <2>4. QED BY <1>1, <1>2, <2>2, <2>3, OthersQuiet
<1>3. ASSUME NEW s \in Socket, Refuse(s) PROVE QuietClient' /\ \A q \in Socket : QuietSocket(q)'
  <2>1. /\ handler[s] \in Token /\ handler' = [handler EXCEPT ![s] = "idle"]
        /\ UNCHANGED <<client, link, entry>> /\ Push(s, <<"auth_error", "close">>)
    BY <1>3, ChatAssumption DEF Refuse
  <2>2. inbox[s] = <<>> /\ link[s] = "open" /\ handler[s] # "idle" /\ handler[s] # "serving"
    BY <1>1, <2>1, ChatAssumption DEF QuietSocket
  <2>3. inbox' = [inbox EXCEPT ![s] = <<"auth_error", "close">>]
    BY <2>1, <2>2, BenignFrames DEF Push
  <2>4. QED BY <1>1, <1>2, <2>1, <2>2, <2>3
<1>4. ASSUME NEW s \in Socket, Greet(s) PROVE QuietClient' /\ \A q \in Socket : QuietSocket(q)'
  <2>1. /\ handler[s] \in Token /\ handler' = [handler EXCEPT ![s] = "welcomed"]
        /\ UNCHANGED <<client, link, entry>> /\ Push(s, <<"auth_ok">>)
    BY <1>4 DEF Greet
  <2>2. /\ inbox[s] \in Seq(Benign) /\ link[s] = "open"
        /\ handler[s] # "idle" /\ handler[s] # "serving"
    BY <1>1, <2>1, ChatAssumption DEF QuietSocket
  <2>3. inbox' = [inbox EXCEPT ![s] = @ \o <<"auth_ok">>]
    BY <2>1, <2>2 DEF Push
  <2>4. inbox'[s] \in Seq(Benign)
    BY <1>1, <2>2, <2>3, BenignFrames DEF Benign
  <2>5. "welcomed" \notin Token
    BY ChatAssumption
  <2>6. QED BY <1>1, <1>2, <2>1, <2>2, <2>3, <2>4, <2>5
<1>5. ASSUME NEW s \in Socket PROVE ~GreetFails(s) /\ ~CloseOld(s) /\ ~Leave(s)
  <2>1. ~GreetFails(s)
    BY <1>1, ChatAssumption DEF GreetFails, QuietSocket
  <2>2. ~CloseOld(s)
    BY <1>1 DEF CloseOld, QuietSocket
  <2>3. ~Leave(s)
    BY <1>1, ChatAssumption DEF Leave, QuietSocket
  <2>4. QED BY <2>1, <2>2, <2>3
<1>6. ASSUME NEW s \in Socket, Register(s) PROVE QuietClient' /\ \A q \in Socket : QuietSocket(q)'
  <2>1. /\ handler[s] \in {"welcomed", "replacing"} /\ entry' = s
        /\ handler' = [handler EXCEPT ![s] = "serving"]
        /\ UNCHANGED <<client, link, inbox>>
    BY <1>6 DEF Register
  <2>2. inbox[s] \in Seq(Benign) /\ "serving" \notin Token
    BY <1>1, <2>1, ChatAssumption DEF QuietSocket
  <2>3. QED BY <1>2, <2>1, <2>2
<1>7. ASSUME NEW m \in Message, Answer(m) PROVE QuietClient' /\ \A q \in Socket : QuietSocket(q)'
  <2>1. /\ entry \in Socket /\ link[entry] = "open" /\ handler[entry] = "serving"
        /\ Push(entry, <<m>>) /\ UNCHANGED <<client, link, server>>
    BY <1>1, <1>7 DEF Answer, QuietClient
  <2>2. inbox' = [inbox EXCEPT ![entry] = @ \o <<m>>]
    BY <2>1 DEF Push
  <2>3. inbox'[entry] \in Seq(Benign)
    BY <1>1, <2>1, <2>2, BenignFrames DEF Benign, QuietSocket
  <2>4. QuietSocket(entry)'
    BY <1>1, <2>1, <2>3, ChatAssumption DEF QuietSocket
  <2>5. \A q \in Socket \ {entry} : QuietSocket(q)'
    BY <1>1, <2>1, <2>2, OthersQuiet
  <2>6. QuietClient'
    BY <1>1, <2>1 DEF QuietClient
  <2>7. QED BY <2>1, <2>4, <2>5, <2>6
<1>8. QED
  BY <1>3, <1>4, <1>5, <1>6, <1>7 DEF Serve

(* Who mounts and unmounts the component, changes the token or counts a     *)
(* fault.                                                                   *)
LEMMA MountedSteps ==
  ASSUME TypeInv, [Next]_vars
  PROVE  /\ \/ mounted' = mounted
            \/ Mount /\ mounted = "new" /\ mounted' = "yes"
            \/ Unmount /\ mounted' = "no"
         /\ rekeys' = 0 => rekeys = 0
         /\ faults' = 0 => faults = 0
<1> USE DEF component, client, server
<1>1. rekeys \in Nat /\ faults \in Nat /\ rekeys + 1 # 0 /\ faults + 1 # 0
  BY ChatAssumption DEF TypeInv, TypeOK
<1>2. ASSUME NEW t \in Token \cup {None}, Rekey(t)
      PROVE  rekeys' # 0 /\ faults' = faults /\ mounted' = mounted
  BY <1>1, <1>2 DEF Rekey
<1>3. CASE Mount \/ Unmount
  BY <1>3 DEF Mount, Unmount
<1>4. CASE ReconnectThrows \/ \E s \in Socket : Lose(s)
  BY <1>1, <1>4 DEF ReconnectThrows, Lose
<1>5. CASE Reconnect \/ \E s \in Socket : Browser(s)
  BY <1>5 DEF Reconnect, Browser, Open, Closed, AuthOk, AuthError, ServerCloses, Heard
<1>6. CASE UNCHANGED vars \/ \E m \in Message : Send(m) \/ Answer(m) \/ Unanswered(m)
  BY <1>6 DEF vars, Send, Answer, Unanswered
<1>7. CASE \E s \in Socket : Serve(s)
  BY <1>7 DEF Serve, Refuse, Greet, GreetFails, CloseOld, Register, Leave
<1>8. QED
  BY <1>2, <1>3, <1>4, <1>5, <1>6, <1>7 DEF Next

(* What cannot be the step between two calm states.                         *)
LEMMA CalmSteps ==
  ASSUME TypeInv, Calm'
  PROVE  ~Unmount /\ \A t \in Token \cup {None} : ~Rekey(t)
<1>1. rekeys \in Nat /\ rekeys + 1 # 0
  BY ChatAssumption DEF TypeInv, TypeOK
<1>2. QED
  BY <1>1 DEF Calm, Unmount, Rekey

(* Who moves a message.                                                     *)
LEMMA ChatSteps ==
  ASSUME [Next]_vars
  PROVE  \/ chat' = chat
         \/ \E m \in Message : Send(m) \/ Answer(m) \/ Unanswered(m)
         \/ \E s \in Socket, m \in Message : Heard(s, m)
<1>1. CASE Mount \/ Unmount \/ \E t \in Token \cup {None} : Rekey(t)
  BY <1>1 DEF Mount, Unmount, Rekey
<1>2. CASE Reconnect \/ ReconnectThrows \/ (\E s \in Socket : Lose(s)) \/ UNCHANGED vars
  BY <1>2 DEF Reconnect, ReconnectThrows, Lose, vars
<1>3. CASE \E s \in Socket : Browser(s)
  BY <1>3 DEF Browser, Open, Closed, AuthOk, AuthError, ServerCloses
<1>4. CASE \E s \in Socket : Serve(s)
  BY <1>4 DEF Serve, Refuse, Greet, GreetFails, CloseOld, Register, Leave
<1>5. QED
  BY <1>1, <1>2, <1>3, <1>4 DEF Next

(* Before the mount nothing happens.                                        *)
LEMMA NewIsStill ==
  ASSUME TypeInv, CalmInv, [Next]_vars, mounted = "new"
  PROVE  Mount \/ UNCHANGED <<component, handler, inbox, entry>>
<1> USE DEF component, client, server
<1>1. /\ entry = None /\ ~timer
      /\ \A s \in Socket : handler[s] = "idle" /\ inbox[s] = <<>> /\ link[s] = "free"
  BY DEF CalmInv, TypeInv, MountInv
<1>2. ~Unmount /\ ~Reconnect /\ ~ReconnectThrows /\ \A t \in Token \cup {None} : ~Rekey(t)
  BY <1>1 DEF Unmount, Reconnect, ReconnectThrows, Rekey
<1>3. \A m \in Message : ~Send(m) /\ ~Answer(m)
  BY <1>1 DEF Send, Answer
<1>4. ASSUME NEW m \in Message, Unanswered(m) PROVE UNCHANGED <<component, handler, inbox, entry>>
  BY <1>1, <1>4 DEF Unanswered
<1>5. ASSUME NEW s \in Socket PROVE ~Browser(s) /\ ~Lose(s)
  BY <1>1 DEF Browser, Open, Closed, AuthOk, AuthError, ServerCloses, Heard, Arrives, Lose
<1>6. ASSUME NEW s \in Socket PROVE ~Serve(s)
  <2>1. handler[s] = "idle" /\ "idle" \notin Token
    BY <1>1, ChatAssumption
  <2>2. QED
    BY <2>1, ChatAssumption
       DEF Serve, Refuse, Greet, GreetFails, CloseOld, Register, Leave
<1>7. CASE UNCHANGED vars
  BY <1>7 DEF vars
<1>8. QED BY <1>2, <1>3, <1>4, <1>5, <1>6, <1>7 DEF Next

LEMMA StaysCalm ==
  ASSUME TypeInv, OneSocketPerToken, CalmInv, [Next]_vars
  PROVE  CalmInv'
<1> USE DEF component, client, server
<1>1. CASE mounted = "new"
  <2>1. CASE Mount
    BY <2>1, MountIsQuiet DEF CalmInv, Mount
  <2>2. CASE UNCHANGED <<component, handler, inbox, entry>>
    BY <1>1, <2>2 DEF CalmInv, Calm
  <2>3. QED BY <1>1, <2>1, <2>2, NewIsStill
<1>2. CASE mounted # "new"
  <2>1. ~Mount /\ mounted' # "new" /\ (Calm' => mounted = "yes")
    BY <1>2, MountedSteps DEF Mount, Calm
  <2>2. ASSUME Calm' PROVE QuietClient' /\ \A s \in Socket : QuietSocket(s)'
    <3>1. Calm /\ ~Unmount /\ \A t \in Token \cup {None} : ~Rekey(t)
      BY <1>2, <2>1, <2>2, MountedSteps, CalmSteps DEF Calm
    <3>2. CASE UNCHANGED vars
      BY <3>1, <3>2, OthersQuiet DEF CalmInv, vars, QuietClient
    <3>3. CASE \/ Reconnect \/ ReconnectThrows
               \/ \E m \in Message : Send(m) \/ Unanswered(m)
               \/ \E s \in Socket : Browser(s) \/ Lose(s)
      BY <2>2, <3>1, <3>3, BrowserIsQuiet
    <3>4. CASE \/ \E s \in Socket : Serve(s)
               \/ \E m \in Message : Answer(m)
      BY <3>1, <3>4, ServerIsQuiet
    <3>5. QED BY <2>1, <3>1, <3>2, <3>3, <3>4 DEF Next
  <2>3. QED BY <2>1, <2>2 DEF CalmInv
<1>3. QED BY <1>1, <1>2

(* While nothing has gone wrong the input is open only on an open socket,   *)
(* so send() drops no message.                                              *)
THEOREM NothingDroppedInCalm == Spec => []DroppedAfterTrouble
<1>1. Init => CalmInv /\ DroppedAfterTrouble
  BY ChatAssumption DEF Init, CalmInv, Calm, DroppedAfterTrouble
<1>2. TypeInv /\ OneSocketPerToken /\ CalmInv /\ [Next]_vars => CalmInv'
  BY StaysCalm
<1>3. TypeInv /\ CalmInv /\ DroppedAfterTrouble /\ [Next]_vars => DroppedAfterTrouble'
  <2> SUFFICES ASSUME TypeInv, CalmInv, DroppedAfterTrouble, [Next]_vars,
                      rekeys' = 0, faults' = 0, NEW n \in Message
               PROVE  chat'[n] # "dropped"
    BY DEF DroppedAfterTrouble
  <2>1. rekeys = 0 /\ faults = 0 /\ chat[n] # "dropped"
        /\ chat \in [Message -> {"unsent", "sent", "replied", "shown", "dropped", "lost"}]
    BY MountedSteps DEF DroppedAfterTrouble, TypeInv, TypeOK
  <2>2. ASSUME NEW m \in Message, Send(m) PROVE chat'[n] # "dropped"
    <3>1. cur # None /\ link[cur] = "open"
      BY <2>1, <2>2 DEF Send, CalmInv, Calm, QuietClient
    <3>2. chat' = [chat EXCEPT ![m] = "sent"]
      BY <2>2, <3>1 DEF Send
    <3>3. QED BY <2>1, <3>2
  <2>3. CASE \/ \E m \in Message : Answer(m) \/ Unanswered(m)
             \/ \E s \in Socket, m \in Message : Heard(s, m)
    BY <2>1, <2>3 DEF Answer, Unanswered, Heard
  <2>4. CASE chat' = chat
    BY <2>1, <2>4
  <2>5. QED BY <2>2, <2>3, <2>4, ChatSteps
<1>4. QED BY <1>1, <1>2, <1>3, ChatTypes, OneSocketAlways, PTL DEF Spec
=============================================================================
