---------------------------- MODULE GatewayRelay ----------------------------
(***************************************************************************)
(* The relay connections of one gateway: the WebSocket handler of          *)
(* api/ws_gateway.py, the in-memory pool of                                *)
(* services/ws_relay/gateway_pool.py, the gateway's status column, and the *)
(* chat messages message_router.py forwards through the pool.              *)
(*                                                                         *)
(* Everything runs in one event loop, so a step is what a coroutine does   *)
(* between two awaits.  The pool maps gateway ids to sockets; entries of   *)
(* different gateways never touch, and this module follows one entry.      *)
(***************************************************************************)
EXTENDS Naturals

CONSTANTS
  Conn,        \* sockets the gateway opens, one handler each
  Message,     \* chat messages of H5 users for an agent of the gateway
  None,        \* no entry in the pool
  MaxReports,  \* bound on heartbeats and re-registrations over REST
  MaxFaults    \* bound on handshakes and clean-ups that fail half way

ASSUME RelayAssumption ==
  /\ None \notin Conn
  /\ MaxReports \in Nat /\ MaxFaults \in Nat

VARIABLES
  pc,       \* where the handler of each socket stands
  socket,   \* "open", "gone" (peer left) or "closed" (by the server)
  pool,     \* GatewayPool._connections[gateway_id]
  status,   \* Gateway.status
  route,    \* progress of each message through route_h5_to_agent
  target,   \* the socket a message is being written to
  newest,   \* the socket registered last (history)
  reports,  \* REST reports so far
  faults    \* half-way failures so far

vars == <<pc, socket, pool, status, route, target, newest, reports, faults>>
relayed == <<route, target>>
counted == <<reports, faults>>

Init ==
  /\ pc = [c \in Conn |-> "new"]
  /\ socket = [c \in Conn |-> "open"]
  /\ pool = None /\ newest = None
  /\ status = "offline"
  /\ route = [m \in Message |-> "new"]
  /\ target = [m \in Message |-> None]
  /\ reports = 0 /\ faults = 0

-----------------------------------------------------------------------------
(* The handshake: the token is good and the status is committed before      *)
(* auth_ok goes out.                                                        *)
Authenticate(c) ==
  /\ pc[c] = "new" /\ socket[c] = "open"
  /\ pc' = [pc EXCEPT ![c] = "authenticated"]
  /\ status' = "online"
  /\ UNCHANGED <<socket, pool, newest, relayed, counted>>

(* auth_ok cannot be written: the exception leaves the handler before its   *)
(* try block, so nothing is cleaned up.                                     *)
AuthOkFails(c) ==
  /\ pc[c] = "authenticated" /\ socket[c] = "gone" /\ faults < MaxFaults
  /\ pc' = [pc EXCEPT ![c] = "done"]
  /\ faults' = faults + 1
  /\ UNCHANGED <<socket, pool, newest, status, relayed, reports>>

(* self._connections[gateway_id] = websocket, then the message loop.        *)
SetEntry(c) ==
  /\ pool' = c /\ newest' = c
  /\ pc' = [pc EXCEPT ![c] = "serving"]

(* register_gateway without an entry, or with one whose close() raises at   *)
(* once because the server closed it before: no await separates the lookup  *)
(* from the assignment.                                                     *)
RegisterNow(c) ==
  /\ pc[c] = "authenticated"
  /\ pool # None => socket[pool] = "closed"
  /\ SetEntry(c)
  /\ UNCHANGED <<socket, status, relayed, counted>>

(* register_gateway with an entry: its socket is closed, and the handler    *)
(* waits for that before it sets the entry.                                 *)
CloseOld(c) ==
  /\ pc[c] = "authenticated" /\ pool # None /\ socket[pool] # "closed"
  /\ socket' = [socket EXCEPT ![pool] = "closed"]
  /\ pc' = [pc EXCEPT ![c] = "replacing"]
  /\ UNCHANGED <<pool, newest, status, relayed, counted>>

Replace(c) ==
  /\ pc[c] = "replacing"
  /\ SetEntry(c)
  /\ UNCHANGED <<socket, status, relayed, counted>>

(* unregister_gateway pops whatever entry the gateway has.                  *)
UnregisterUnlessReplaced(c) ==  \* a replaced handler leaves the entry alone
  pool' = IF socket[c] = "closed" THEN pool ELSE None

Unregister(c) == pool' = None

(* receive_text raises once the socket is not open: the finally block.      *)
Leave(c) ==
  /\ pc[c] = "serving" /\ socket[c] # "open"
  /\ Unregister(c)
  /\ pc' = [pc EXCEPT ![c] = "leaving"]
  /\ UNCHANGED <<socket, newest, status, relayed, counted>>

(* The clean-up reads the gateway and writes only over "online".            *)
AfterReadOnly(st) == "done"  \* the status is read and never written

AfterRead(st) == IF st = "online" THEN "marking" ELSE "done"

ReadStatus(c) ==
  /\ pc[c] = "leaving"
  /\ pc' = [pc EXCEPT ![c] = AfterRead(status)]
  /\ UNCHANGED <<socket, pool, newest, status, relayed, counted>>

MarkOffline(c) ==
  /\ pc[c] = "marking"
  /\ status' = "offline"
  /\ pc' = [pc EXCEPT ![c] = "done"]
  /\ UNCHANGED <<socket, pool, newest, relayed, counted>>

(* The database fails during the clean-up: the exception is only logged.    *)
CleanupFails(c) ==
  /\ pc[c] \in {"leaving", "marking"} /\ faults < MaxFaults
  /\ pc' = [pc EXCEPT ![c] = "done"]
  /\ faults' = faults + 1
  /\ UNCHANGED <<socket, pool, newest, status, relayed, reports>>

(* The gateway drops the connection.                                        *)
Drop(c) ==
  /\ pc[c] # "new" /\ socket[c] = "open"
  /\ socket' = [socket EXCEPT ![c] = "gone"]
  /\ UNCHANGED <<pc, pool, newest, status, relayed, counted>>

-----------------------------------------------------------------------------
(* REST: a heartbeat or a re-registration, and a graceful shutdown.         *)
ReportOnline ==
  /\ reports < MaxReports
  /\ reports' = reports + 1
  /\ status' = "online"
  /\ UNCHANGED <<pc, socket, pool, newest, relayed, faults>>

Deregister ==
  /\ status' = "offline"
  /\ UNCHANGED <<pc, socket, pool, newest, relayed, counted>>

-----------------------------------------------------------------------------
(* route_h5_to_agent after the session commit: look the gateway up.         *)
LookUp(m) ==
  /\ route[m] = "new"
  /\ target' = [target EXCEPT ![m] = pool]
  /\ route' = [route EXCEPT ![m] = IF pool = None THEN "publishing" ELSE "sending"]
  /\ UNCHANGED <<pc, socket, pool, newest, status, counted>>

(* send_text returns; the peer may have left without the server noticing.   *)
SendWorks(m) ==
  /\ route[m] = "sending" /\ socket[target[m]] # "closed"
  /\ route' = [route EXCEPT ![m] = "forwarded"]
  /\ UNCHANGED <<pc, socket, pool, newest, status, target, counted>>

(* send_text raises: send_to_gateway unregisters the gateway, and the       *)
(* router tries Redis.                                                      *)
SendFails(m) ==
  /\ route[m] = "sending" /\ socket[target[m]] # "open"
  /\ Unregister(target[m])
  /\ route' = [route EXCEPT ![m] = "publishing"]
  /\ UNCHANGED <<pc, socket, newest, status, target, counted>>

(* redis_bridge.publish returns True when Redis took the message, although  *)
(* no instance ever subscribes to the channel.                              *)
Publish(m) ==
  /\ route[m] = "publishing"
  /\ \E outcome \in {"forwarded", "failed"} : route' = [route EXCEPT ![m] = outcome]
  /\ UNCHANGED <<pc, socket, pool, newest, status, target, counted>>

-----------------------------------------------------------------------------
Handle(c) ==
  \/ RegisterNow(c) \/ CloseOld(c) \/ Replace(c)
  \/ Leave(c) \/ ReadStatus(c) \/ MarkOffline(c)

Route(m) == SendWorks(m) \/ SendFails(m) \/ Publish(m)

Next ==
  \/ \E c \in Conn : \/ Authenticate(c) \/ AuthOkFails(c) \/ Handle(c)
                     \/ CleanupFails(c) \/ Drop(c)
  \/ ReportOnline \/ Deregister
  \/ \E m \in Message : LookUp(m) \/ Route(m)

Spec == Init /\ [][Next]_vars

-----------------------------------------------------------------------------
TypeOK ==
  /\ pc \in [Conn -> {"new", "authenticated", "replacing", "serving",
                      "leaving", "marking", "done"}]
  /\ socket \in [Conn -> {"open", "gone", "closed"}]
  /\ pool \in Conn \cup {None} /\ newest \in Conn \cup {None}
  /\ status \in {"online", "offline"}
  /\ route \in [Message -> {"new", "sending", "publishing", "forwarded", "failed"}]
  /\ target \in [Message -> Conn \cup {None}]
  /\ reports \in 0..MaxReports /\ faults \in 0..MaxFaults

(* The pool never keeps a socket whose handler is gone, however             *)
(* replacements, failed sends and departures interleave: the popping        *)
(* handler may take another handler's entry, but no entry outlives its own. *)
NoDeadEntry == pool # None => pc[pool] = "serving"

(* Once every handler of the gateway has ended, the database says offline,  *)
(* though handlers of overlapping connections read and write the status in  *)
(* any order; unless a REST call reported for it, or a handshake or         *)
(* clean-up failed half way.                                                *)
QuietMeansOffline ==
  (reports = 0 /\ faults = 0 /\ \A c \in Conn : pc[c] \in {"new", "done"})
    => status = "offline"

(* "a new connection replaces the previous one": the socket registered last *)
(* is in the pool for as long as its peer is there and its handler serves.  *)
NewestIsPooled ==
  (newest # None /\ pc[newest] = "serving" /\ socket[newest] = "open")
    => pool = newest
=============================================================================
