------------------------- MODULE GatewayRelayProofs -------------------------
(***************************************************************************)
(* Safety of the relay connections for every set of connections and        *)
(* messages: the pool holds no dead entry, and a gateway without handlers  *)
(* is offline as long as only the handlers speak for it.                   *)
(***************************************************************************)
EXTENDS GatewayRelay, TLAPS

(* Handlers that committed "online" and have not looked at the status since *)
(* their connection ended, or are about to write "offline".                 *)
Engaged == {"authenticated", "replacing", "serving", "leaving", "marking"}

(* What makes QuietMeansOffline inductive: an online gateway nobody reported *)
(* for has a handler that will still clean up after itself.                  *)
OnlineIsAttended ==
  (reports = 0 /\ faults = 0 /\ status = "online")
    => \E c \in Conn : pc[c] \in Engaged

-----------------------------------------------------------------------------
(* The type invariant of the relay holds in every reachable state.          *)
THEOREM RelayTypes == Spec => []TypeOK
<1>1. Init => TypeOK
  BY RelayAssumption DEF Init, TypeOK
<1>2. TypeOK /\ [Next]_vars => TypeOK'
  <2> SUFFICES ASSUME TypeOK, [Next]_vars PROVE TypeOK'
    OBVIOUS
  <2> USE RelayAssumption DEF TypeOK, relayed, counted
  <2>1. ASSUME NEW c \in Conn, Authenticate(c) PROVE TypeOK'
    BY <2>1 DEF Authenticate
  <2>2. ASSUME NEW c \in Conn, AuthOkFails(c) PROVE TypeOK'
    BY <2>2 DEF AuthOkFails
  <2>3. ASSUME NEW c \in Conn, RegisterNow(c) PROVE TypeOK'
    BY <2>3 DEF RegisterNow, SetEntry
  <2>4. ASSUME NEW c \in Conn, CloseOld(c) PROVE TypeOK'
    BY <2>4 DEF CloseOld
  <2>5. ASSUME NEW c \in Conn, Replace(c) PROVE TypeOK'
    BY <2>5 DEF Replace, SetEntry
  <2>6. ASSUME NEW c \in Conn, Leave(c) PROVE TypeOK'
    BY <2>6 DEF Leave, Unregister
  <2>7. ASSUME NEW c \in Conn, ReadStatus(c) PROVE TypeOK'
    BY <2>7 DEF ReadStatus, AfterRead
  <2>8. ASSUME NEW c \in Conn, MarkOffline(c) PROVE TypeOK'
    BY <2>8 DEF MarkOffline
  <2>9. ASSUME NEW c \in Conn, CleanupFails(c) PROVE TypeOK'
    BY <2>9 DEF CleanupFails
  <2>10. ASSUME NEW c \in Conn, Drop(c) PROVE TypeOK'
    BY <2>10 DEF Drop
  <2>11. CASE ReportOnline
    BY <2>11 DEF ReportOnline
  <2>12. CASE Deregister
    BY <2>12 DEF Deregister
  <2>13. ASSUME NEW m \in Message, LookUp(m) PROVE TypeOK'
    BY <2>13 DEF LookUp
  <2>14. ASSUME NEW m \in Message, SendWorks(m) PROVE TypeOK'
    BY <2>14 DEF SendWorks
  <2>15. ASSUME NEW m \in Message, SendFails(m) PROVE TypeOK'
    BY <2>15 DEF SendFails, Unregister
  <2>16. ASSUME NEW m \in Message, Publish(m) PROVE TypeOK'
    BY <2>16 DEF Publish
  <2>17. CASE UNCHANGED vars
    BY <2>17 DEF vars
  <2>18. QED
    BY <2>1, <2>2, <2>3, <2>4, <2>5, <2>6, <2>7, <2>8, <2>9, <2>10, <2>11,
       <2>12, <2>13, <2>14, <2>15, <2>16, <2>17 DEF Next, Handle, Route
<1>3. QED
  BY <1>1, <1>2, PTL DEF Spec

-----------------------------------------------------------------------------
(* The pool never keeps a socket whose handler has ended: the entry is set  *)
(* only by a handler that starts serving, and a handler stops serving only  *)
(* in the step that empties the entry.                                      *)
THEOREM PoolHasNoDeadEntry == Spec => []NoDeadEntry
<1>1. Init => NoDeadEntry
  BY DEF Init, NoDeadEntry
<1>2. TypeOK /\ NoDeadEntry /\ [Next]_vars => NoDeadEntry'
  <2> SUFFICES ASSUME TypeOK, NoDeadEntry, [Next]_vars PROVE NoDeadEntry'
    OBVIOUS
  <2> USE RelayAssumption DEF TypeOK, NoDeadEntry
  <2>1. ASSUME NEW c \in Conn, pool' = c, pc' = [pc EXCEPT ![c] = "serving"]
        PROVE  NoDeadEntry'
    BY <2>1
  <2>2. CASE pool' = None
    BY <2>2
  <2>3. ASSUME NEW c \in Conn, NEW p, pc[c] # "serving",
               pc' = [pc EXCEPT ![c] = p], pool' = pool
        PROVE  NoDeadEntry'
    BY <2>3
  <2>4. CASE pc' = pc /\ pool' = pool
    BY <2>4
  <2>5. ASSUME NEW c \in Conn, Handle(c) PROVE NoDeadEntry'
    <3>1. CASE RegisterNow(c) \/ Replace(c)
      BY <3>1, <2>1 DEF RegisterNow, Replace, SetEntry
    <3>2. CASE Leave(c)
      BY <3>2, <2>2 DEF Leave, Unregister
    <3>3. CASE CloseOld(c) \/ ReadStatus(c) \/ MarkOffline(c)
      BY <3>3, <2>3 DEF CloseOld, ReadStatus, MarkOffline
    <3>4. QED
      BY <2>5, <3>1, <3>2, <3>3 DEF Handle
  <2>6. ASSUME NEW c \in Conn, Authenticate(c) \/ AuthOkFails(c) \/ CleanupFails(c)
        PROVE  NoDeadEntry'
    BY <2>6, <2>3 DEF Authenticate, AuthOkFails, CleanupFails
  <2>7. ASSUME NEW c \in Conn, Drop(c) PROVE NoDeadEntry'
    BY <2>7, <2>4 DEF Drop
  <2>8. CASE ReportOnline \/ Deregister \/ UNCHANGED vars
    BY <2>8, <2>4 DEF ReportOnline, Deregister, vars
  <2>9. ASSUME NEW m \in Message, LookUp(m) \/ SendWorks(m) \/ Publish(m)
        PROVE  NoDeadEntry'
    BY <2>9, <2>4 DEF LookUp, SendWorks, Publish
  <2>10. ASSUME NEW m \in Message, SendFails(m) PROVE NoDeadEntry'
    BY <2>10, <2>2 DEF SendFails, Unregister
  <2>11. QED
    BY <2>5, <2>6, <2>7, <2>8, <2>9, <2>10 DEF Next, Route
<1>3. QED
  BY <1>1, <1>2, RelayTypes, PTL DEF Spec

-----------------------------------------------------------------------------
(* A gateway all of whose handlers have ended is offline in the database,   *)
(* as long as no REST call has reported it online and no handshake or       *)
(* clean-up has failed half way.                                            *)
THEOREM QuietIsOffline == Spec => []QuietMeansOffline
<1>1. Init => OnlineIsAttended
  BY DEF Init, OnlineIsAttended
<1>2. TypeOK /\ OnlineIsAttended /\ [Next]_vars => OnlineIsAttended'
  <2> SUFFICES ASSUME TypeOK, OnlineIsAttended, [Next]_vars
               PROVE  OnlineIsAttended'
    OBVIOUS
  <2> USE DEF TypeOK, OnlineIsAttended, Engaged
  <2>1. ASSUME NEW c \in Conn, NEW p \in Engaged, pc' = [pc EXCEPT ![c] = p]
        PROVE  OnlineIsAttended'
    BY <2>1
  <2>2. CASE status' = "offline"
    BY <2>2
  <2>3. CASE pc' = pc /\ status' = status /\ UNCHANGED counted
    BY <2>3 DEF counted
  <2>4. ASSUME NEW c \in Conn, Handle(c) PROVE OnlineIsAttended'
    <3>1. CASE RegisterNow(c) \/ Replace(c)
      BY <3>1, <2>1 DEF RegisterNow, Replace, SetEntry
    <3>2. CASE CloseOld(c) \/ Leave(c)
      BY <3>2, <2>1 DEF CloseOld, Leave
    <3>3. CASE ReadStatus(c)
      <4>1. CASE status = "online"
        BY <3>3, <4>1, <2>1 DEF ReadStatus, AfterRead
      <4>2. CASE status = "offline"
        BY <3>3, <4>2, <2>2 DEF ReadStatus
      <4>3. QED
        BY <4>1, <4>2
    <3>4. CASE MarkOffline(c)
      BY <3>4, <2>2 DEF MarkOffline
    <3>5. QED
      BY <2>4, <3>1, <3>2, <3>3, <3>4 DEF Handle
  <2>5. ASSUME NEW c \in Conn, Authenticate(c) PROVE OnlineIsAttended'
    BY <2>5, <2>1 DEF Authenticate
  <2>6. ASSUME NEW c \in Conn, AuthOkFails(c) \/ CleanupFails(c)
        PROVE  OnlineIsAttended'
    BY <2>6, RelayAssumption DEF AuthOkFails, CleanupFails
  <2>7. ASSUME NEW c \in Conn, Drop(c) PROVE OnlineIsAttended'
    BY <2>7, <2>3 DEF Drop
  <2>8. CASE ReportOnline
    BY <2>8, RelayAssumption DEF ReportOnline
  <2>9. CASE Deregister
    BY <2>9, <2>2 DEF Deregister
  <2>10. ASSUME NEW m \in Message, LookUp(m) \/ Route(m)
         PROVE  OnlineIsAttended'
    BY <2>10, <2>3 DEF LookUp, Route, SendWorks, SendFails, Publish
  <2>11. CASE UNCHANGED vars
    BY <2>11, <2>3 DEF vars
  <2>12. QED
    BY <2>4, <2>5, <2>6, <2>7, <2>8, <2>9, <2>10, <2>11 DEF Next
<1>3. TypeOK /\ OnlineIsAttended => QuietMeansOffline
  BY DEF TypeOK, OnlineIsAttended, QuietMeansOffline, Engaged
<1>4. QED
  BY <1>1, <1>2, <1>3, RelayTypes, PTL DEF Spec
=============================================================================
