---------------------------- MODULE MCChatClient ----------------------------
(* Finite instances of ChatClient for TLC: ids of sockets are not symmetric *)
(* for the liveness properties.                                             *)
EXTENDS ChatClient, TLC

CONSTANTS s1, s2, s3, m1, k1, k2, k3

(* Messages are followed until the token changes: the property about them   *)
(* ends there.  Neither Send nor Rekey is fair, so no behaviour is cut      *)
(* short that the fairness lets go on.                                      *)
SentBeforeRekey == rekeys = 0 \/ \A m \in Message : chat[m] = "unsent"
=============================================================================
