---------------------------- MODULE DeviceTrust ----------------------------
(***************************************************************************)
(* What the agent promises about devices, whatever requests, threads and   *)
(* database statements it takes: a device arrives by spending a credential *)
(* nobody spent before, is trusted or refused by the operator as often as  *)
(* he likes, and once expelled stays out.  DeviceAccess implements this.   *)
(***************************************************************************)
CONSTANTS Device,    \* device identities
          OneShot,   \* pairing codes and one-time keys
          Permanent  \* permanent keys, which may be used any number of times

VARIABLES standing,  \* what a device is to the agent
          spent      \* one-shot credentials used up

vars == <<standing, spent>>

Standing == {"unknown", "waiting", "trusted", "refused", "expelled"}

Init ==
    /\ standing = [d \in Device |-> "unknown"]
    /\ spent = {}

Arrive(d, c, as) ==
    /\ standing[d] = "unknown"
    /\ c \notin spent
    /\ standing' = [standing EXCEPT ![d] = as]
    /\ spent' = IF c \in OneShot THEN spent \cup {c} ELSE spent

\* One-time keys made obsolete by their successor.
Obsolete ==
    /\ spent' \in SUBSET OneShot
    /\ spent \subseteq spent'
    /\ UNCHANGED standing

Judge(d, as) ==
    /\ standing[d] \in {"waiting", "trusted", "refused"}
    /\ standing' = [standing EXCEPT ![d] = as]
    /\ UNCHANGED spent

Expel(d) ==
    /\ standing[d] # "unknown"
    /\ standing' = [standing EXCEPT ![d] = "expelled"]
    /\ UNCHANGED spent

Next ==
    \/ Obsolete
    \/ \E d \in Device :
          \/ \E as \in {"waiting", "trusted"}, c \in OneShot \cup Permanent : Arrive(d, c, as)
          \/ \E as \in {"trusted", "refused"} : Judge(d, as)
          \/ Expel(d)

Spec == Init /\ [][Next]_vars
=============================================================================
