---------------------------- MODULE HostContract ----------------------------
(***************************************************************************)
(* What the supervisor relies on of one HostSession: start() resolves      *)
(* once; a mount has one answer, settled no later than the failure of the  *)
(* session; a failure after ready is reported once, through onFatal, and   *)
(* only when the child is gone; a session stopped while ready reports      *)
(* nothing.  The phases are those of the hosts of HostSupervisor.          *)
(***************************************************************************)
CONSTANTS Pages, NoPage

VARIABLES
  phase,   \* created, starting, aborted, ready, failed, stopping, gone
  mount    \* page of the unanswered mount, or NoPage

Init == phase = "created" /\ mount = NoPage

Start == phase = "created" /\ phase' = "starting" /\ UNCHANGED mount

Ready == phase = "starting" /\ phase' = "ready" /\ UNCHANGED mount

StartFails ==
  phase \in {"starting", "aborted"} /\ phase' = "gone" /\ UNCHANGED mount

Mount ==
  /\ phase = "ready" /\ mount = NoPage
  /\ mount' \in Pages /\ UNCHANGED phase

MountReply ==
  /\ phase = "ready" /\ mount # NoPage
  /\ mount' = NoPage /\ UNCHANGED phase

Fails == phase = "ready" /\ phase' = "failed" /\ mount' = NoPage

FatalReported == phase = "failed" /\ phase' = "gone" /\ UNCHANGED mount

(* stop(); before ready it kills, and a child that has answered already    *)
(* may still be seen to become ready (LateReady).                          *)
Stop ==
  /\ \/ phase = "ready" /\ phase' = "stopping"
     \/ phase = "starting" /\ phase' = "aborted"
  /\ mount' = NoPage

LateReady ==
  phase = "aborted" /\ phase' \in {"failed", "stopping"} /\ UNCHANGED mount

StopEnds == phase = "stopping" /\ phase' = "gone" /\ UNCHANGED mount

Next ==
  \/ Start \/ Ready \/ StartFails \/ Mount \/ MountReply \/ Fails
  \/ FatalReported \/ Stop \/ LateReady \/ StopEnds

Spec == Init /\ [][Next]_<<phase, mount>>

=============================================================================
