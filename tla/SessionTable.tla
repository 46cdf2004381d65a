---------------------------- MODULE SessionTable ----------------------------
(***************************************************************************)
(* What the daemon's session table promises its callers, with every lock,  *)
(* task and side effect hidden: a session id is handed out once, becomes   *)
(* live once, and once it is gone it never names a session again.          *)
(* SessionRegistry implements this specification.                          *)
(***************************************************************************)
CONSTANT Id             \* the session ids the daemon can hand out

VARIABLE status         \* status[s]: where session s is in its life

Status == {"unused", "live", "gone"}

TypeOK == status \in [Id -> Status]

Init == status = [s \in Id |-> "unused"]

(* A spawned session becomes visible in the table.                         *)
Register(s) ==
  /\ status[s] = "unused"
  /\ status' = [status EXCEPT ![s] = "live"]

(* A kill request or the end of the child takes the session out.           *)
Retire(s) ==
  /\ status[s] = "live"
  /\ status' = [status EXCEPT ![s] = "gone"]

Next == \E s \in Id : Register(s) \/ Retire(s)

Spec == Init /\ [][Next]_status
=============================================================================
