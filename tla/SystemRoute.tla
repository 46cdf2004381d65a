----------------------------- MODULE SystemRoute -----------------------------
(***************************************************************************)
(* What becomes of a message to @system (dispatch_system in                *)
(* messages/routing.rs): the dispatcher may only call tools that read, no  *)
(* more than a few commands pass in a window of time, and the tool's trust *)
(* tier may still block it.  The limit is the process's own.               *)
(***************************************************************************)
EXTENDS Naturals, Sequences

CONSTANTS
  RateMax,        \* SYSTEM_RATE_LIMIT_MAX
  RateWindow,     \* SYSTEM_RATE_LIMIT_WINDOW
  MaxTime         \* bound: the clock

ASSUME RateAssumption ==
  RateMax \in Nat \ {0} /\ RateWindow \in Nat /\ MaxTime \in Nat

VARIABLES
  clock,          \* Instant::now
  timestamps,     \* SYSTEM_COMMAND_TIMESTAMPS
  executed        \* history: when commands reached the commander, in order

routeVars == <<clock, timestamps, executed>>

Time == 0 .. MaxTime

RouteTypeOK ==
  /\ clock \in Time
  /\ timestamps \in Seq(Time) /\ Len(timestamps) <= RateMax
  /\ executed \in Seq(Time)

RouteInit == clock = 0 /\ timestamps = <<>> /\ executed = <<>>

-----------------------------------------------------------------------------
(* Fault: a command leaves the window when it is exactly that old.         *)
OutOfWindowAtEdge(t) == clock - t >= RateWindow

(* Only what is older than the window is evicted, from the front until the *)
(* first that is not.                                                      *)
OutOfWindow(t) == clock - t > RateWindow

Evicted == CHOOSE k \in 0 .. Len(timestamps) :
  /\ \A j \in 1 .. k : OutOfWindow(timestamps[j])
  /\ k < Len(timestamps) => ~OutOfWindow(timestamps[k + 1])

Recent == SubSeq(timestamps, Evicted + 1, Len(timestamps))

TimePasses ==
  /\ clock < MaxTime
  /\ clock' = clock + 1
  /\ UNCHANGED <<timestamps, executed>>

Permitted(by, tool) == by = "dispatcher" => tool = "reads"

(* Fault: one command too many passes.                                     *)
DispatchSystemOneMore(by, tool, tier) ==
  /\ Permitted(by, tool)
  /\ Len(Recent) <= RateMax
  /\ timestamps' = Append(Recent, clock)
  /\ executed' = IF tier = "block" THEN executed
                 ELSE Append(executed, clock)
  /\ UNCHANGED clock

(* The command is counted before its tier is looked at: a tool that is     *)
(* blocked uses up the limit as well.  Confirmation is not waited for.     *)
DispatchSystem(by, tool, tier) ==
  /\ Permitted(by, tool)
  /\ Len(Recent) < RateMax
  /\ timestamps' = Append(Recent, clock)
  /\ executed' = IF tier = "block" THEN executed
                 ELSE Append(executed, clock)
  /\ UNCHANGED clock

(* BLOCKED ahead of the limit, or RATE LIMITED: only the eviction remains. *)
RefuseCommand(by, tool) ==
  /\ timestamps' = IF Permitted(by, tool) THEN Recent ELSE timestamps
  /\ Permitted(by, tool) => Len(Recent) >= RateMax
  /\ UNCHANGED <<clock, executed>>

RouteNext ==
  \/ TimePasses
  \/ \E by \in {"dispatcher", "other"}, tool \in {"reads", "writes"} :
       \/ \E tier \in {"block", "confirm", "auto"} : DispatchSystem(by, tool, tier)
       \/ RefuseCommand(by, tool)

RouteSpec == RouteInit /\ [][RouteNext]_routeVars

-----------------------------------------------------------------------------
(* No more than RateMax commands reach the commander within RateWindow,    *)
(* its ends included, whatever the mix of senders, tools and refusals.     *)
RateIsBounded ==
  \A i \in 1 .. Len(executed) :
    i + RateMax <= Len(executed) =>
      executed[i + RateMax] - executed[i] > RateWindow
=============================================================================
