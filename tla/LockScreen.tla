----------------------------- MODULE LockScreen -----------------------------
(***************************************************************************)
(* The screen locker (thermal-lock/src/main.rs): the password box, the     *)
(* rate limit and the lock surfaces, driven by batches of Wayland events,  *)
(* after each of which the loop runs its tail.  Key presses wait while PAM *)
(* is asked, so an attempt is one step.                                    *)
(***************************************************************************)
EXTENDS Naturals, Sequences

CONSTANTS
  Char,            \* characters that can be typed
  Output,          \* outputs there were when the lock was requested
  MaxTyped,        \* bound: length of the password box
  MaxFailures      \* bound: failed attempts

ASSUME LockAssumption == {MaxTyped, MaxFailures} \subseteq Nat

VARIABLES
  password,        \* AuthState.password
  shaking,         \* shake_timer > 0, and failed
  failedAttempts,  \* AuthState.failed_attempts
  lockout,         \* lockout_until: none, active, expired
  pending,         \* pending_surfaces
  gpu,             \* wgpu_surfaces
  fallback,        \* outputs whose SHM buffer is kept alive
  exit, denied,    \* LockApp
  stirred,         \* events were dispatched, the tail has not run since
  locker,          \* running, or how it ended
  shows,           \* each output: nothing, fallback or gpu content
  typed,           \* history: what the user has typed into the box
  wiped,           \* history: the end of a shake took characters with it
  failures,        \* history: failed attempts,
  unlimited        \* and those since the last lock-out began

lockVars == <<password, shaking, failedAttempts, lockout, pending, gpu,
              fallback, exit, denied, stirred, locker, shows, typed, wiped,
              failures, unlimited>>
authVars == <<password, shaking, failedAttempts, lockout, typed, wiped,
              failures, unlimited>>
surfaceVars == <<pending, gpu, fallback, shows>>
endVars == <<exit, denied, locker>>

LockTypeOK ==
  /\ password \in Seq(Char) /\ typed \in Seq(Char)
  /\ {shaking, exit, denied, stirred, wiped} \subseteq BOOLEAN
  /\ failedAttempts \in 0 .. MaxFailures
  /\ lockout \in {"none", "active", "expired"}
  /\ pending \subseteq Output /\ gpu \subseteq Output
  /\ fallback \subseteq Output
  /\ locker \in {"running", "unlocked", "denied", "failed"}
  /\ shows \in [Output -> {"nothing", "fallback", "gpu"}]
  /\ failures \in 0 .. MaxFailures
  /\ unlimited \in 0 .. MaxFailures

(* Every output has its surface before the loop starts.                    *)
LockInit ==
  /\ password = <<>> /\ typed = <<>> /\ wiped = FALSE
  /\ shaking = FALSE
  /\ failedAttempts = 0 /\ failures = 0 /\ unlimited = 0
  /\ lockout = "none"
  /\ pending = Output /\ gpu = {} /\ fallback = {}
  /\ shows = [o \in Output |-> "nothing"]
  /\ exit = FALSE /\ denied = FALSE
  /\ stirred = FALSE
  /\ locker = "running"

-----------------------------------------------------------------------------
(* A key press gets past the lock-out only once it has expired; it then    *)
(* ends it, without the reset of the counter that the tail would do.       *)
KeyPasses ==
  /\ locker = "running" /\ lockout # "active"
  /\ stirred' = TRUE
  /\ UNCHANGED <<surfaceVars, endVars>>

KeyIgnored ==
  /\ locker = "running" /\ lockout = "active"
  /\ stirred' = TRUE
  /\ UNCHANGED <<authVars, surfaceVars, endVars>>

TypeChar(ch) ==
  /\ KeyPasses /\ lockout' = "none"
  /\ Len(typed) < MaxTyped
  /\ password' = Append(password, ch)
  /\ typed' = Append(typed, ch)
  /\ UNCHANGED <<shaking, failedAttempts, wiped, failures, unlimited>>

Shorter(s) == IF s = <<>> THEN s ELSE SubSeq(s, 1, Len(s) - 1)

Backspace ==
  /\ KeyPasses /\ lockout' = "none"
  /\ password' = Shorter(password)
  /\ typed' = Shorter(typed)
  /\ UNCHANGED <<shaking, failedAttempts, wiped, failures, unlimited>>

(* Fault: an off-by-one in the rate limit.                                 *)
LimitReachedLate(attempts) == attempts > 3

LimitReached(attempts) == attempts >= 3

(* Return: PAM is asked, and its verdict waited for.  What was accepted    *)
(* stays in the box until the process ends.                                *)
Accepted ==
  /\ locker = "running" /\ lockout # "active"
  /\ exit' = TRUE
  /\ lockout' = "none"
  /\ stirred' = TRUE
  /\ UNCHANGED <<password, shaking, failedAttempts, typed, wiped, failures,
                 unlimited, surfaceVars, denied, locker>>

Rejected ==
  /\ KeyPasses
  /\ failures < MaxFailures
  /\ failures' = failures + 1
  /\ shaking' = TRUE
  /\ failedAttempts' = failedAttempts + 1
  /\ password' = <<>> /\ typed' = <<>> /\ wiped' = FALSE
  /\ lockout' = IF LimitReached(failedAttempts') THEN "active" ELSE "none"
  /\ unlimited' = IF LimitReached(failedAttempts') THEN 0 ELSE unlimited + 1

(* The two seconds of the lock-out pass.                                   *)
LockoutPasses ==
  /\ lockout = "active"
  /\ lockout' = "expired"
  /\ UNCHANGED <<password, shaking, failedAttempts, typed, wiped, failures,
                 unlimited, surfaceVars, endVars, stirred>>

-----------------------------------------------------------------------------
(* Fault: the buffers go with the first surface that is on the GPU.        *)
FallbackOnceAnyGpu(waiting, kept) == {}

(* The SHM buffers are kept until no surface is waiting for the GPU.       *)
FallbackAfterGpu(waiting, kept) == IF waiting = {} THEN {} ELSE kept

(* The first configure of a surface, or one after its GPU surface could    *)
(* not be made: a buffer of one colour is committed, if it can be had, and *)
(* then the surface moves to the GPU or goes back to the pending ones.     *)
ConfigurePending(o, shm, made) ==
  /\ locker = "running" /\ o \in pending
  /\ stirred' = TRUE
  /\ LET kept == IF shm THEN fallback \cup {o} ELSE fallback IN
     IF made
       THEN /\ pending' = pending \ {o}
            /\ gpu' = gpu \cup {o}
            /\ fallback' = FallbackAfterGpu(pending', kept)
       ELSE fallback' = kept /\ UNCHANGED <<pending, gpu>>
  /\ shows' = IF shm THEN [shows EXCEPT ![o] = "fallback"] ELSE shows
  /\ UNCHANGED <<authVars, endVars>>

(* Any other event that wakes the loop: a frame callback, a configure of a *)
(* surface on the GPU or of no size, a change of outputs (ignored).        *)
OtherEvent ==
  /\ locker = "running"
  /\ stirred' = TRUE
  /\ UNCHANGED <<authVars, surfaceVars, endVars>>

(* The compositor refuses the lock.                                        *)
Finished ==
  /\ locker = "running"
  /\ denied' = TRUE
  /\ stirred' = TRUE
  /\ UNCHANGED <<authVars, surfaceVars, exit, locker>>

(* The dispatch itself fails: the locker unlocks and leaves.               *)
DispatchFails ==
  /\ locker = "running"
  /\ locker' = "failed"
  /\ UNCHANGED <<authVars, surfaceVars, exit, denied, stirred>>

(* Fault: the box is cleared whenever no shake is running.                 *)
ShakeOver(over) ==
  IF over \/ ~shaking
    THEN /\ shaking' = FALSE
         /\ password' = <<>>
         /\ wiped' = (wiped \/ (shaking /\ password # <<>>))
    ELSE UNCHANGED <<shaking, password, wiped>>

(* The half second of a shake ends, if it is over: whatever has been typed *)
(* in it goes.                                                             *)
ShakeTick(over) ==
  IF shaking /\ over
    THEN /\ shaking' = FALSE
         /\ password' = <<>>
         /\ wiped' = (wiped \/ password # <<>>)
    ELSE UNCHANGED <<shaking, password, wiped>>

(* After a batch of events: leave, or tick the timers and draw.  A surface *)
(* whose texture cannot be had (lost, outdated, timed out, out of memory)  *)
(* is left as it is, to be tried again by a later tail.                    *)
LoopTail(over, drawn) ==
  /\ locker = "running" /\ stirred
  /\ stirred' = FALSE
  /\ IF denied \/ exit
       THEN /\ locker' = IF denied THEN "denied" ELSE "unlocked"
            /\ UNCHANGED <<authVars, surfaceVars>>
       ELSE /\ ShakeTick(over)
            /\ IF lockout = "expired"
                 THEN lockout' = "none" /\ failedAttempts' = 0
                 ELSE UNCHANGED <<lockout, failedAttempts>>
            /\ shows' = [o \in Output |-> IF o \in drawn THEN "gpu" ELSE shows[o]]
            /\ UNCHANGED <<typed, failures, unlimited, pending, gpu, fallback,
                           locker>>
  /\ UNCHANGED <<exit, denied>>

LockNext ==
  \/ KeyIgnored \/ Backspace \/ Accepted \/ Rejected \/ LockoutPasses
  \/ \E ch \in Char : TypeChar(ch)
  \/ \E o \in Output, shm, made \in BOOLEAN : ConfigurePending(o, shm, made)
  \/ OtherEvent \/ Finished \/ DispatchFails
  \/ \E over \in BOOLEAN, drawn \in SUBSET gpu : LoopTail(over, drawn)

LockSpec == LockInit /\ [][LockNext]_lockVars

-----------------------------------------------------------------------------
(* However attempts, expiries and the loop's tail interleave, there are    *)
(* never three failed attempts in a row without a lock-out.                *)
RateLimited == unlimited < 3

(* PAM gets what the user typed: characters are lost only to the end of a  *)
(* failed attempt's shake.                                                 *)
TypedIsKept == ~wiped => password = typed

(* In whatever order the outputs are configured, and whichever draws and   *)
(* GPU surfaces fail, the buffer an output shows is given up only once     *)
(* every output has its GPU surface.  (It may then be gone before the GPU  *)
(* has drawn there: the release does not wait for the drawing.)            *)
FallbackIsKept ==
  \A o \in Output : shows[o] = "fallback" => o \in fallback \/ gpu = Output
=============================================================================
