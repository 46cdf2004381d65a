------------------------------ MODULE MCServices ------------------------------
(* Instances for TLC of the parts of the session service: a behaviour picks *)
(* one of them and runs it, while the others rest in their initial states.  *)
(* The parts do not share state: each models what it needs of its           *)
(* neighbours.  The session registry has one client here, and no worktrees. *)
EXTENDS SessionRegistry, DaemonLifecycle, DaemonClient, PreviewPane, MessageLog,
        SystemRoute, StateInference, StatePoller

VARIABLE running   \* the part of this behaviour

servicesVars == <<running, vars, lifecycleVars, clientVars, previewVars, logVars,
                  routeVars, inferenceVars, pollVars>>

ServicesInit ==
  /\ running \in {"registry", "lifecycle", "client", "preview", "log", "route",
                  "inference", "files"}
  /\ Init /\ LifecycleInit /\ ClientInit /\ PreviewInit /\ LogInit /\ RouteInit
  /\ InferenceInit /\ PollInit
  /\ agentKnown => running = "inference"

RegistryRuns ==
  /\ running = "registry" /\ Next
  /\ UNCHANGED <<lifecycleVars, clientVars, previewVars, logVars, routeVars,
                 inferenceVars, pollVars>>

LifecycleRuns ==
  /\ running = "lifecycle" /\ LifecycleNext
  /\ UNCHANGED <<vars, clientVars, previewVars, logVars, routeVars,
                 inferenceVars, pollVars>>

ClientRuns ==
  /\ running = "client" /\ ClientNext
  /\ UNCHANGED <<vars, lifecycleVars, previewVars, logVars, routeVars,
                 inferenceVars, pollVars>>

PreviewRuns ==
  /\ running = "preview" /\ PreviewNext
  /\ UNCHANGED <<vars, lifecycleVars, clientVars, logVars, routeVars,
                 inferenceVars, pollVars>>

LogRuns ==
  /\ running = "log" /\ LogNext
  /\ UNCHANGED <<vars, lifecycleVars, clientVars, previewVars, routeVars,
                 inferenceVars, pollVars>>

RouteRuns ==
  /\ running = "route" /\ RouteNext
  /\ UNCHANGED <<vars, lifecycleVars, clientVars, previewVars, logVars,
                 inferenceVars, pollVars>>

InferenceRuns ==
  /\ running = "inference" /\ InferenceNext
  /\ UNCHANGED <<vars, lifecycleVars, clientVars, previewVars, logVars,
                 routeVars, pollVars>>

FilesRuns ==
  /\ running = "files" /\ PollNext
  /\ UNCHANGED <<vars, lifecycleVars, clientVars, previewVars, logVars,
                 routeVars, inferenceVars>>

ServicesNext ==
  /\ UNCHANGED running
  /\ \/ RegistryRuns \/ LifecycleRuns \/ ClientRuns \/ PreviewRuns
     \/ LogRuns \/ RouteRuns \/ InferenceRuns \/ FilesRuns

(* The registry is at rest while another part runs: nothing of what its    *)
(* fairness asks for is enabled then.                                      *)
ServicesSpec == ServicesInit /\ [][ServicesNext]_servicesVars /\ Fairness

(* Every variable of the parts has its type; SessionRegistry's have theirs  *)
(* in its own run.                                                          *)
ServicesTypeOK ==
  /\ LifecycleTypeOK /\ ClientTypeOK /\ PreviewTypeOK /\ LogTypeOK /\ RouteTypeOK
  /\ InferenceTypeOK /\ PollTypeOK
=============================================================================
