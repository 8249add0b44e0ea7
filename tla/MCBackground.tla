----------------------------- MODULE MCBackground -----------------------------
(***************************************************************************)
(* The parts of the application that run beside trading: the start and     *)
(* stop of the loop, the dashboard, the event bus, notifications, the      *)
(* degradation level, the daily evaluation of strategies and the health of *)
(* the news sources.                                                       *)
(*                                                                         *)
(* The parts share no state, so one behaviour follows one of them while    *)
(* the others rest: what holds of every such behaviour holds of each part. *)
(***************************************************************************)
EXTENDS LoopLifecycle, Dashboard, EventBus, Notifications, Degradation, PerformanceMonitor,
        NewsHealth

VARIABLE part   \* the part that moves

MCChannels == <<"telegram", "discord", "email">>
MCConfigured == {<<"email", "pager">>, <<"pager">>}
MCNewsSources == <<"reuters", "twitter">>

Init ==
  /\ part \in {"loop", "dashboard", "bus", "notify", "degradation", "strategies", "news"}
  /\ LifecycleInit /\ DashboardInit /\ BusInit /\ NoteInit /\ DegradationInit /\ MonInit
  /\ HealthInit /\ (part # "news" => reachable = {})

Next ==
  \/ /\ part = "loop" /\ LifecycleNext
     /\ UNCHANGED <<part, dashboardVars, busVars, noteVars, degradationVars, monVars, healthVars>>
  \/ /\ part = "dashboard" /\ DashboardNext
     /\ UNCHANGED <<part, lifecycleVars, busVars, noteVars, degradationVars, monVars, healthVars>>
  \/ /\ part = "bus" /\ BusNext
     /\ UNCHANGED <<part, lifecycleVars, dashboardVars, noteVars, degradationVars, monVars, healthVars>>
  \/ /\ part = "notify" /\ NoteNext
     /\ UNCHANGED <<part, lifecycleVars, dashboardVars, busVars, degradationVars, monVars, healthVars>>
  \/ /\ part = "degradation" /\ DegradationNext
     /\ UNCHANGED <<part, lifecycleVars, dashboardVars, busVars, noteVars, monVars, healthVars>>
  \/ /\ part = "strategies" /\ MonNext
     /\ UNCHANGED <<part, lifecycleVars, dashboardVars, busVars, noteVars, degradationVars, healthVars>>
  \/ /\ part = "news" /\ HealthNext
     /\ UNCHANGED <<part, lifecycleVars, dashboardVars, busVars, noteVars, degradationVars, monVars>>

vars == <<part, lifecycleVars, dashboardVars, busVars, noteVars, degradationVars, monVars, healthVars>>

\* The fairness of the moving part, as its module states it.
Fairness ==
  /\ \A l \in Runs : /\ WF_lifecycleVars(part = "loop" /\ LoopStep(l))
                     /\ WF_lifecycleVars(part = "loop" /\ PollerEnds(l))
  /\ \A c \in StopCallers : WF_lifecycleVars(part = "loop" /\ StopStep(c))
  /\ \A i \in TaskIds : WF_dashboardVars(part = "dashboard" /\ Broadcast(i))
  /\ \A s \in Sockets : /\ WF_dashboardVars(part = "dashboard" /\ Greet(s))
                        /\ WF_dashboardVars(part = "dashboard" /\ Leave(s))
  /\ \A f \in {"daily", "manual"} : WF_monVars(part = "strategies" /\ DisableStep(f))
  /\ WF_healthVars(part = "news" /\ ProbeStep)

Spec == Init /\ [][Next]_vars /\ Fairness
=============================================================================
