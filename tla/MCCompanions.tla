---------------------------- MODULE MCCompanions ----------------------------
(***************************************************************************)
(* Instances for TLC of the components around the pool and the scheduler.  *)
(* They share no state in the code, so a behaviour is one of a single      *)
(* component, its focus, while the others stay in their initial states.    *)
(***************************************************************************)
EXTENDS PooledFuture, Monitor, Submission, Plugins, LoadBalancers,
        AdaptiveBalancer, Configuration, QueueCapacity, CircuitBreaker, TLC

CONSTANTS p1, p2, p3, n1, n2

TwoShareAName == (p1 :> n1) @@ (p2 :> n1) @@ (p3 :> n2)

TwoZeroOne == <<2, 0, 1>>

(* The virtual nodes of the three workers interleave.                      *)
ThreeOnTheRing == <<<<3, 0>>, <<1, 4>>, <<2>>>>

SomeSettings ==
    {<<"WorkerCount", 0>>, <<"QueueSize", 1>>, <<"EnableMetrics", 0>>}

ScaledDefaults ==
    [f \in Fields |-> IF f = "QueueSize" THEN 4
                      ELSE IF f = "WorkerCount" THEN 2 ELSE 1]

(* The fields with an upper limit, as in config.go:115-165.                *)
ScaledLimits ==
    ("WorkerCount" :> 5) @@ ("QueueSize" :> 6) @@ ("TaskTimeout" :> 4)
    @@ ("ShutdownTimeout" :> 3) @@ ("MetricsInterval" :> 3)

-----------------------------------------------------------------------------
VARIABLE focus  \* which component this behaviour is one of

mcVars == <<focus, futureVars, monitorVars, submissionVars, pluginVars,
            balancerVars, adaptiveVars, configVars, capacityVars, breakerVars>>

(* What an initial state may choose is chosen for the focus alone.         *)
Init ==
    /\ focus \in {"future", "monitor", "restarted monitor", "submission",
                  "plugins", "balancer", "adaptive", "config", "capacity",
                  "breaker"}
    /\ FutureInit /\ MonitorInit /\ PluginInit /\ AdaptiveInit /\ ConfigInit
    /\ CapacityInit /\ BreakerInit
    /\ SubmissionInit /\ (focus # "submission" => listening = {})
    /\ BalancerInit /\ (focus # "balancer" => kind = "roundRobin")

(* A monitor that may be started again has a shorter time and one          *)
(* completion fewer; else it has one loop.                                 *)
MonitorFocus ==
    \/ focus = "monitor" /\ starts' <= 1
    \/ /\ focus = "restarted monitor"
       /\ clock' < MaxTime /\ recorded' # Recorded

(* Once loads were even, EveryStrategyMeasured says no more.               *)
AdaptiveFocus == focus = "adaptive" /\ ~evenLoad

Next ==
    \/ /\ focus = "future" /\ FutureNext
       /\ UNCHANGED <<focus, monitorVars, submissionVars, pluginVars,
                      balancerVars, adaptiveVars, configVars, capacityVars,
                      breakerVars>>
    \/ /\ MonitorNext /\ MonitorFocus
       /\ UNCHANGED <<focus, futureVars, submissionVars, pluginVars,
                      balancerVars, adaptiveVars, configVars, capacityVars,
                      breakerVars>>
    \/ /\ focus = "submission" /\ SubmissionNext
       /\ UNCHANGED <<focus, futureVars, monitorVars, pluginVars,
                      balancerVars, adaptiveVars, configVars, capacityVars,
                      breakerVars>>
    \/ /\ focus = "plugins" /\ PluginNext
       /\ UNCHANGED <<focus, futureVars, monitorVars, submissionVars,
                      balancerVars, adaptiveVars, configVars, capacityVars,
                      breakerVars>>
    \/ /\ focus = "balancer" /\ BalancerNext
       /\ UNCHANGED <<focus, futureVars, monitorVars, submissionVars,
                      pluginVars, adaptiveVars, configVars, capacityVars,
                      breakerVars>>
    \/ /\ AdaptiveFocus /\ AdaptiveNext
       /\ UNCHANGED <<focus, futureVars, monitorVars, submissionVars,
                      pluginVars, balancerVars, configVars, capacityVars,
                      breakerVars>>
    \/ /\ focus = "config" /\ ConfigNext
       /\ UNCHANGED <<focus, futureVars, monitorVars, submissionVars,
                      pluginVars, balancerVars, adaptiveVars, capacityVars,
                      breakerVars>>
    \/ /\ focus = "capacity" /\ CapacityNext
       /\ UNCHANGED <<focus, futureVars, monitorVars, submissionVars,
                      pluginVars, balancerVars, adaptiveVars, configVars,
                      breakerVars>>
    \/ /\ focus = "breaker" /\ BreakerNext
       /\ UNCHANGED <<focus, futureVars, monitorVars, submissionVars,
                      pluginVars, balancerVars, adaptiveVars, configVars,
                      capacityVars>>

Spec ==
    /\ Init /\ [][Next]_mcVars
    /\ FutureFairness /\ MonitorFairness /\ SubmissionFairness
=============================================================================
