-------------------------- MODULE MCMetricRegistry --------------------------
(* A metric, which only two of its definitions make fit for a funnel, one   *)
(* funnel, two requests.                                                    *)
EXTENDS MetricRegistry, TLC

CONSTANTS signups, orders, visits, rate, activation

MCMetric     == {signups}
MCDefinition == {visits, orders, rate}
MCEventBased == {visits, orders}
=============================================================================
