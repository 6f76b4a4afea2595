--------------------------- MODULE MCConfigReload ---------------------------
(***************************************************************************)
(* Values for the constants of ConfigReload: the layers, and ConfigMap     *)
(* contents of which some load and some do not.                            *)
(***************************************************************************)
EXTENDS ConfigReload

MCBuiltIn ==
    [nodeGroupLabelKey |-> "volcano.sh/nodegroup-name", action |-> "Nope",
     reconcileResyncPeriod |-> 30, timeOn |-> 30, timeOff |-> 600,
     timePendingMax |-> 300, hysteresis |-> 20]

\* The environment overrides one threshold of the documents.
MCEnvironment == [timePendingMax |-> 240]

NoOverrides == <<>>

Raw(name, queue, overrides) ==
    [name |-> name, queueName |-> queue, dedicatedNodeGroup |-> "dedicated",
     overflowNodeGroup |-> "overflow", thresholds |-> overrides]

Doc(defaults, policies) ==
    [keyed |-> TRUE, parses |-> TRUE, defaults |-> defaults, policies |-> policies]

WebOnly   == Doc(NoOverrides, <<Raw("web", "q1", NoOverrides)>>)

\* Out-of-range hysteresis in the defaults and in a policy.
WebTuned  == Doc([hysteresis |-> 0 - 5, timeOn |-> 10],
                 <<Raw("web", "q1", [hysteresis |-> 150, timeOff |-> 60])>>)

WebBatch  == Doc([hysteresis |-> 130],
                 <<Raw("web", "q1", NoOverrides), Raw("batch", "q2", [timeOn |-> 5])>>)

BatchOnly == Doc(NoOverrides, <<Raw("batch", "q1", NoOverrides)>>)

\* A ConfigMap without its data key.
Emptied   == [Doc(NoOverrides, <<>>) EXCEPT !.keyed = FALSE]

\* A hysteresis that is not a number, which the policy inherits.
BatchNaN  == Doc([hysteresis |-> NaN], <<Raw("batch", "q2", NoOverrides)>>)

\* Contents that must not load.
Unparsable   == [WebOnly EXCEPT !.parses = FALSE]
SharedQueue  == Doc(NoOverrides, <<Raw("web", "q1", NoOverrides), Raw("batch", "q1", NoOverrides)>>)
ZeroTimeOff  == Doc(NoOverrides, <<Raw("web", "q1", [timeOff |-> 0])>>)
OnePool      == Doc(NoOverrides, <<[WebOnly.policies[1] EXCEPT !.overflowNodeGroup = "dedicated"]>>)

MCDocuments ==
    {WebOnly, WebTuned, WebBatch, BatchOnly, BatchNaN, Emptied,
     Unparsable, SharedQueue, ZeroTimeOff, OnePool}
=============================================================================
