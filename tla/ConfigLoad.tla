----------------------------- MODULE ConfigLoad -----------------------------
(***************************************************************************)
(* Loading the configuration: pkg/config.  Three layers - built-in         *)
(* defaults, the file or ConfigMap, the environment - are overlaid, the    *)
(* per-policy thresholds are overlaid on the result, hysteresis is clamped *)
(* and the registry is validated.  A layer is a partial function from      *)
(* field names to values; a document also lists raw policies, and may fail *)
(* to parse.  Hysteresis is in percent; other thresholds are durations.    *)
(* A document is what the ConfigMap holds: under the data key that the     *)
(* controller knows, or without that key (keyed).                          *)
(***************************************************************************)
EXTENDS Integers, Sequences

CONSTANTS
    BuiltIn,      \* the layer of built-in defaults: every field
    Environment,  \* the layer of allow-listed environment variables
    NaN           \* the floating-point value that is not a number

Durations == {"timeOn", "timeOff", "timePendingMax"}
ThresholdFields == Durations \cup {"hysteresis"}
DefaultFields == ThresholdFields \cup {"nodeGroupLabelKey", "action", "reconcileResyncPeriod"}
PolicyFields == {"name", "queueName", "dedicatedNodeGroup", "overflowNodeGroup"}

\* What parsing makes of a hysteresis is a float64: a number of whatever size,
\* or not a number (.nan in YAML, NaN in the environment).
Numeric(layer) == "hysteresis" \in DOMAIN layer => layer.hysteresis \in Int \cup {NaN}

ASSUME NaNAssumption == NaN \notin Int
ASSUME BuiltInAssumption == DOMAIN BuiltIn = DefaultFields /\ Numeric(BuiltIn)
ASSUME EnvironmentAssumption ==
    DOMAIN Environment \subseteq DefaultFields /\ Numeric(Environment)

-----------------------------------------------------------------------------
\* Later layers win field by field; absent fields are inherited.
Overlay(base, layer) ==
    [f \in DOMAIN base |-> IF f \in DOMAIN layer THEN layer[f] ELSE base[f]]

\* NaN is neither below nor above anything, and comes out as it went in.
ClampUnit(percent) ==
    IF percent = NaN THEN NaN
    ELSE IF percent < 0 THEN 0 ELSE IF percent > 100 THEN 100 ELSE percent

Clamped(fields) == [fields EXCEPT !.hysteresis = ClampUnit(@)]

BuildDefaults(layer) == Clamped(Overlay(Overlay(BuiltIn, layer), Environment))

\* Mutant: the overrides of a policy are not clamped.
ThresholdsFromRawUnclamped(overrides, defaults) ==
    Overlay([f \in ThresholdFields |-> defaults[f]], overrides)

\* A raw policy has the four names and a layer of threshold overrides.
ThresholdsFromRaw(overrides, defaults) ==
    Clamped(Overlay([f \in ThresholdFields |-> defaults[f]], overrides))

BuildPolicy(raw, defaults) ==
    LET thresholds == ThresholdsFromRaw(raw.thresholds, defaults)
    IN  [f \in PolicyFields \cup ThresholdFields |->
            IF f \in PolicyFields THEN raw[f] ELSE thresholds[f]]

BuildRegistry(doc) ==
    LET defaults == BuildDefaults(doc.defaults)
    IN  [defaults |-> defaults,
         policies |-> [i \in DOMAIN doc.policies |-> BuildPolicy(doc.policies[i], defaults)]]

-----------------------------------------------------------------------------
ValidThresholds(t) == \A f \in Durations : t[f] > 0

ValidDefaults(d) ==
    /\ d.nodeGroupLabelKey # ""
    /\ d.action \in {"Nope", "Patch"}
    /\ d.reconcileResyncPeriod > 0
    /\ ValidThresholds(d)

ValidPolicy(p) ==
    /\ \A f \in PolicyFields : p[f] # ""
    /\ p.dedicatedNodeGroup # p.overflowNodeGroup
    /\ ValidThresholds(p)

NoDuplicates(policies, field) ==
    \A i, j \in DOMAIN policies :
        (i < j /\ policies[i][field] # "") => policies[i][field] # policies[j][field]

ValidRegistry(r) ==
    /\ ValidDefaults(r.defaults)
    /\ \A i \in DOMAIN r.policies : ValidPolicy(r.policies[i])
    /\ NoDuplicates(r.policies, "name")
    /\ NoDuplicates(r.policies, "queueName")

\* LoadFromBytes of a document: no registry at all, or exactly one.  Without
\* its key the content is empty, which loads as the defaults and no policy.
Load(doc) ==
    IF doc.parses /\ ValidRegistry(BuildRegistry(doc)) THEN {BuildRegistry(doc)} ELSE {}

\* Load, from the file that the data key is mounted as: a missing file is an
\* error.
LoadFile(doc) == IF doc.keyed THEN Load(doc) ELSE {}

-----------------------------------------------------------------------------
(* Lookups in a registry.  The indexes are maps filled in list order, so a *)
(* later policy overwrites an earlier one.  A lookup is a set of at most   *)
(* one policy.                                                             *)

Policies(r) == {r.policies[i] : i \in DOMAIN r.policies}

Names(r) == {p.name : p \in Policies(r)}

LookUp(r, field, value) ==
    {r.policies[i] : i \in
        {i \in DOMAIN r.policies :
            /\ r.policies[i][field] = value
            /\ \A j \in DOMAIN r.policies : r.policies[j][field] = value => j <= i}}

PolicyByName(r, name) == LookUp(r, "name", name)
PolicyByQueue(r, queue) == LookUp(r, "queueName", queue)
PoliciesForNodeGroup(r, group) ==
    {p.name : p \in {p \in Policies(r) : group \in {p.dedicatedNodeGroup, p.overflowNodeGroup}}}
=============================================================================
