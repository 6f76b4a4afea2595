------------------------- MODULE ConfigReloadProofs -------------------------
(***************************************************************************)
(* Proofs about ConfigReload, for any built-in defaults, environment and   *)
(* ConfigMap contents: what validation and clamping let through is usable, *)
(* and only what they let through is ever installed.                       *)
(***************************************************************************)
EXTENDS ConfigReload, TLAPS

-----------------------------------------------------------------------------
(* Layers and clamping                                                     *)

\* The values a parsed hysteresis may have: any number, with NaN or without.
\* What is proved of clamping is proved for both.
Parsed == {Int, Int \cup {NaN}}

Within(layer, N) == "hysteresis" \in DOMAIN layer => layer.hysteresis \in N

\* What clamping leaves: a fraction, or not a number.
Unit == (0..100) \cup {NaN}

LEMMA ClampUnitBounds ==
    ASSUME NEW N \in Parsed, NEW percent \in N
    PROVE  ClampUnit(percent) \in N \cap Unit
BY NaNAssumption DEF ClampUnit, Unit, Parsed

\* Overlaying keeps the fields of the base, and a number a number.
LEMMA OverlayWithin ==
    ASSUME NEW N \in Parsed, NEW base, NEW layer, "hysteresis" \in DOMAIN base,
           Within(base, N), Within(layer, N)
    PROVE  /\ DOMAIN Overlay(base, layer) = DOMAIN base
           /\ Within(Overlay(base, layer), N)
BY DEF Overlay, Within

LEMMA ClampedHysteresis ==
    ASSUME NEW N \in Parsed, NEW base, NEW layer, "hysteresis" \in DOMAIN base,
           Within(base, N), Within(layer, N)
    PROVE  /\ DOMAIN Clamped(Overlay(base, layer)) = DOMAIN base
           /\ Clamped(Overlay(base, layer)).hysteresis \in N \cap Unit
<1> DEFINE fields == Overlay(base, layer)
<1>1. DOMAIN fields = DOMAIN base /\ fields.hysteresis \in N
  BY OverlayWithin DEF Within
<1>2. fields = [f \in DOMAIN base |-> fields[f]]
  BY DEF Overlay
<1> HIDE DEF fields
<1>3. Clamped(fields).hysteresis = ClampUnit(fields.hysteresis) /\ DOMAIN Clamped(fields) = DOMAIN fields
  BY <1>1, <1>2 DEF Clamped
<1>4. ClampUnit(fields.hysteresis) \in N \cap Unit
  BY <1>1, ClampUnitBounds
<1> QED BY <1>1, <1>3, <1>4 DEF fields

LEMMA DefaultsClamped ==
    ASSUME NEW N \in Parsed, NEW layer,
           Within(layer, N), Within(BuiltIn, N), Within(Environment, N)
    PROVE  /\ DOMAIN BuildDefaults(layer) = DefaultFields
           /\ BuildDefaults(layer).hysteresis \in N \cap Unit
<1> DEFINE overlaid == Overlay(BuiltIn, layer)
<1>1. "hysteresis" \in DefaultFields
  BY DEF DefaultFields, ThresholdFields
<1>2. DOMAIN overlaid = DefaultFields /\ Within(overlaid, N)
  BY <1>1, BuiltInAssumption, OverlayWithin
<1> HIDE DEF overlaid
<1>3. /\ DOMAIN Clamped(Overlay(overlaid, Environment)) = DefaultFields
      /\ Clamped(Overlay(overlaid, Environment)).hysteresis \in N \cap Unit
  BY <1>1, <1>2, ClampedHysteresis
<1> QED BY <1>3 DEF BuildDefaults, overlaid

\* A policy's hysteresis is clamped whatever its overrides say.
LEMMA PolicyClamped ==
    ASSUME NEW N \in Parsed, NEW raw, NEW defaults,
           Within(raw.thresholds, N), defaults.hysteresis \in N \cap Unit
    PROVE  BuildPolicy(raw, defaults).hysteresis \in N \cap Unit
<1> DEFINE base == [f \in ThresholdFields |-> defaults[f]]
<1>1. "hysteresis" \in ThresholdFields \ PolicyFields
  BY DEF ThresholdFields, PolicyFields
<1>2. "hysteresis" \in DOMAIN base /\ Within(base, N)
  BY <1>1 DEF Within
<1> HIDE DEF base
<1>3. Clamped(Overlay(base, raw.thresholds)).hysteresis \in N \cap Unit
  BY <1>2, ClampedHysteresis
<1>4. ThresholdsFromRaw(raw.thresholds, defaults).hysteresis \in N \cap Unit
  BY <1>3 DEF ThresholdsFromRaw, base
<1> QED BY <1>1, <1>4 DEF BuildPolicy

\* The layers that a document is loaded from have N for a hysteresis.
LayersWithin(doc, N) ==
    /\ Within(BuiltIn, N) /\ Within(Environment, N) /\ Within(doc.defaults, N)
    /\ \A i \in DOMAIN doc.policies : Within(doc.policies[i].thresholds, N)

LEMMA LoadedClamped ==
    ASSUME NEW N \in Parsed, NEW doc, LayersWithin(doc, N), NEW r \in Load(doc)
    PROVE  \A p \in Policies(r) : p.hysteresis \in N \cap Unit
<1> DEFINE defaults == BuildDefaults(doc.defaults)
<1>1. r.policies = [i \in DOMAIN doc.policies |-> BuildPolicy(doc.policies[i], defaults)]
  BY DEF Load, BuildRegistry
<1>2. defaults.hysteresis \in N \cap Unit
  BY DefaultsClamped DEF LayersWithin
<1> HIDE DEF defaults
<1>3. \A i \in DOMAIN doc.policies :
          BuildPolicy(doc.policies[i], defaults).hysteresis \in N \cap Unit
  BY <1>2, PolicyClamped DEF LayersWithin
<1> QED BY <1>1, <1>3 DEF Policies

LEMMA DocumentsWithin ==
    ASSUME NEW doc \in Documents
    PROVE  LayersWithin(doc, Int \cup {NaN})
BY DocumentTypesAssumption, BuiltInAssumption, EnvironmentAssumption
DEF LayersWithin, Within, Numeric

-----------------------------------------------------------------------------
(* Lookups                                                                 *)

LEMMA Ordered == \A a, b \in Nat : a <= a /\ (a < b \/ b < a \/ a = b)
OBVIOUS

\* Without duplicates the index finds each policy under its own value.
LEMMA LookUpFinds ==
    ASSUME NEW r, NEW field, NoDuplicates(r.policies, field),
           DOMAIN r.policies \subseteq Nat,
           NEW i \in DOMAIN r.policies, r.policies[i][field] # ""
    PROVE  LookUp(r, field, r.policies[i][field]) = {r.policies[i]}
<1> DEFINE value == r.policies[i][field]
<1>1. \A j \in DOMAIN r.policies : r.policies[j][field] = value => j = i
  <2> SUFFICES ASSUME NEW j \in DOMAIN r.policies, r.policies[j][field] = value PROVE j = i
    OBVIOUS
  <2>1. ~ (i < j) /\ ~ (j < i)
    BY DEF NoDuplicates
  <2>2. i \in Nat /\ j \in Nat
    OBVIOUS
  <2> QED BY <2>1, <2>2, Ordered
<1>2. i <= i
  <2>1. i \in Nat
    OBVIOUS
  <2> QED BY <2>1, Ordered
<1> QED BY <1>1, <1>2 DEF LookUp

-----------------------------------------------------------------------------
(* What loads is usable                                                    *)

LEMMA LoadedUsable ==
    ASSUME NEW doc \in Documents, NEW r \in Load(doc)
    PROVE  UsableRegistry(r)
<1> DEFINE defaults == BuildDefaults(doc.defaults)
<1>1. r = BuildRegistry(doc) /\ ValidRegistry(r)
  BY DEF Load
<1>2. /\ r.defaults = defaults
      /\ r.policies = [i \in DOMAIN doc.policies |-> BuildPolicy(doc.policies[i], defaults)]
  BY <1>1 DEF BuildRegistry
<1>3. \A p \in Policies(r) : p.hysteresis \in Unit
  BY LoadedClamped, DocumentsWithin DEF Parsed
<1> HIDE DEF defaults
<1>4. DOMAIN r.policies = DOMAIN doc.policies /\ DOMAIN r.policies \subseteq Nat
  BY <1>2, DocumentTypesAssumption
<1>5. r.defaults.reconcileResyncPeriod > 0
  BY <1>1 DEF ValidRegistry, ValidDefaults
<1>6. ASSUME NEW p \in Policies(r)
      PROVE  /\ p.timeOn > 0 /\ p.timeOff > 0 /\ p.timePendingMax > 0
             /\ p.hysteresis \in Unit
             /\ p.dedicatedNodeGroup # p.overflowNodeGroup
             /\ PolicyByName(r, p.name) = {p}
             /\ PolicyByQueue(r, p.queueName) = {p}
  <2>1. PICK i \in DOMAIN r.policies : p = r.policies[i]
    BY <1>6 DEF Policies
  <2>2. ValidPolicy(p)
    BY <1>1, <2>1 DEF ValidRegistry
  <2>3. p.hysteresis \in Unit
    BY <1>3
  <2>4. p.timeOn > 0 /\ p.timeOff > 0 /\ p.timePendingMax > 0
    BY <2>2 DEF ValidPolicy, ValidThresholds, Durations
  <2>5. /\ r.policies[i]["name"] # "" /\ r.policies[i]["queueName"] # ""
        /\ p.dedicatedNodeGroup # p.overflowNodeGroup
    BY <2>1, <2>2 DEF ValidPolicy, PolicyFields
  <2>6. NoDuplicates(r.policies, "name") /\ NoDuplicates(r.policies, "queueName")
    BY <1>1 DEF ValidRegistry
  <2>7. PolicyByName(r, p.name) = {p}
    BY <1>4, <2>1, <2>5, <2>6, LookUpFinds DEF PolicyByName
  <2>8. PolicyByQueue(r, p.queueName) = {p}
    BY <1>4, <2>1, <2>5, <2>6, LookUpFinds DEF PolicyByQueue
  <2> QED BY <2>3, <2>4, <2>5, <2>7, <2>8
<1> QED BY <1>5, <1>6 DEF UsableRegistry, Unit

\* The registry that runs, and the one the builder captured, come from the
\* contents of the ConfigMap and of the volume, which stay documents.
Sourced == configMap \in Documents /\ mounted \in Documents /\ InstalledUsable

LEMMA StartInstallsUsable ==
    ASSUME NEW doc \in Documents, LoadFile(doc) # {}
    PROVE  UsableRegistry(Installed(doc))
<1>1. Installed(doc) \in Load(doc)
  BY DEF Installed, LoadFile
<1> QED BY <1>1, LoadedUsable

LEMMA StartKeeps ==
    ASSUME Sourced, NEW doc \in Documents, Start(doc)
    PROVE  Sourced'
<1>1. mounted' = doc /\ configMap' = configMap
  BY DEF Start
<1>2. CASE LoadFile(doc) # {}
  <2>1. store' = Installed(doc) /\ resolver' = store'
    BY <1>2 DEF Start
  <2> QED BY <1>1, <1>2, <2>1, StartInstallsUsable DEF Sourced, InstalledUsable
<1>3. CASE LoadFile(doc) = {}
  <2>1. UNCHANGED <<store, resolver>>
    BY <1>3 DEF Start
  <2> QED BY <1>1, <2>1 DEF Sourced, InstalledUsable
<1> QED BY <1>2, <1>3

\* Whatever the ConfigMap, the volume and the environment hold - a hysteresis
\* of any size, or NaN - and whenever the controller restarts, the registries
\* in use are ones the rest of the controller can work with (validateRegistry,
\* thresholdsFromRaw, reload), but for the NaN that clampUnit lets through.
THEOREM AlwaysUsable == Spec => []InstalledUsable
<1>1. Init => Sourced
  BY DocumentsAssumption, StartInstallsUsable DEF Init, Sourced, InstalledUsable
<1>2. Sourced /\ [Next]_vars => Sourced'
  <2> SUFFICES ASSUME Sourced, [Next]_vars PROVE Sourced'
    OBVIOUS
  <2>1. CASE EditConfigMap \/ Project
    BY <2>1 DEF EditConfigMap, Project, Sourced, InstalledUsable
  <2>2. CASE Reload
    <3>1. store' = store \/ store' \in Load(configMap)
      BY <2>2 DEF Reload, Swap
    <3>2. UsableRegistry(store')
      BY <3>1, LoadedUsable DEF Sourced, InstalledUsable
    <3> QED BY <2>2, <3>2 DEF Reload, Sourced, InstalledUsable
  <2>3. CASE Restart \/ RestartAfterExit
    BY <2>3, StartKeeps DEF Restart, RestartAfterExit, Sourced
  <2>4. CASE \/ EnqueueUnion \/ EnqueueFromStore \/ Build \/ FinishReconcile
             \/ StillDown \/ UNCHANGED vars
    BY <2>4 DEF EnqueueUnion, EnqueueFromStore, Build, FinishReconcile, StillDown, vars,
       Sourced, InstalledUsable
  <2> QED BY <2>1, <2>2, <2>3, <2>4 DEF Next
<1>3. Sourced => InstalledUsable
  BY DEF Sourced
<1> QED BY <1>1, <1>2, <1>3, PTL DEF Spec

\* No layer has a hysteresis that is not a number.
NumbersOnly == \A doc \in Documents : LayersWithin(doc, Int)

\* That NaN is all that clampUnit lets through: where no layer has one, every
\* installed hysteresis is a fraction, whatever number was written.
THEOREM ClampedUnlessNaN == ASSUME NumbersOnly PROVE Spec => []HysteresisClamped
<1> DEFINE Clean == configMap \in Documents /\ mounted \in Documents /\ HysteresisClamped
<1>1. ASSUME NEW doc \in Documents, NEW r \in Load(doc)
      PROVE  \A p \in Policies(r) : p.hysteresis \in 0..100
  <2>1. \A p \in Policies(r) : p.hysteresis \in Int \cap Unit
    BY LoadedClamped DEF NumbersOnly, Parsed
  <2> QED BY <2>1, NaNAssumption DEF Unit
<1>2. \A doc \in Documents : LoadFile(doc) # {} => Installed(doc) \in Load(doc)
  BY DEF Installed, LoadFile
<1>3. Init => Clean
  BY <1>1, <1>2, DocumentsAssumption DEF Init, HysteresisClamped
<1>4. Clean /\ [Next]_vars => Clean'
  <2> SUFFICES ASSUME Clean, [Next]_vars PROVE Clean'
    OBVIOUS
  <2>1. CASE EditConfigMap \/ Project
    BY <2>1 DEF EditConfigMap, Project, HysteresisClamped
  <2>2. CASE Reload
    BY <1>1, <2>2 DEF Reload, Swap, HysteresisClamped
  <2>3. ASSUME NEW doc \in Documents, Start(doc) PROVE Clean'
    BY <1>1, <1>2, <2>3 DEF Start, HysteresisClamped
  <2>4. CASE Restart \/ RestartAfterExit
    BY <2>3, <2>4 DEF Restart, RestartAfterExit
  <2>5. CASE \/ EnqueueUnion \/ EnqueueFromStore \/ Build \/ FinishReconcile
             \/ StillDown \/ UNCHANGED vars
    BY <2>5 DEF EnqueueUnion, EnqueueFromStore, Build, FinishReconcile, StillDown, vars,
       HysteresisClamped
  <2> QED BY <2>1, <2>2, <2>4, <2>5 DEF Next
<1>5. Clean => HysteresisClamped
  OBVIOUS
<1> HIDE DEF Clean
<1> QED BY <1>3, <1>4, <1>5, PTL DEF Spec

-----------------------------------------------------------------------------
(* What a swap promised                                                    *)

\* Whatever is edited, reloaded and restarted meanwhile, a policy that a swap
\* promised a reconcile is still to be enqueued, or is queued, until the
\* worker takes it (reload, enqueueUnion).  Only a start forgets, with the
\* rest of the process: it enqueues every policy of its registry.
THEOREM PromisesKept == Spec => []OwedOnItsWay
<1>1. Init => OwedOnItsWay
  BY DEF Init, OwedOnItsWay
<1>2. OwedOnItsWay /\ [Next]_vars => OwedOnItsWay'
  <2> SUFFICES ASSUME OwedOnItsWay, [Next]_vars PROVE OwedOnItsWay'
    OBVIOUS
  <2> USE DEF OwedOnItsWay
  <2>1. CASE Reload
    <3>1. CASE UNCHANGED <<toEnqueue, owed>>
      BY <2>1, <3>1 DEF Reload
    <3>2. ASSUME NEW r, Swap(r) PROVE OwedOnItsWay'
      BY <2>1, <3>2 DEF Reload, Swap
    <3> QED BY <2>1, <3>1, <3>2 DEF Reload
  <2>2. CASE EnqueueUnion
    BY <2>2 DEF EnqueueUnion
  <2>3. CASE EnqueueFromStore
    BY <2>3 DEF EnqueueFromStore
  <2>4. CASE Build
    BY <2>4 DEF Build
  <2>5. CASE Restart \/ RestartAfterExit
    BY <2>5 DEF Restart, RestartAfterExit, Start
  <2>6. CASE EditConfigMap \/ Project \/ FinishReconcile \/ StillDown \/ UNCHANGED vars
    BY <2>6 DEF EditConfigMap, Project, FinishReconcile, StillDown, vars
  <2> QED BY <2>1, <2>2, <2>3, <2>4, <2>5, <2>6 DEF Next
<1> QED BY <1>1, <1>2, PTL DEF Spec
=============================================================================
