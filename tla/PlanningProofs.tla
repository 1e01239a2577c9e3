--------------------------- MODULE PlanningProofs ---------------------------
(***************************************************************************)
(* That every plan is sound, for every tasks.yaml, and that what planning  *)
(* says of it is so.  compute_phases has no invariant on the phases        *)
(* themselves, which are wrong until its last pass is over: it is what a   *)
(* pass that has changed nothing has seen so far that is right (IInv).     *)
(* The diagnoses rest on what the search has left behind, tasks among      *)
(* which there is no cycle, and on phases that only grow (DInv).           *)
(***************************************************************************)
EXTENDS Planning, TLAPS, FiniteSetTheorems, SequenceTheorems

(* Each task of S is later than its dependencies. *)
AfterDeps(layer, S) == \A t \in S : \A d \in manifest.dependsOn[t] : layer[d] < layer[t]

(* No two tasks of S clash within a layer. *)
Apart(layer, S) == \A a, b \in S : a # b /\ Clash(a, b) => layer[a] # layer[b]

Floor == {"static_floors", "final_floors"}
Conflict == {"static_conflicts", "final_conflicts"}
Computes == Passes \cup Floor \cup Conflict
Outcomes == {"write", "written", "dry_run", "WRITE_FAILED"}

Ordered == pc \in Computes \cup Outcomes => DependencyOrder(manifest)

(* The heart of it: a pass without a change. *)
Layered ==
    ~ changed =>
        /\ pc \notin {"visit", "load"}
        /\ pc \in Floor => AfterDeps(phase, seen)
        /\ pc \in Conflict =>
            before = phase /\ AfterDeps(phase, T) /\ Apart(phase, seen)
        /\ pc \in Passes => AfterDeps(phase, T) /\ Apart(phase, T)

NoPlanYet ==
    pc \in {"visit", "load"} \cup Computes =>
        plan = None /\ written = manifest.plan /\ loaded = None

(* The plan that is made is right, and the coordinator never finds it wrong. *)
Planned ==
    /\ pc # "PLAN_SELF_CHECK_FAILED"
    /\ plan # None => AfterDeps(plan, T) /\ Apart(plan, T) /\ ValidPlan(manifest, plan)
    /\ pc = "INVALID_PLAN" => plan = None \/ written # plan
    /\ pc # "loaded" => loaded = None

IInv == TypeOK /\ Ordered /\ Layered /\ NoPlanYet /\ Planned /\ LoadedIsSafe

-----------------------------------------------------------------------------
(* What IsManifest says, for the manifest of the state. *)
LEMMA ManifestType ==
    ASSUME manifest \in Manifests
    PROVE  /\ manifest.size \in Nat \ {0}
           /\ T = 1..manifest.size
           /\ T \subseteq Nat
           /\ manifest.dependsOn \in [T -> SUBSET (0..manifest.size)]
           /\ manifest.overlap \subseteq Pairs(manifest)
<1>1. IsManifest(manifest)
  BY PlanningAssumption
<1> QED
  BY <1>1 DEF IsManifest, T, Tasks

LEMMA OrderedDeps ==
    ASSUME manifest \in Manifests, DependencyOrder(manifest), NEW t \in T,
           NEW d \in manifest.dependsOn[t]
    PROVE  d \in T /\ d < t
<1>1. T = 1..manifest.size /\ manifest.size \in Nat
  BY ManifestType
<1>2. manifest.dependsOn[t] \subseteq 1..(t - 1)
  BY DEF DependencyOrder, T
<1> QED
  BY <1>1, <1>2

LEMMA ClashIsSymmetric ==
    ASSUME NEW a, NEW b
    PROVE  Clash(a, b) <=> Clash(b, a)
  BY DEF Clash

-----------------------------------------------------------------------------
(* The numbers that to_entries gives to the phases in use: later phases    *)
(* get larger ones, and they are 1 to N.                                   *)
LEMMA RenumberType ==
    ASSUME phase \in [T -> Nat], NEW p \in Nat
    PROVE  /\ IsFiniteSet({phase[t] : t \in {u \in T : phase[u] =< p}})
           /\ Renumber(p) \in Nat
<1> DEFINE U == {phase[t] : t \in {u \in T : phase[u] =< p}}
<1>1. U \in SUBSET Nat /\ \A s \in U : s <= p
  OBVIOUS
<1>2. IsFiniteSet(U)
  BY <1>1, FS_BoundedSetOfNaturals
<1>3. Cardinality(U) \in Nat
  BY <1>2, FS_CardinalityType
<1> QED
  BY <1>2, <1>3 DEF Renumber

LEMMA RenumberIncreases ==
    ASSUME phase \in [T -> Nat], NEW t \in T, NEW u \in T, phase[t] < phase[u]
    PROVE  Renumber(phase[t]) < Renumber(phase[u])
<1> DEFINE A == {phase[v] : v \in {w \in T : phase[w] =< phase[t]}}
           B == {phase[v] : v \in {w \in T : phase[w] =< phase[u]}}
<1>1. A \subseteq B /\ phase[u] \in B /\ phase[u] \notin A
  OBVIOUS
<1>2. IsFiniteSet(B)
  BY RenumberType
<1>3. Cardinality(A) <= Cardinality(B) /\ (Cardinality(B) = Cardinality(A) => B = A)
  BY <1>1, <1>2, FS_Subset
<1>4. Renumber(phase[t]) = Cardinality(A) /\ Renumber(phase[u]) = Cardinality(B)
  BY DEF Renumber
<1>5. Renumber(phase[t]) \in Nat /\ Renumber(phase[u]) \in Nat
  BY RenumberType
<1> HIDE DEF A, B
<1> QED
  BY <1>1, <1>3, <1>4, <1>5

LEMMA RenumberIsOneToOne ==
    ASSUME phase \in [T -> Nat], NEW t \in T, NEW u \in T,
           Renumber(phase[t]) = Renumber(phase[u])
    PROVE  phase[t] = phase[u]
<1>1. Renumber(phase[t]) \in Nat
  BY RenumberType
<1>2. ~ phase[t] < phase[u]
  BY <1>1, RenumberIncreases
<1>3. ~ phase[u] < phase[t]
  BY <1>1, RenumberIncreases
<1> QED
  BY <1>2, <1>3

LEMMA RenumberIsContiguous ==
    ASSUME manifest \in Manifests, phase \in [T -> Nat],
           NEW entries, entries = [t \in T |-> Renumber(phase[t])]
    PROVE  LET numbers == {entries[t] : t \in T} IN numbers = 1..Cardinality(numbers)
<1> DEFINE R == {phase[t] : t \in T}
           N == Cardinality(R)
           f == [p \in R |-> Renumber(p)]
           numbers == {entries[t] : t \in T}
<1>1. IsFiniteSet(T)
  BY ManifestType, FS_Interval
<1>2. phase \in Surjection(T, R)
  BY DEF Surjection
<1>3. IsFiniteSet(R)
  BY <1>1, <1>2, FS_Surjection
<1>4. N \in Nat
  BY <1>3, FS_CardinalityType
<1>5. ASSUME NEW t \in T
      PROVE  Renumber(phase[t]) \in 1..N
  <2> DEFINE U == {phase[v] : v \in {w \in T : phase[w] =< phase[t]}}
  <2>1. U \in SUBSET R /\ phase[t] \in U
    OBVIOUS
  <2>2. IsFiniteSet(U)
    BY RenumberType
  <2>3. Cardinality(U) <= N
    BY <2>1, <1>3, FS_Subset
  <2>4. Cardinality(U) # 0
    BY <2>1, <2>2, FS_EmptySet
  <2>5. Renumber(phase[t]) = Cardinality(U)
    BY DEF Renumber
  <2>6. Renumber(phase[t]) \in Nat
    BY RenumberType
  <2> HIDE DEF U
  <2> QED
    BY <2>3, <2>4, <2>5, <2>6, <1>4
<1>6. f \in [R -> 1..N]
  BY <1>5
<1>7. \A p, q \in R : f[p] = f[q] => p = q
  BY RenumberIsOneToOne
<1>8. f \in Injection(R, 1..N)
  BY <1>6, <1>7 DEF Injection, IsInjective
<1>9. IsFiniteSet(1..N) /\ Cardinality(1..N) = N
  BY <1>4, FS_Interval
<1>10. f \in Surjection(R, 1..N)
  BY <1>8, <1>9, FS_Injection
<1>11. numbers = {f[p] : p \in R}
  OBVIOUS
<1>12. numbers = 1..N
  BY <1>10, <1>11, <1>6 DEF Surjection
<1> QED
  BY <1>12, <1>9

(* So what holds between the phases holds between their numbers. *)
LEMMA EntriesAreSound ==
    ASSUME manifest \in Manifests, phase \in [T -> Nat], DependencyOrder(manifest),
           AfterDeps(phase, T), Apart(phase, T),
           NEW entries, entries = [t \in T |-> Renumber(phase[t])]
    PROVE  /\ entries \in [T -> Nat]
           /\ AfterDeps(entries, T)
           /\ Apart(entries, T)
           /\ ValidPlan(manifest, entries)
<1>1. entries \in [T -> Nat]
  BY RenumberType
<1>2. AfterDeps(entries, T)
  <2> SUFFICES ASSUME NEW t \in T, NEW d \in manifest.dependsOn[t]
               PROVE  entries[d] < entries[t]
    BY DEF AfterDeps
  <2>1. d \in T
    BY OrderedDeps
  <2> QED
    BY <2>1, RenumberIncreases DEF AfterDeps
<1>3. Apart(entries, T)
  <2> SUFFICES ASSUME NEW a \in T, NEW b \in T, a # b, Clash(a, b)
               PROVE  entries[a] # entries[b]
    BY DEF Apart
  <2> QED
    BY RenumberIsOneToOne DEF Apart
<1>4. ValidPlan(manifest, entries)
  <2>1. LET numbers == {entries[t] : t \in T} IN numbers = 1..Cardinality(numbers)
    BY RenumberIsContiguous
  <2> QED
    BY <1>1, <1>2, <2>1 DEF ValidPlan, AfterDeps, T
<1> QED
  BY <1>1, <1>2, <1>3, <1>4

-----------------------------------------------------------------------------
LEMMA InitOK == Init => IInv
<1> SUFFICES ASSUME Init PROVE IInv
  OBVIOUS
<1>1. manifest \in Manifests /\ T \subseteq Nat
  BY ManifestType DEF Init
<1>2. TypeOK
  <2>1. /\ color \in [T -> {"white", "grey", "black"}]
        /\ phase \in [T -> Nat] /\ before \in [T -> Nat]
    BY DEF Init
  <2>2. stack \in Seq(T) /\ pc \in Pcs /\ changed \in BOOLEAN
    BY DEF Init, Pcs
  <2>3. seen \subseteq T /\ splits \subseteq T \X T /\ forced \subseteq Pairs(manifest)
    BY DEF Init
  <2>4. cycle \in Seq(T) \cup {None} /\ candidates \in (SUBSET Pairs(manifest)) \cup {None}
    BY DEF Init
  <2>5. {plan, loaded} \subseteq [T -> Nat] \cup {None} /\ written \in {manifest.plan, plan}
    BY DEF Init
  <2> QED
    BY <1>1, <2>1, <2>2, <2>3, <2>4, <2>5 DEF TypeOK
<1>3. Ordered /\ Layered /\ NoPlanYet
  BY DEF Init, Ordered, Layered, NoPlanYet, Computes, Outcomes, Passes, Floor, Conflict
<1>4. Planned /\ LoadedIsSafe
  BY DEF Init, Planned, LoadedIsSafe
<1> QED
  BY <1>2, <1>3, <1>4 DEF IInv

(* What a step of one part leaves alone keeps its types. *)
LEMMA SearchTypes ==
    ASSUME TypeOK, Searching, pc' \in Pcs,
           color' \in [T -> {"white", "grey", "black"}],
           stack' \in Seq(T),
           cycle' \in Seq(T) \cup {None}
    PROVE  TypeOK'
<1>1. T' = T
  BY DEF Searching, T
<1> QED
  BY <1>1 DEF TypeOK, Searching, layers, semantic, results

LEMMA SearchStepTypes ==
    ASSUME TypeOK, StartVisit \/ VisitDep \/ FindCycle \/ LeaveVisit \/ NoCycle
    PROVE  TypeOK'
<1> USE DEF Pcs
<1>0. /\ pc \in Pcs /\ stack \in Seq(T) /\ cycle \in Seq(T) \cup {None}
      /\ color \in [T -> {"white", "grey", "black"}]
  BY DEF TypeOK
<1>1. CASE StartVisit
  <2>1. PICK t \in T : color' = [color EXCEPT ![t] = "grey"] /\ stack' = <<t>>
    BY <1>1 DEF StartVisit
  <2>2. stack' \in Seq(T)
    BY <2>1
  <2>3. color' \in [T -> {"white", "grey", "black"}]
    BY <1>0, <2>1
  <2> QED
    BY <1>0, <1>1, <2>2, <2>3, SearchTypes DEF StartVisit
<1>2. CASE VisitDep
  <2>1. PICK d \in T : color' = [color EXCEPT ![d] = "grey"] /\ stack' = Append(stack, d)
    BY <1>2 DEF VisitDep, Edges
  <2>2. stack' \in Seq(T)
    BY <1>0, <2>1
  <2>3. color' \in [T -> {"white", "grey", "black"}]
    BY <1>0, <2>1
  <2> QED
    BY <1>0, <1>2, <2>2, <2>3, SearchTypes DEF VisitDep
<1>3. CASE FindCycle
  <2>1. PICK i \in 1..Len(stack) : cycle' = SubSeq(stack, i, Len(stack))
    BY <1>3 DEF FindCycle
  <2>2. cycle' \in Seq(T)
    BY <1>0, <2>1
  <2> QED
    BY <1>0, <1>3, <2>2, SearchTypes DEF FindCycle
<1>4. CASE LeaveVisit
  <2>1. stack' \in Seq(T)
    <3>1. Len(stack) \in Nat /\ Len(stack) > 0
      BY <1>0, <1>4 DEF LeaveVisit
    <3> QED
      BY <1>0, <1>4, <3>1 DEF LeaveVisit
  <2>2. color' \in [T -> {"white", "grey", "black"}]
    BY <1>0, <1>4 DEF LeaveVisit
  <2> QED
    BY <1>0, <1>4, <2>1, <2>2, SearchTypes DEF LeaveVisit
<1>5. CASE NoCycle
  BY <1>0, <1>5, SearchTypes DEF NoCycle, search
<1> QED
  BY <1>1, <1>2, <1>3, <1>4, <1>5

LEMMA ComputeTypes ==
    ASSUME TypeOK, NEW at, Computing(at), pc' \in Pcs,
           phase' \in [T -> Nat], changed' \in BOOLEAN, before' \in [T -> Nat],
           seen' \subseteq T, splits' \subseteq T \X T
    PROVE  TypeOK'
<1>1. T' = T
  BY DEF Computing, T
<1> QED
  BY <1>1 DEF TypeOK, Computing, search, semantic, results

LEMMA ComputeStepTypes ==
    ASSUME TypeOK, NEW c \in Passes, DependencyOrder(manifest),
           StartPass(c) \/ DependencyFloor(c) \/ ByPhase(c) \/ SplitConflict(c) \/ EndPass(c)
    PROVE  TypeOK'
<1> USE DEF Pcs, Passes, Floors, Conflicts
<1>0. /\ pc \in Pcs /\ phase \in [T -> Nat] /\ changed \in BOOLEAN /\ before \in [T -> Nat]
      /\ seen \subseteq T /\ splits \subseteq T \X T /\ manifest \in Manifests
  BY DEF TypeOK
<1>1. CASE StartPass(c)
  BY <1>0, <1>1, ComputeTypes DEF StartPass
<1>2. CASE DependencyFloor(c)
  <2>1. PICK t \in T \ seen :
            /\ \/ UNCHANGED <<phase, changed>>
               \/ \E d \in manifest.dependsOn[t] :
                    /\ phase' = [phase EXCEPT ![t] = phase[d] + 1]
                    /\ changed' = TRUE
            /\ seen' = seen \cup {t}
    BY <1>2 DEF DependencyFloor
  <2>2. phase' \in [T -> Nat] /\ changed' \in BOOLEAN
    <3>1. CASE UNCHANGED <<phase, changed>>
      BY <1>0, <3>1
    <3>2. ASSUME NEW d \in manifest.dependsOn[t], phase' = [phase EXCEPT ![t] = phase[d] + 1],
                 changed' = TRUE
          PROVE  phase' \in [T -> Nat] /\ changed' \in BOOLEAN
      <4>1. d \in T
        BY <1>0, OrderedDeps
      <4> QED
        BY <1>0, <3>2, <4>1
    <3> QED
      BY <2>1, <3>1, <3>2
  <2> QED
    BY <1>0, <1>2, <2>1, <2>2, ComputeTypes DEF DependencyFloor
<1>3. CASE ByPhase(c)
  BY <1>0, <1>3, ComputeTypes DEF ByPhase
<1>4. CASE SplitConflict(c)
  <2>1. PICK t \in T \ seen :
            /\ \/ UNCHANGED <<phase, changed, splits>>
               \/ \E u \in Committed(t) :
                    /\ phase' = [phase EXCEPT ![t] = before[t] + 1]
                    /\ splits' = splits \cup {<<u, t>>}
                    /\ changed' = TRUE
            /\ seen' = seen \cup {t}
    BY <1>4 DEF SplitConflict
  <2>2. phase' \in [T -> Nat] /\ changed' \in BOOLEAN /\ splits' \subseteq T \X T
    <3>1. CASE UNCHANGED <<phase, changed, splits>>
      BY <1>0, <3>1
    <3>2. ASSUME NEW u \in Committed(t), phase' = [phase EXCEPT ![t] = before[t] + 1],
                 splits' = splits \cup {<<u, t>>}, changed' = TRUE
          PROVE  phase' \in [T -> Nat] /\ changed' \in BOOLEAN /\ splits' \subseteq T \X T
      <4>1. u \in T /\ t \in T
        BY <1>0 DEF Committed
      <4>2. phase' \in [T -> Nat]
        BY <1>0, <3>2, <4>1
      <4>3. splits' \subseteq T \X T
        BY <1>0, <3>2, <4>1
      <4> QED
        BY <3>2, <4>2, <4>3
    <3> QED
      BY <2>1, <3>1, <3>2
  <2> QED
    BY <1>0, <1>4, <2>1, <2>2, ComputeTypes DEF SplitConflict
<1>5. CASE EndPass(c)
  BY <1>0, <1>5, ComputeTypes DEF EndPass, layers
<1> QED
  BY <1>1, <1>2, <1>3, <1>4, <1>5

LEMMA OutcomeStepTypes ==
    ASSUME IInv, SemanticPass \/ ToEntries \/ WritePlan \/ LoadManifestAndPlan
    PROVE  TypeOK'
<1> USE DEF Pcs
<1>0. /\ TypeOK /\ manifest \in Manifests /\ manifest' = manifest /\ T' = T
      /\ phase \in [T -> Nat]
  BY DEF IInv, TypeOK, SemanticPass, ToEntries, WritePlan, LoadManifestAndPlan, T
<1>1. CASE SemanticPass
  <2>1. SamePhasePairs \subseteq Pairs(manifest)
    BY DEF SamePhasePairs
  <2>2. candidates' \in (SUBSET Pairs(manifest)) \cup {None} /\ forced' \subseteq Pairs(manifest)
    BY <1>1, <2>1 DEF SemanticPass
  <2>3. phase' \in [T -> Nat] /\ before' \in [T -> Nat]
    BY <1>1 DEF SemanticPass
  <2>4. pc' \in Pcs /\ changed' \in BOOLEAN /\ seen' \subseteq T /\ splits' \subseteq T \X T
    BY <1>1 DEF SemanticPass
  <2> QED
    BY <1>0, <1>1, <2>2, <2>3, <2>4 DEF TypeOK, SemanticPass, search, results
<1>2. CASE ToEntries
  <2>1. plan' \in [T -> Nat]
    BY <1>0, <1>2, RenumberType DEF ToEntries
  <2>2. pc' \in Pcs
    BY <1>2 DEF ToEntries
  <2>3. written = manifest.plan
    BY <1>2 DEF IInv, NoPlanYet, ToEntries, Computes, Passes
  <2> QED
    BY <1>0, <1>2, <2>1, <2>2, <2>3 DEF TypeOK, ToEntries, search, layers, semantic
<1>3. CASE WritePlan
  <2>1. pc' \in Pcs /\ written' \in {manifest.plan, plan}
    BY <1>0, <1>3 DEF TypeOK, WritePlan
  <2> QED
    BY <1>0, <1>3, <2>1 DEF TypeOK, WritePlan, search, layers, semantic
<1>4. CASE LoadManifestAndPlan
  <2>1. /\ pc' \in Pcs
        /\ \/ loaded' \in {loaded, DegeneratePlan(manifest)}
           \/ loaded' = written /\ written # None /\ ValidPlan(manifest, written)
    BY <1>4 DEF LoadManifestAndPlan
  <2>2. DegeneratePlan(manifest) \in [T -> Nat]
    BY <1>0, ManifestType DEF DegeneratePlan, T
  <2>3. ASSUME written # None, ValidPlan(manifest, written)
        PROVE  written \in [T -> Nat]
    <3>1. CASE written = plan
      BY <1>0, <2>3, <3>1 DEF TypeOK
    <3>2. CASE written = manifest.plan
      <4>1. PICK tasks \in SUBSET (0..manifest.size) : written \in [tasks -> Nat]
        BY <1>0, <2>3, <3>2, PlanningAssumption DEF IsManifest
      <4>2. DOMAIN written = T
        BY <2>3 DEF ValidPlan, T
      <4> QED
        BY <4>1, <4>2
    <3> QED
      BY <1>0, <3>1, <3>2 DEF TypeOK
  <2>4. {plan, loaded'} \subseteq [T -> Nat] \cup {None}
    BY <1>0, <2>1, <2>2, <2>3 DEF TypeOK
  <2> QED
    BY <1>0, <1>4, <2>1, <2>4 DEF TypeOK, LoadManifestAndPlan, search, layers, semantic
<1> QED
  BY <1>1, <1>2, <1>3, <1>4

LEMMA TypeStep == IInv /\ [Next]_vars => TypeOK'
<1> SUFFICES ASSUME IInv, [Next]_vars PROVE TypeOK'
  OBVIOUS
<1>0. TypeOK /\ Ordered
  BY DEF IInv
<1>1. CASE StartVisit \/ VisitDep \/ FindCycle \/ LeaveVisit \/ NoCycle
  BY <1>0, <1>1, SearchStepTypes
<1>2. CASE LoadTasksYaml
  BY <1>0, <1>2 DEF TypeOK, LoadTasksYaml, Pcs, T, search, layers, semantic, results
<1>3. ASSUME NEW c \in Passes,
             StartPass(c) \/ DependencyFloor(c) \/ ByPhase(c) \/ SplitConflict(c) \/ EndPass(c)
      PROVE  TypeOK'
  <2>1. pc \in Computes
    BY <1>3 DEF StartPass, DependencyFloor, ByPhase, SplitConflict, EndPass, Computing,
       Computes,
                Floors, Conflicts, Passes, Floor, Conflict
  <2>2. DependencyOrder(manifest)
    BY <1>0, <2>1 DEF Ordered
  <2> QED
    BY <1>0, <1>3, <2>2, ComputeStepTypes
<1>4. CASE SemanticPass \/ ToEntries \/ WritePlan \/ LoadManifestAndPlan
  BY <1>4, OutcomeStepTypes
<1>5. CASE UNCHANGED vars
  BY <1>0, <1>5 DEF TypeOK, vars, T, search, layers, semantic, results
<1> QED
  BY <1>1, <1>2, <1>3, <1>4, <1>5 DEF Next

-----------------------------------------------------------------------------
LEMMA OrderedStep == IInv /\ [Next]_vars => Ordered'
<1> SUFFICES ASSUME IInv, [Next]_vars PROVE Ordered'
  OBVIOUS
<1> USE DEF Computes, Outcomes, Passes, Floor, Conflict
<1>0. Ordered
  BY DEF IInv
<1>1. CASE StartVisit \/ VisitDep \/ FindCycle \/ LeaveVisit \/ NoCycle
  BY <1>1 DEF Ordered, StartVisit, VisitDep, FindCycle, LeaveVisit, NoCycle, Searching
<1>2. CASE LoadTasksYaml
  BY <1>2 DEF Ordered, LoadTasksYaml
<1>3. ASSUME NEW c \in Passes,
             StartPass(c) \/ DependencyFloor(c) \/ ByPhase(c) \/ SplitConflict(c) \/ EndPass(c)
      PROVE  Ordered'
  BY <1>0, <1>3 DEF Ordered, StartPass, DependencyFloor, ByPhase, SplitConflict, EndPass,
     Computing,
                    Floors, Conflicts
<1>4. CASE SemanticPass \/ ToEntries \/ WritePlan \/ LoadManifestAndPlan
  BY <1>0, <1>4 DEF Ordered, SemanticPass, ToEntries, WritePlan, LoadManifestAndPlan
<1>5. CASE UNCHANGED vars
  BY <1>0, <1>5 DEF Ordered, vars
<1> QED
  BY <1>1, <1>2, <1>3, <1>4, <1>5 DEF Next

LEMMA NoPlanStep == IInv /\ [Next]_vars => NoPlanYet'
<1> SUFFICES ASSUME IInv, [Next]_vars PROVE NoPlanYet'
  OBVIOUS
<1> USE DEF Computes, Passes, Floor, Conflict
<1>0. NoPlanYet
  BY DEF IInv
<1>1. CASE StartVisit \/ VisitDep \/ FindCycle \/ LeaveVisit \/ NoCycle
  BY <1>0, <1>1 DEF NoPlanYet, StartVisit, VisitDep, FindCycle, LeaveVisit, NoCycle,
     Searching, results
<1>2. CASE LoadTasksYaml
  BY <1>0, <1>2 DEF NoPlanYet, LoadTasksYaml, results
<1>3. ASSUME NEW c \in Passes,
             StartPass(c) \/ DependencyFloor(c) \/ ByPhase(c) \/ SplitConflict(c) \/ EndPass(c)
      PROVE  NoPlanYet'
  BY <1>0, <1>3 DEF NoPlanYet, StartPass, DependencyFloor, ByPhase, SplitConflict,
     EndPass, Computing,
                    Floors, Conflicts, results
<1>4. CASE SemanticPass \/ ToEntries \/ WritePlan \/ LoadManifestAndPlan
  BY <1>0, <1>4 DEF NoPlanYet, SemanticPass, ToEntries, WritePlan, LoadManifestAndPlan,
     results
<1>5. CASE UNCHANGED vars
  BY <1>0, <1>5 DEF NoPlanYet, vars, results
<1> QED
  BY <1>1, <1>2, <1>3, <1>4, <1>5 DEF Next

-----------------------------------------------------------------------------
(* One pass: what it has seen stays right as long as it changes nothing.   *)
LEMMA ComputingKeeps ==
    ASSUME NEW at, Computing(at)
    PROVE  /\ T' = T
           /\ manifest' = manifest
           /\ \A a, b : Clash(a, b)' <=> Clash(a, b)
  BY DEF Computing, T, Clash, semantic

LEMMA StartPassLayered ==
    ASSUME IInv, NEW c \in Passes, StartPass(c)
    PROVE  Layered'
<1>1. pc' \in Floor /\ seen' = {}
  BY DEF StartPass, Floors, Passes, Floor
<1> QED
  BY <1>1 DEF Layered, Passes, Floor, Conflict, AfterDeps

LEMMA DependencyFloorLayered ==
    ASSUME IInv, NEW c \in Passes, DependencyFloor(c)
    PROVE  Layered'
<1> SUFFICES ASSUME ~ changed'
             PROVE  Layered'
  BY DEF Layered
<1>1. pc = Floors(c) /\ pc' = pc /\ Computing(Floors(c))
  BY DEF DependencyFloor, Computing
<1>2. PICK t \in T \ seen :
        /\ \A d \in manifest.dependsOn[t] : phase[d] < phase[t]
        /\ UNCHANGED <<phase, changed>>
        /\ seen' = seen \cup {t}
  BY DEF DependencyFloor
<1>3. AfterDeps(phase, seen)
  BY <1>1, <1>2 DEF IInv, Layered, Floors, Passes, Floor
<1>4. AfterDeps(phase, seen)'
  BY <1>1, <1>2, <1>3, ComputingKeeps DEF AfterDeps
<1>5. pc' \notin Conflict \cup Passes \cup {"visit", "load"}
  BY <1>1 DEF Floors, Conflict, Passes
<1> QED
  BY <1>4, <1>5 DEF Layered

LEMMA ByPhaseLayered ==
    ASSUME IInv, NEW c \in Passes, ByPhase(c)
    PROVE  Layered'
<1> SUFFICES ASSUME ~ changed'
             PROVE  Layered'
  BY DEF Layered
<1>1. /\ pc = Floors(c) /\ pc' = Conflicts(c) /\ Computing(Floors(c))
      /\ UNCHANGED <<phase, changed>> /\ before' = phase /\ seen' = {} /\ seen = T
  BY DEF ByPhase, Computing
<1>2. AfterDeps(phase, T)
  BY <1>1 DEF IInv, Layered, Floors, Passes, Floor
<1>3. AfterDeps(phase, T)' /\ Apart(phase, seen)' /\ before' = phase'
  BY <1>1, <1>2, ComputingKeeps DEF AfterDeps, Apart
<1>4. pc' \notin Floor \cup Passes \cup {"visit", "load"}
  BY <1>1 DEF Conflicts, Floor, Passes
<1> QED
  BY <1>3, <1>4 DEF Layered

LEMMA SplitConflictLayered ==
    ASSUME IInv, NEW c \in Passes, SplitConflict(c)
    PROVE  Layered'
<1> SUFFICES ASSUME ~ changed'
             PROVE  Layered'
  BY DEF Layered
<1>1. pc = Conflicts(c) /\ pc' = pc /\ before' = before /\ Computing(Conflicts(c))
  BY DEF SplitConflict, Computing
<1>2. PICK t \in T \ seen :
        /\ \A u \in Committed(t) : ~ Clash(t, u)
        /\ UNCHANGED <<phase, changed, splits>>
        /\ seen' = seen \cup {t}
  BY DEF SplitConflict
<1>3. before = phase /\ AfterDeps(phase, T) /\ Apart(phase, seen)
  BY <1>1, <1>2 DEF IInv, Layered, Conflicts, Passes, Conflict
<1>4. \A u \in seen : phase[u] = phase[t] => ~ Clash(t, u) /\ ~ Clash(u, t)
  BY <1>2, <1>3, ClashIsSymmetric DEF Committed
<1>5. Apart(phase, seen')
  BY <1>2, <1>3, <1>4 DEF Apart
<1>6. Apart(phase, seen)' /\ AfterDeps(phase, T)' /\ before' = phase'
  BY <1>1, <1>2, <1>3, <1>5, ComputingKeeps DEF Apart, AfterDeps
<1>7. pc' \notin Floor \cup Passes \cup {"visit", "load"}
  BY <1>1 DEF Conflicts, Floor, Passes
<1> QED
  BY <1>6, <1>7 DEF Layered

LEMMA EndPassLayered ==
    ASSUME IInv, NEW c \in Passes, EndPass(c)
    PROVE  Layered'
<1> SUFFICES ASSUME ~ changed'
             PROVE  Layered'
  BY DEF Layered
<1>1. /\ pc = Conflicts(c) /\ pc' = c /\ Computing(Conflicts(c))
      /\ UNCHANGED <<phase, changed>> /\ seen = T
  BY DEF EndPass, Computing, layers
<1>2. AfterDeps(phase, T) /\ Apart(phase, T)
  BY <1>1 DEF IInv, Layered, Conflicts, Passes, Conflict
<1>3. AfterDeps(phase, T)' /\ Apart(phase, T)'
  BY <1>1, <1>2, ComputingKeeps DEF AfterDeps, Apart
<1>4. pc' \notin Floor \cup Conflict \cup {"visit", "load"}
  BY <1>1 DEF Floor, Conflict, Passes
<1> QED
  BY <1>3, <1>4 DEF Layered

(* Elsewhere the phases are not touched, or are reset. *)
LEMMA ElsewhereLayered ==
    ASSUME IInv,
           \/ StartVisit \/ VisitDep \/ FindCycle \/ LeaveVisit \/ NoCycle \/ LoadTasksYaml
           \/ SemanticPass \/ ToEntries \/ WritePlan \/ LoadManifestAndPlan
    PROVE  Layered'
<1>1. CASE SemanticPass
  BY <1>1 DEF SemanticPass, Layered
<1>2. CASE LoadTasksYaml
  BY <1>2 DEF IInv, Layered, LoadTasksYaml, layers, Floor, Conflict, Passes
<1>3. CASE \/ StartVisit \/ VisitDep \/ FindCycle \/ LeaveVisit \/ NoCycle
  BY <1>3 DEF IInv, Layered, StartVisit, VisitDep, FindCycle, LeaveVisit, NoCycle,
     Searching, layers,
              Floor, Conflict, Passes
<1>4. CASE ToEntries \/ WritePlan \/ LoadManifestAndPlan
  <2>1. pc' \notin Floor \cup Conflict \cup Passes \cup {"visit", "load"}
    BY <1>4 DEF ToEntries, WritePlan, LoadManifestAndPlan, Floor, Conflict, Passes
  <2> QED
    BY <2>1 DEF Layered
<1> QED
  BY <1>1, <1>2, <1>3, <1>4

LEMMA LayeredStep == IInv /\ [Next]_vars => Layered'
<1> SUFFICES ASSUME IInv, [Next]_vars PROVE Layered'
  OBVIOUS
<1>1. ASSUME NEW c \in Passes,
             StartPass(c) \/ DependencyFloor(c) \/ ByPhase(c) \/ SplitConflict(c) \/ EndPass(c)
      PROVE  Layered'
  BY <1>1, StartPassLayered, DependencyFloorLayered, ByPhaseLayered, SplitConflictLayered,
     EndPassLayered
<1>2. CASE UNCHANGED vars
  BY <1>2 DEF IInv, Layered, vars, layers, semantic, AfterDeps, Apart, Clash, T
<1> QED
  BY <1>1, <1>2, ElsewhereLayered DEF Next

-----------------------------------------------------------------------------
(* The plan: made once, of phases that are right, and only copied since.   *)
LEMMA ToEntriesPlanned ==
    ASSUME IInv, ToEntries
    PROVE  Planned'
<1>1. /\ manifest \in Manifests /\ phase \in [T -> Nat] /\ DependencyOrder(manifest)
      /\ AfterDeps(phase, T) /\ Apart(phase, T)
  BY DEF IInv, TypeOK, Ordered, Layered, ToEntries, Computes, Passes
<1>2. /\ AfterDeps(plan', T) /\ Apart(plan', T) /\ ValidPlan(manifest, plan')
      /\ plan' \in [T -> Nat]
  BY <1>1, EntriesAreSound DEF ToEntries
<1>3. pc' = "write"
  BY <1>2 DEF ToEntries
<1>4. T' = T /\ manifest' = manifest /\ forced' = forced
  BY DEF ToEntries, T, semantic
<1>5. AfterDeps(plan, T)' /\ Apart(plan, T)' /\ ValidPlan(manifest, plan)'
  BY <1>2, <1>4 DEF AfterDeps, Apart, Clash, ValidPlan
<1>6. loaded' = None
  BY DEF IInv, NoPlanYet, ToEntries, Computes, Passes
<1> QED
  BY <1>3, <1>5, <1>6 DEF Planned

LEMMA PlannedStep == IInv /\ [Next]_vars => Planned'
<1> SUFFICES ASSUME IInv, [Next]_vars PROVE Planned'
  OBVIOUS
<1>0. Planned /\ NoPlanYet
  BY DEF IInv
<1> DEFINE Same == /\ manifest' = manifest /\ plan' = plan /\ loaded' = loaded
                   /\ pc # "loaded" /\ pc' \notin {"PLAN_SELF_CHECK_FAILED", "INVALID_PLAN"}
<1>1. ASSUME Same, forced' = forced
      PROVE  Planned'
  BY <1>0, <1>1 DEF Planned, AfterDeps, Apart, Clash, ValidPlan, T
<1>2. CASE StartVisit \/ VisitDep \/ FindCycle \/ LeaveVisit \/ NoCycle
  <2>1. Same /\ forced' = forced
    BY <1>2 DEF StartVisit, VisitDep, FindCycle, LeaveVisit, NoCycle, Searching, semantic,
       results
  <2> QED
    BY <1>1, <2>1
<1>3. CASE LoadTasksYaml
  <2>1. Same /\ forced' = forced
    BY <1>3 DEF LoadTasksYaml, semantic, results
  <2> QED
    BY <1>1, <2>1
<1>4. ASSUME NEW c \in Passes,
             StartPass(c) \/ DependencyFloor(c) \/ ByPhase(c) \/ SplitConflict(c) \/ EndPass(c)
      PROVE  Planned'
  <2>1. Same /\ forced' = forced
    BY <1>4 DEF StartPass, DependencyFloor, ByPhase, SplitConflict, EndPass, Computing,
       semantic, results,
                Floors, Conflicts, Passes
  <2> QED
    BY <1>1, <2>1
<1>5. CASE SemanticPass
  <2>1. plan' = None /\ loaded' = None /\ pc' = "final"
    BY <1>0, <1>5 DEF NoPlanYet, SemanticPass, results, Computes, Passes
  <2> QED
    BY <2>1 DEF Planned
<1>6. CASE ToEntries
  BY <1>6, ToEntriesPlanned
<1>7. CASE WritePlan
  <2>1. Same /\ forced' = forced
    BY <1>7 DEF WritePlan, semantic
  <2> QED
    BY <1>1, <2>1
<1>8. CASE LoadManifestAndPlan
  <2>1. UNCHANGED <<manifest, plan, written, forced>> /\ pc # "loaded"
    BY <1>8 DEF LoadManifestAndPlan, semantic
  <2>2. /\ pc' \in {"refused", "loaded", "INVALID_PLAN"}
        /\ pc' = "INVALID_PLAN" => written # None /\ ~ ValidPlan(manifest, written)
        /\ pc' # "loaded" => loaded' = loaded
    BY <1>8 DEF LoadManifestAndPlan
  <2>3. pc' = "INVALID_PLAN" => plan = None \/ written # plan
    BY <1>0, <2>2 DEF Planned
  <2>4. AfterDeps(plan, T)' = AfterDeps(plan, T) /\ Apart(plan, T)' = Apart(plan, T)
    BY <2>1 DEF AfterDeps, Apart, Clash, T
  <2>5. ValidPlan(manifest, plan)' = ValidPlan(manifest, plan)
    BY <2>1 DEF ValidPlan
  <2> QED
    BY <1>0, <2>1, <2>2, <2>3, <2>4, <2>5 DEF Planned
<1>9. CASE UNCHANGED vars
  BY <1>0, <1>9 DEF vars, semantic, results, Planned, AfterDeps, Apart, Clash, ValidPlan, T
<1> QED
  BY <1>2, <1>3, <1>4, <1>5, <1>6, <1>7, <1>8, <1>9 DEF Next

(* What the coordinator loads is the plan that was made, one task per phase, *)
(* or an older plan, of which it has looked at the dependencies.             *)
LEMMA LoadedStep == IInv /\ [Next]_vars => LoadedIsSafe'
<1> SUFFICES ASSUME IInv, [Next]_vars PROVE LoadedIsSafe'
  OBVIOUS
<1>0. LoadedIsSafe /\ Planned /\ manifest \in Manifests
  BY DEF IInv, TypeOK
<1>1. CASE LoadManifestAndPlan
  <2>1. manifest' = manifest /\ T' = T /\ written' = written /\ plan' = plan
    BY <1>1 DEF LoadManifestAndPlan, T
  <2>2. CASE loaded' = loaded
    BY <1>0, <2>1, <2>2 DEF LoadedIsSafe
  <2>3. CASE DependencyOrder(manifest) /\ loaded' = DegeneratePlan(manifest)
    <3>1. \A t \in T : loaded'[t] = t
      BY <2>3 DEF DegeneratePlan, T
    <3>2. \A t \in T : \A d \in manifest.dependsOn[t] : loaded'[d] < loaded'[t]
      BY <1>0, <2>3, <3>1, OrderedDeps
    <3>3. \A a, b \in T : <<a, b>> \in manifest.overlap => loaded'[a] # loaded'[b]
      <4> SUFFICES ASSUME NEW a \in T, NEW b \in T, <<a, b>> \in manifest.overlap
                   PROVE  a # b
        BY <3>1
      <4>1. <<a, b>> \in Pairs(manifest)
        BY <1>0, ManifestType
      <4>2. a < b
        BY <4>1 DEF Pairs
      <4> QED
        BY <1>0, <4>2, ManifestType
    <3>4. DOMAIN loaded' = T
      BY <2>3 DEF DegeneratePlan, T
    <3> QED
      BY <2>1, <3>2, <3>3, <3>4 DEF LoadedIsSafe
  <2>4. CASE written # None /\ ValidPlan(manifest, written) /\ loaded' = written
    <3>1. DOMAIN loaded' = T /\ AfterDeps(loaded', T)
      BY <2>4 DEF ValidPlan, AfterDeps, T
    <3>2. \A a, b \in T : <<a, b>> \in manifest.overlap => a # b /\ Clash(a, b)
      <4> SUFFICES ASSUME NEW a \in T, NEW b \in T, <<a, b>> \in manifest.overlap
                   PROVE  a # b /\ Clash(a, b)
        OBVIOUS
      <4>1. <<a, b>> \in Pairs(manifest)
        BY <1>0, ManifestType
      <4>2. a < b
        BY <4>1 DEF Pairs
      <4>3. Clash(a, b)
        BY DEF Clash
      <4> QED
        BY <1>0, <4>2, <4>3, ManifestType
    <3>3. ASSUME written = plan
          PROVE  \A a, b \in T : <<a, b>> \in manifest.overlap => loaded'[a] # loaded'[b]
      BY <1>0, <2>4, <3>2, <3>3 DEF Planned, Apart
    <3> QED
      BY <2>1, <2>4, <3>1, <3>3 DEF LoadedIsSafe, AfterDeps
  <2> QED
    BY <1>1, <2>2, <2>3, <2>4 DEF LoadManifestAndPlan
<1>2. CASE loaded' = loaded /\ pc # "loaded"
  BY <1>0, <1>2 DEF LoadedIsSafe, Planned
<1>3. CASE UNCHANGED vars
  BY <1>0, <1>3 DEF vars, results, LoadedIsSafe, T
<1>4. ASSUME NEW c \in Passes,
             StartPass(c) \/ DependencyFloor(c) \/ ByPhase(c) \/ SplitConflict(c) \/ EndPass(c)
      PROVE  LoadedIsSafe'
  BY <1>2, <1>4 DEF StartPass, DependencyFloor, ByPhase, SplitConflict, EndPass,
     Computing, results,
                    Floors, Conflicts, Passes
<1>5. CASE \/ StartVisit \/ VisitDep \/ FindCycle \/ LeaveVisit \/ NoCycle \/ LoadTasksYaml
           \/ SemanticPass \/ ToEntries \/ WritePlan
  BY <1>2, <1>5 DEF StartVisit, VisitDep, FindCycle, LeaveVisit, NoCycle, Searching,
     LoadTasksYaml,
                    SemanticPass, ToEntries, WritePlan, results
<1> QED
  BY <1>1, <1>3, <1>4, <1>5 DEF Next

-----------------------------------------------------------------------------
LEMMA Invariance == Spec => []IInv
<1>1. IInv /\ [Next]_vars => IInv'
  BY TypeStep, OrderedStep, LayeredStep, NoPlanStep, PlannedStep, LoadedStep DEF IInv
<1> QED
  BY InitOK, <1>1, PTL DEF Spec

(* The variables of planning keep their types, for every tasks.yaml.       *)
THEOREM TypeCorrectness == Spec => []TypeOK
<1>1. IInv => TypeOK
  BY DEF IInv
<1> QED
  BY Invariance, <1>1, PTL

(* Every plan that is made respects the dependencies, keeps clashing tasks *)
(* apart, and passes the checks of C1 and, once written, the coordinator's. *)
THEOREM PlansAreSound == Spec => []PlanIsSound
<1>1. IInv => PlanIsSound
  BY DEF IInv, Planned, PlanIsSound, AfterDeps, Apart
<1> QED
  BY Invariance, <1>1, PTL

(* What the coordinator goes by has every task after its dependencies, and *)
(* no overlap side by side unless an older plan says so.                   *)
THEOREM LoadedPlansAreSafe == Spec => []LoadedIsSafe
<1>1. IInv => LoadedIsSafe
  BY DEF IInv
<1> QED
  BY Invariance, <1>1, PTL

(* From the fixpoint to what the coordinator has loaded: nothing runs      *)
(* before what it depends on, and, unless an older plan is in the file,    *)
(* nothing runs beside what it overlaps with.                              *)
THEOREM SchedulesAreSound == Spec => []ScheduleIsSound
BY PlansAreSound, LoadedPlansAreSafe, PTL DEF ScheduleIsSound

-----------------------------------------------------------------------------
(* The search: the stack is a path, and what is black cannot reach a cycle.*)
Black == {t \in T : color[t] = "black"}

Linked(path) == \A i \in 1..(Len(path) - 1) : path[i + 1] \in Edges(path[i])

BlackIsClosed == \A t \in Black : Edges(t) \subseteq Black

(* Of the tasks in any part of S, one depends on no other of them. *)
HasNoCycle(S) == \A U \in SUBSET S : U # {} => \E t \in U : manifest.dependsOn[t] \cap U = {}

Searched == Linked(stack) /\ BlackIsClosed /\ HasNoCycle(Black) /\ CycleSearchIsRight

(* Why a task is where it is, while the phases still grow: below the floor *)
(* of its dependencies it may be for now, but above it only by a split.    *)
Reasoned ==
    plan = None => \A t \in T :
        \/ phase[t] = 1
        \/ \E d \in manifest.dependsOn[t] : d \in T /\ phase[t] =< phase[d] + 1
        \/ \E a \in T : <<a, t>> \in splits

(* A pass over the conflicts has moved a task by one phase at most. *)
ByOne == pc \in Conflict => \A t \in T : phase[t] =< before[t] + 1

DInv == Searched /\ Reasoned /\ ByOne /\ DelaysAreExplained

-----------------------------------------------------------------------------
(* At the start nothing is found and nothing is delayed.                   *)
LEMMA DiagnosesInit == Init => DInv
<1> SUFFICES ASSUME Init PROVE DInv
  OBVIOUS
<1>1. Black = {} /\ stack = <<>> /\ cycle = None /\ pc = "visit" /\ plan = None
  BY DEF Init, Black
<1>2. Linked(stack) /\ BlackIsClosed /\ HasNoCycle(Black) /\ CycleSearchIsRight
  BY <1>1 DEF Linked, BlackIsClosed, HasNoCycle, CycleSearchIsRight
<1>3. Reasoned /\ ByOne /\ DelaysAreExplained
  BY <1>1 DEF Init, Reasoned, ByOne, DelaysAreExplained, Conflict
<1> QED
  BY <1>2, <1>3 DEF DInv, Searched

(* Steps that are no part of the search leave what it has found.           *)
LEMMA SearchKept ==
    ASSUME Searched, UNCHANGED <<manifest, color, stack, cycle>>, pc' # "load"
    PROVE  Searched'
<1>1. T' = T /\ Black' = Black /\ \A t : Edges(t)' = Edges(t)
  BY DEF T, Black, Edges
<1>2. Linked(stack)' /\ BlackIsClosed' /\ HasNoCycle(Black)'
  BY <1>1 DEF Searched, Linked, BlackIsClosed, HasNoCycle
<1>3. CycleSearchIsRight'
  BY DEF Searched, CycleSearchIsRight
<1> QED
  BY <1>2, <1>3 DEF Searched

(* A task goes grey and joins the path: nothing becomes or ceases black.   *)
LEMMA PushSearched ==
    ASSUME IInv, Searched, StartVisit \/ VisitDep
    PROVE  Searched'
<1>0. /\ stack \in Seq(T) /\ color \in [T -> {"white", "grey", "black"}]
      /\ pc' = "visit" /\ manifest' = manifest /\ cycle' = cycle /\ T' = T
      /\ \A t : Edges(t)' = Edges(t)
  BY DEF IInv, TypeOK, StartVisit, VisitDep, Searching, T, Edges
<1>1. PICK t \in T : color[t] = "white" /\ color' = [color EXCEPT ![t] = "grey"]
  BY DEF StartVisit, VisitDep, Edges
<1>2. Black' = Black
  BY <1>0, <1>1 DEF Black
<1>3. BlackIsClosed' /\ HasNoCycle(Black)'
  BY <1>0, <1>2 DEF Searched, BlackIsClosed, HasNoCycle
<1>4. CycleSearchIsRight'
  BY <1>0 DEF Searched, CycleSearchIsRight
<1>5. Linked(stack)'
  <2>1. CASE StartVisit
    <3>1. Len(stack') = 1
      BY <2>1 DEF StartVisit
    <3> QED
      BY <3>1 DEF Linked
  <2>2. CASE VisitDep
    <3>1. PICK d \in Edges(Top) : stack' = Append(stack, d)
      BY <2>2 DEF VisitDep
    <3>2. Len(stack) \in Nat /\ Len(stack) > 0
      BY <1>0, <2>2 DEF VisitDep
    <3>3. Len(stack') = Len(stack) + 1 /\ stack'[Len(stack) + 1] = d
      BY <1>0, <3>1, <3>2 DEF Edges
    <3>4. \A i \in 1..Len(stack) : stack'[i] = stack[i]
      BY <1>0, <3>1, <3>2 DEF Edges
    <3>5. ASSUME NEW i \in 1..(Len(stack') - 1)
          PROVE  stack'[i + 1] \in Edges(stack'[i])
      <4>1. CASE i = Len(stack)
        BY <3>1, <3>2, <3>3, <3>4, <4>1 DEF Top
      <4>2. CASE i < Len(stack)
        <5>1. i \in 1..(Len(stack) - 1) /\ i + 1 \in 1..Len(stack) /\ i \in 1..Len(stack)
          BY <3>2, <3>3, <4>2
        <5>2. stack[i + 1] \in Edges(stack[i])
          BY <5>1 DEF Searched, Linked
        <5> QED
          BY <5>1, <5>2, <3>4
      <4> QED
        BY <3>2, <3>3, <4>1, <4>2
    <3> QED
      BY <1>0, <3>5 DEF Linked
  <2> QED
    BY <2>1, <2>2
<1> QED
  BY <1>3, <1>4, <1>5 DEF Searched

(* What turns up again on the path closes a cycle.                         *)
LEMMA FindCycleSearched ==
    ASSUME IInv, Searched, FindCycle
    PROVE  Searched'
<1>0. /\ stack \in Seq(T) /\ manifest' = manifest /\ T' = T
      /\ UNCHANGED <<color, stack>> /\ pc' = "CYCLE_DETECTED"
      /\ \A t : Edges(t)' = Edges(t)
  BY DEF IInv, TypeOK, FindCycle, Searching, T, Edges
<1>1. Black' = Black
  BY <1>0 DEF Black
<1>2. BlackIsClosed' /\ HasNoCycle(Black)' /\ Linked(stack)'
  BY <1>0, <1>1 DEF Searched, BlackIsClosed, HasNoCycle, Linked
<1>3. PICK i \in 1..Len(stack) : stack[i] \in Edges(Top) /\ cycle' = SubSeq(stack, i, Len(stack))
  BY DEF FindCycle
<1> DEFINE n == Len(stack)
<1>4. n \in Nat /\ i \in Nat /\ 1 <= i /\ i <= n
  BY <1>0
<1>5. Len(cycle') = n - i + 1 /\ \A j \in 1..(n - i + 1) : cycle'[j] = stack[i + j - 1]
  BY <1>0, <1>3, <1>4
<1>6. cycle' # <<>>
  BY <1>4, <1>5
<1>7. ASSUME NEW j \in 1..Len(cycle')
      PROVE  cycle'[IF j = Len(cycle') THEN 1 ELSE j + 1] \in manifest.dependsOn[cycle'[j]]
  <2>1. CASE j = Len(cycle')
    <3>1. cycle'[1] = stack[i] /\ cycle'[j] = stack[n]
      BY <1>4, <1>5, <2>1
    <3> QED
      BY <1>3, <2>1, <3>1 DEF Top, Edges
  <2>2. CASE j # Len(cycle')
    <3>1. j \in Nat /\ 1 <= j /\ j < n - i + 1
      BY <1>4, <1>5, <2>2
    <3>2. i + j - 1 \in 1..(n - 1) /\ j + 1 \in 1..(n - i + 1)
      BY <1>4, <3>1
    <3>3. cycle'[j] = stack[i + j - 1] /\ cycle'[j + 1] = stack[(i + j - 1) + 1]
      <4>1. i + (j + 1) - 1 = (i + j - 1) + 1
        BY <1>4, <3>1
      <4> QED
        BY <1>5, <3>1, <3>2, <4>1
    <3>4. stack[(i + j - 1) + 1] \in Edges(stack[i + j - 1])
      BY <3>2 DEF Searched, Linked
    <3> QED
      BY <2>2, <3>3, <3>4 DEF Edges
  <2> QED
    BY <2>1, <2>2
<1>8. CycleSearchIsRight'
  BY <1>0, <1>6, <1>7 DEF CycleSearchIsRight
<1> QED
  BY <1>2, <1>8 DEF Searched

(* What is left of a path without its last task. *)
LEMMA AllButLast ==
    ASSUME NEW S, NEW s \in Seq(S), s # <<>>
    PROVE  /\ Len(SubSeq(s, 1, Len(s) - 1)) = Len(s) - 1
           /\ \A i \in 1..(Len(s) - 1) : SubSeq(s, 1, Len(s) - 1)[i] = s[i]
<1> DEFINE n == Len(s) - 1
<1>1. n \in Nat
  OBVIOUS
<1>2. \A i \in 1..n : s[i] \in S
  BY <1>1
<1>3. Len(SubSeq(s, 1, n)) = IF 1 =< n THEN n - 1 + 1 ELSE 0
  BY <1>1, <1>2, SubSeqProperties
<1>4. \A i \in 1..(n - 1 + 1) : SubSeq(s, 1, n)[i] = s[1 + i - 1]
  BY <1>1, <1>2, SubSeqProperties
<1> QED
  <2> HIDE DEF n
  <2>1. Len(SubSeq(s, 1, n)) = n
    BY <1>1, <1>3
  <2>2. ASSUME NEW i \in 1..n
        PROVE  SubSeq(s, 1, n)[i] = s[i]
    <3>1. i \in 1..(n - 1 + 1) /\ 1 + i - 1 = i
      BY <1>1
    <3> QED
      BY <1>4, <3>1
  <2> QED
    BY <2>1, <2>2 DEF n

(* A task is left when all it depends on is black, and so cannot close a   *)
(* cycle with what was black before: nothing of that leads back to it.     *)
LEMMA LeaveVisitSearched ==
    ASSUME IInv, Searched, LeaveVisit
    PROVE  Searched'
<1>0. /\ stack \in Seq(T) /\ color \in [T -> {"white", "grey", "black"}]
      /\ pc' = "visit" /\ manifest' = manifest /\ cycle' = cycle /\ T' = T
      /\ stack # <<>> /\ \A d \in Edges(Top) : color[d] = "black"
      /\ color' = [color EXCEPT ![Top] = "black"]
      /\ stack' = SubSeq(stack, 1, Len(stack) - 1)
      /\ \A t : Edges(t)' = Edges(t)
  BY DEF IInv, TypeOK, LeaveVisit, Searching, T, Edges
<1>1. Len(stack) \in Nat /\ Len(stack) > 0 /\ Top \in T
  BY <1>0 DEF Top
<1>2. Black' = Black \cup {Top}
  BY <1>0, <1>1 DEF Black
<1>3. Edges(Top) \subseteq Black
  BY <1>0 DEF Black, Edges
<1>4. BlackIsClosed'
  BY <1>0, <1>2, <1>3 DEF Searched, BlackIsClosed
<1>5. CycleSearchIsRight'
  BY <1>0 DEF Searched, CycleSearchIsRight
<1>6. Linked(stack)'
  <2>1. Len(stack') = Len(stack) - 1 /\ \A i \in 1..(Len(stack) - 1) : stack'[i] = stack[i]
    BY <1>0, AllButLast
  <2>2. ASSUME NEW i \in 1..(Len(stack') - 1)
        PROVE  stack'[i + 1] \in Edges(stack'[i])
    <3>1. i \in 1..(Len(stack) - 1) /\ i + 1 \in 1..(Len(stack) - 1)
      BY <1>1, <2>1
    <3>2. stack[i + 1] \in Edges(stack[i])
      BY <3>1 DEF Searched, Linked
    <3> QED
      BY <2>1, <3>1, <3>2
  <2> QED
    BY <1>0, <2>2 DEF Linked
<1>7. ASSUME NEW U \in SUBSET (Black \cup {Top}), U # {}
      PROVE  \E t \in U : manifest.dependsOn[t] \cap U = {}
  <2>1. CASE U \subseteq Black
    BY <1>7, <2>1 DEF Searched, HasNoCycle
  <2>2. CASE Top \in U /\ Top \notin Black
    <3>1. Top \notin manifest.dependsOn[Top]
      BY <1>1, <1>3, <2>2 DEF Edges
    <3>2. CASE U = {Top}
      BY <3>1, <3>2
    <3>3. CASE U # {Top}
      <4>1. U \ {Top} \in SUBSET Black /\ U \ {Top} # {}
        BY <2>2, <3>3
      <4>2. PICK t \in U \ {Top} : manifest.dependsOn[t] \cap (U \ {Top}) = {}
        BY <4>1 DEF Searched, HasNoCycle
      <4>3. Top \notin manifest.dependsOn[t]
        BY <1>1, <2>2, <4>1 DEF Searched, BlackIsClosed, Edges
      <4> QED
        BY <4>2, <4>3
    <3> QED
      BY <3>2, <3>3
  <2> QED
    BY <2>1, <2>2
<1>8. HasNoCycle(Black)'
  BY <1>0, <1>2, <1>7 DEF HasNoCycle
<1> QED
  BY <1>4, <1>5, <1>6, <1>8 DEF Searched

(* The search ends with no cycle only when every task is black, and a manifest *)
(* whose tasks are all black is acyclic.                                       *)
LEMMA NoCycleSearched ==
    ASSUME Searched, NoCycle
    PROVE  Searched'
<1>0. /\ manifest' = manifest /\ UNCHANGED <<color, stack, cycle>> /\ T' = T
      /\ \A t : Edges(t)' = Edges(t)
  BY DEF NoCycle, Searching, search, T, Edges
<1>1. Black = T /\ Black' = Black
  BY <1>0 DEF NoCycle, Black
<1>2. Acyclic(manifest)
  BY <1>1 DEF Searched, HasNoCycle, Acyclic, T
<1>3. BlackIsClosed' /\ HasNoCycle(Black)' /\ Linked(stack)'
  BY <1>0, <1>1 DEF Searched, BlackIsClosed, HasNoCycle, Linked
<1>4. CycleSearchIsRight'
  BY <1>0, <1>2 DEF Searched, CycleSearchIsRight
<1> QED
  BY <1>3, <1>4 DEF Searched

(* What the search knows is kept by every step: one lemma per action of the *)
(* search, and the rest of the engine never touches it.                     *)
LEMMA SearchedStep == IInv /\ Searched /\ [Next]_vars => Searched'
<1> SUFFICES ASSUME IInv, Searched, [Next]_vars PROVE Searched'
  OBVIOUS
<1>1. CASE StartVisit \/ VisitDep \/ FindCycle \/ LeaveVisit \/ NoCycle
  BY <1>1, PushSearched, FindCycleSearched, LeaveVisitSearched, NoCycleSearched
<1>2. CASE LoadTasksYaml
  BY <1>2, SearchKept DEF LoadTasksYaml, search
<1>3. ASSUME NEW c \in Passes,
             StartPass(c) \/ DependencyFloor(c) \/ ByPhase(c) \/ SplitConflict(c) \/ EndPass(c)
      PROVE  Searched'
  BY <1>3, SearchKept DEF StartPass, DependencyFloor, ByPhase, SplitConflict, EndPass,
     Computing,
                          search, Passes, Floors, Conflicts
<1>4. CASE SemanticPass \/ ToEntries \/ WritePlan \/ LoadManifestAndPlan
  <2>1. UNCHANGED <<manifest, color, stack, cycle>>
    BY <1>4 DEF SemanticPass, ToEntries, WritePlan, LoadManifestAndPlan, search
  <2>2. pc' # "load"
    BY <1>4 DEF SemanticPass, ToEntries, WritePlan, LoadManifestAndPlan
  <2> QED
    BY <2>1, <2>2, SearchKept
<1>5. CASE UNCHANGED vars
  BY <1>5 DEF vars, search, Searched, Linked, BlackIsClosed, HasNoCycle,
     CycleSearchIsRight, Black,
              T, Edges
<1> QED
  BY <1>1, <1>2, <1>3, <1>4, <1>5 DEF Next

-----------------------------------------------------------------------------
(* The phases: they only grow, so that what was below the floor plus one   *)
(* stays below it.                                                         *)
LEMMA GrowthReasoned ==
    ASSUME IInv, Reasoned, plan = None, manifest' = manifest,
           phase' \in [T -> Nat], splits \subseteq splits', NEW t \in T,
           \A u \in T : phase[u] =< phase'[u],
           \A u \in T \ {t} : phase'[u] = phase[u],
           \/ phase'[t] = phase[t]
           \/ \E d \in manifest.dependsOn[t] : d \in T /\ d # t /\ phase'[t] = phase[d] + 1
           \/ \E a \in T : <<a, t>> \in splits'
    PROVE  Reasoned'
<1>0. T' = T /\ phase \in [T -> Nat]
  BY DEF T, IInv, TypeOK
<1>1. ASSUME NEW u \in T
      PROVE  \/ phase'[u] = 1
             \/ \E d \in manifest.dependsOn[u] : d \in T /\ phase'[u] =< phase'[d] + 1
             \/ \E a \in T : <<a, u>> \in splits'
  <2>1. CASE phase'[u] = phase[u]
    <3>1. CASE phase[u] = 1 \/ \E a \in T : <<a, u>> \in splits
      BY <2>1, <3>1
    <3>2. ASSUME NEW d \in manifest.dependsOn[u], d \in T, phase[u] =< phase[d] + 1
          PROVE  phase'[u] =< phase'[d] + 1
      <4>1. phase[d] =< phase'[d] /\ phase[d] \in Nat /\ phase'[d] \in Nat /\ phase[u] \in Nat
        BY <1>0, <3>2
      <4> QED
        BY <2>1, <3>2, <4>1
    <3> QED
      BY <3>1, <3>2 DEF Reasoned
  <2>2. ASSUME u = t, NEW d \in manifest.dependsOn[t], d \in T, d # t, phase'[t] = phase[d] + 1
        PROVE  phase'[u] =< phase'[d] + 1
    BY <1>0, <2>2
  <2> QED
    BY <2>1, <2>2
<1> QED
  BY <1>0, <1>1 DEF Reasoned

(* A pass over the dependencies raises one task to one above a dependency, which *)
(* is then the reason of its phase.                                              *)
LEMMA FloorReasoned ==
    ASSUME IInv, DInv, NEW c \in Passes, DependencyFloor(c)
    PROVE  Reasoned' /\ ByOne' /\ DelaysAreExplained'
<1>0. /\ phase \in [T -> Nat] /\ manifest \in Manifests /\ DependencyOrder(manifest)
      /\ plan = None /\ plan' = plan /\ manifest' = manifest /\ splits' = splits /\ pc' = pc
      /\ pc \in Floor /\ T' = T
  BY DEF IInv, TypeOK, Ordered, NoPlanYet, DependencyFloor, Computing, Passes, Floors,
     Computes,
         Floor, results, T
<1>1. PICK t \in T :
        \/ UNCHANGED phase
        \/ \E d \in manifest.dependsOn[t] :
            phase[t] =< phase[d] /\ phase' = [phase EXCEPT ![t] = phase[d] + 1]
  BY DEF DependencyFloor
<1>2. ASSUME UNCHANGED phase
      PROVE  Reasoned'
  BY <1>0, <1>2 DEF DInv, Reasoned
<1>3. ASSUME NEW d \in manifest.dependsOn[t], phase[t] =< phase[d],
             phase' = [phase EXCEPT ![t] = phase[d] + 1]
      PROVE  Reasoned'
  <2>1. d \in T /\ d < t /\ d # t /\ T \subseteq Nat
    BY <1>0, OrderedDeps, ManifestType
  <2>2. phase' \in [T -> Nat] /\ phase'[t] = phase[d] + 1
    BY <1>0, <1>3, <2>1
  <2>3. \A u \in T \ {t} : phase'[u] = phase[u]
    BY <1>0, <1>3
  <2>4. \A u \in T : phase[u] =< phase'[u]
    BY <1>0, <1>3, <2>1, <2>2, <2>3
  <2> QED
    BY <1>0, <2>1, <2>2, <2>3, <2>4, GrowthReasoned DEF DInv
<1>4. ByOne' /\ DelaysAreExplained'
  BY <1>0 DEF ByOne, DelaysAreExplained, Floor, Conflict
<1> QED
  BY <1>1, <1>2, <1>3, <1>4

(* A pass over the conflicts raises one task to one above its phase at the start *)
(* of the pass, and writes down the pair that is the reason.                     *)
LEMMA SplitReasoned ==
    ASSUME IInv, DInv, NEW c \in Passes, SplitConflict(c)
    PROVE  Reasoned' /\ ByOne' /\ DelaysAreExplained'
<1>0. /\ phase \in [T -> Nat] /\ before \in [T -> Nat] /\ T' = T /\ seen \subseteq T
      /\ plan = None /\ plan' = plan /\ manifest' = manifest /\ pc' = pc /\ before' = before
      /\ pc \in Conflict
  BY DEF IInv, TypeOK, NoPlanYet, SplitConflict, Computing, Passes, Conflicts, Computes,
         Conflict, results, T
<1>1. PICK t \in T :
        \/ UNCHANGED <<phase, splits>>
        \/ \E u \in Committed(t) :
            phase' = [phase EXCEPT ![t] = before[t] + 1] /\ splits' = splits \cup {<<u, t>>}
  BY DEF SplitConflict
<1>2. \A u \in T : phase[u] =< before[u] + 1
  BY <1>0 DEF DInv, ByOne
<1>3. CASE UNCHANGED <<phase, splits>>
  BY <1>0, <1>2, <1>3 DEF DInv, Reasoned, ByOne, DelaysAreExplained
<1>4. ASSUME NEW u \in Committed(t), phase' = [phase EXCEPT ![t] = before[t] + 1],
             splits' = splits \cup {<<u, t>>}
      PROVE  Reasoned' /\ ByOne' /\ DelaysAreExplained'
  <2>1. u \in T
    BY <1>0 DEF Committed
  <2>2. phase' \in [T -> Nat] /\ phase'[t] = before[t] + 1
    BY <1>0, <1>4
  <2>3. \A v \in T \ {t} : phase'[v] = phase[v]
    BY <1>0, <1>4
  <2>4. \A v \in T : phase[v] =< phase'[v]
    BY <1>0, <1>2, <2>2, <2>3
  <2>5. Reasoned'
    <3>1. splits \subseteq splits' /\ \E a \in T : <<a, t>> \in splits'
      BY <1>4, <2>1
    <3> QED
      BY <1>0, <2>2, <2>3, <2>4, <3>1, GrowthReasoned DEF DInv
  <2>6. ByOne'
    BY <1>0, <1>2, <2>2, <2>3 DEF ByOne
  <2> QED
    BY <1>0, <2>5, <2>6 DEF DelaysAreExplained
<1> QED
  BY <1>1, <1>3, <1>4

(* The last pass over the dependencies has changed nothing: a task that is *)
(* not above the floor is on it.                                           *)
LEMMA ToEntriesExplains ==
    ASSUME IInv, DInv, ToEntries
    PROVE  Reasoned' /\ ByOne' /\ DelaysAreExplained'
<1>0. /\ phase \in [T -> Nat] /\ T' = T /\ plan = None /\ plan' = [t \in T |-> Renumber(phase[t])]
      /\ UNCHANGED <<manifest, phase, splits, before>> /\ AfterDeps(phase, T)
      /\ pc' \in {"write", "PLAN_SELF_CHECK_FAILED"}
  BY DEF IInv, TypeOK, NoPlanYet, Layered, ToEntries, Computes, Passes, layers, T
<1>1. ASSUME NEW t \in T
      PROVE  \/ phase[t] = 1
             \/ \E d \in manifest.dependsOn[t] : phase[t] = phase[d] + 1
             \/ \E a \in T : <<a, t>> \in splits
  <2>1. ASSUME NEW d \in manifest.dependsOn[t], d \in T, phase[t] =< phase[d] + 1
        PROVE  phase[t] = phase[d] + 1
    <3>1. phase[d] < phase[t] /\ phase[d] \in Nat /\ phase[t] \in Nat
      BY <1>0, <2>1 DEF AfterDeps
    <3> QED
      BY <2>1, <3>1
  <2> QED
    BY <1>0, <2>1 DEF DInv, Reasoned
<1>2. DelaysAreExplained'
  BY <1>0, <1>1 DEF DelaysAreExplained
<1>3. plan' # None \/ plan' = None
  OBVIOUS
<1>4. Reasoned'
  BY <1>0 DEF DInv, Reasoned
<1>5. ByOne'
  BY <1>0 DEF ByOne, Conflict
<1> QED
  BY <1>2, <1>4, <1>5

(* What leaves the phases, the splits and the plan alone keeps their reasons. *)
LEMMA PhasesKept ==
    ASSUME DInv, UNCHANGED <<manifest, phase, before, splits, plan>>,
           pc' \in Conflict => pc \in Conflict
    PROVE  Reasoned' /\ ByOne' /\ DelaysAreExplained'
  BY DEF DInv, Reasoned, ByOne, DelaysAreExplained, T

(* Every step of the engine keeps a reason for every phase. *)
LEMMA ReasonedStep ==
    IInv /\ DInv /\ [Next]_vars => Reasoned' /\ ByOne' /\ DelaysAreExplained'
<1> SUFFICES ASSUME IInv, DInv, [Next]_vars PROVE Reasoned' /\ ByOne' /\ DelaysAreExplained'
  OBVIOUS
<1> USE DEF Conflict
<1>1. CASE StartVisit \/ VisitDep \/ FindCycle \/ LeaveVisit \/ NoCycle \/ LoadTasksYaml
  <2>1. /\ UNCHANGED <<manifest, phase, before, splits, plan>>
        /\ pc' \notin Conflict
    BY <1>1 DEF StartVisit, VisitDep, FindCycle, LeaveVisit, NoCycle, LoadTasksYaml,
       Searching,
                layers, results
  <2> QED
    BY <2>1, PhasesKept
<1>2. ASSUME NEW c \in Passes, StartPass(c) \/ EndPass(c)
      PROVE  Reasoned' /\ ByOne' /\ DelaysAreExplained'
  <2>1. /\ UNCHANGED <<manifest, phase, before, splits, plan>>
        /\ pc' \notin Conflict
    BY <1>2 DEF StartPass, EndPass, Computing, layers, results, Passes, Floors
  <2> QED
    BY <2>1, PhasesKept
<1>3. ASSUME NEW c \in Passes, ByPhase(c)
      PROVE  Reasoned' /\ ByOne' /\ DelaysAreExplained'
  <2>1. /\ UNCHANGED <<manifest, phase, splits, plan>> /\ before' = phase /\ phase \in [T -> Nat]
    BY <1>3 DEF ByPhase, Computing, results, IInv, TypeOK
  <2>2. ByOne'
    BY <2>1 DEF ByOne, T
  <2> QED
    BY <2>1, <2>2 DEF DInv, Reasoned, DelaysAreExplained, T
<1>4. ASSUME NEW c \in Passes, DependencyFloor(c) \/ SplitConflict(c)
      PROVE  Reasoned' /\ ByOne' /\ DelaysAreExplained'
  BY <1>4, FloorReasoned, SplitReasoned
<1>5. CASE SemanticPass
  <2>1. /\ phase' = [t \in T |-> 1] /\ plan' = plan /\ plan = None /\ pc' = "final" /\ T' = T
    BY <1>5 DEF SemanticPass, IInv, NoPlanYet, Computes, Passes, results, T
  <2> QED
    BY <2>1 DEF Reasoned, ByOne, DelaysAreExplained
<1>6. CASE ToEntries
  BY <1>6, ToEntriesExplains
<1>7. CASE WritePlan \/ LoadManifestAndPlan
  <2>1. /\ UNCHANGED <<manifest, phase, before, splits, plan>>
        /\ pc' \notin Conflict
    BY <1>7 DEF WritePlan, LoadManifestAndPlan, layers
  <2> QED
    BY <2>1, PhasesKept
<1>8. CASE UNCHANGED vars
  BY <1>8, PhasesKept DEF vars, layers, results
<1> QED
  BY <1>1, <1>2, <1>3, <1>4, <1>5, <1>6, <1>7, <1>8 DEF Next

(* A cycle that is reported is one, none gets past the search, and every   *)
(* task that runs later than its dependencies require has given way to     *)
(* another in the audit trail: for every tasks.yaml.                       *)
THEOREM DiagnosesStayRight == Spec => []DiagnosesAreRight
<1>1. Init => DInv
  BY DiagnosesInit
<1>2. IInv /\ DInv /\ [Next]_vars => DInv'
  BY SearchedStep, ReasonedStep DEF DInv
<1>3. DInv => DiagnosesAreRight
  BY DEF DInv, Searched, DiagnosesAreRight
<1> QED
  BY Invariance, <1>1, <1>2, <1>3, PTL DEF Spec

=============================================================================
