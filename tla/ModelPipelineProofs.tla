------------------------- MODULE ModelPipelineProofs -------------------------
(***************************************************************************)
(* Proofs about ModelPipeline, for any inputs, cases and versions and any  *)
(* number of exports, recordings and failures.                             *)
(*                                                                         *)
(* The three properties are about files that one tool wrote and another    *)
(* trusts.  They follow from what is true between two steps of a tool:     *)
(* Phase says which tool runs and which one has succeeded before it,       *)
(* Exported what a finished export has left, Reported what the report of   *)
(* verify is about, Listed what the recorded manifests list, Made and      *)
(* Packed what the fixtures and the archives were made of.                 *)
(***************************************************************************)
EXTENDS ModelPipeline, TLAPS

USE DEF machine, bundle, evidence, manifest, shipped

Exporting == {"unlink", "data", "graph", "rewrite", "replace", "copy"}
Verifying == {"forget", "inspect", "compare", "report"}

\* A tool that would pass a bound is not begun.
Within ==
  /\ pc \in {"unlink", "data"} => exports < MaxExports
  /\ pc \in {"check", "list"} => recorded < MaxRecords
  /\ pc = "provenance" => todo = Cases
  /\ pc = "case" => todo \subseteq Cases

TypeInv == TypeOK /\ Within

\* Which tool a step belongs to, and that it runs because the one before it succeeded.
Phase ==
  /\ pc = "fetch" => tool = "prepare"
  /\ pc \in Exporting => tool = "export"
  /\ pc \in Verifying => tool = "verify"
  /\ pc \in {"check", "list"} => tool = "record"
  /\ pc \in {"provenance", "case"} => tool = "fixtures"
  /\ pc \in {"contents", "archive"} => tool = "pack"
  /\ pc = "runtime" => tool = "build"
  /\ pc = "publish" => tool = "release"
  /\ pc # "idle" => tool \notin exited
  /\ pc \in Verifying => "export" \in exited
  /\ pc = "publish" => "pack" \in exited

\* A finished export has left a graph whose normalisation is expanded.
Exported ==
  /\ pc = "replace" => normalized.form = "normal"
  /\ pc = "copy" => graph.form = "normal"
  /\ "export" \in exited => graph.form = "normal"

\* The report is gone while the bundle changes, and comes back only after the comparison.
Reported ==
  /\ ReportIsCurrent
  /\ pc \in Exporting \ {"unlink"} => validation = NoBundle
  /\ pc = "report" => Here \in tested

\* What is recorded was tested; a later export does not change what was recorded.
Listed ==
  /\ \A r \in 1..recorded : manifests[r] \in tested /\ manifests[r].graph.form = "normal"
  /\ latest \in 0..recorded
  /\ pc = "list" => validation # NoBundle

\* The fixtures so far are of the recorded bundle, and what is missing is to do.
Made ==
  /\ pc = "case" => /\ golden.status = "none" /\ golden.whole \cup todo = Cases
                    /\ golden.recording \in 1..recorded
                    /\ golden.bundle = manifests[golden.recording]
  /\ golden.status = "passed" => /\ golden.whole = Cases /\ golden.failed = {}
                                 /\ golden.recording \in 1..recorded
                                 /\ golden.bundle = manifests[golden.recording]

\* After a pack that succeeded the archive of the recording that is there is not torn.
Packed ==
  /\ \A r \in 1..MaxRecords : r > recorded => archive[r] = NoBundle
  /\ pc = "archive" => latest # 0 /\ Here = manifests[latest]
  /\ "pack" \in exited /\ latest # 0 => archive[latest] \in {NoBundle, manifests[latest]}
  /\ release.recording # 0 =>
       /\ release.recording \in 1..recorded
       /\ release.bundle = manifests[release.recording]
       /\ release.runtime = [recording |-> release.recording, version |-> release.version]

-----------------------------------------------------------------------------
\* The values that stand for what is absent or torn.
LEMMA FileValues ==
  /\ NoGraph \in Graphs /\ TornGraph \in Graphs
  /\ NoBundle \in Bundles /\ Torn \in Bundles
BY BoundAssumption DEF NoGraph, TornGraph, NoBundle, Torn, Graphs, Bundles, BoundAssumption

LEMMA HereIsBundle == BundleTypes => Here \in Bundles
BY DEF BundleTypes, Here, Bundles

LEMMA MachineTyped ==
  ASSUME TypeInv, [Next]_vars
  PROVE  MachineTypes'
<1> USE DEF TypeInv, TypeOK
<1>1. CASE UNCHANGED vars
  BY <1>1 DEF MachineTypes, vars
<1>2. ASSUME NEW t \in Tools, Begin(t) PROVE MachineTypes'
  BY <1>2 DEF Begin, At, Then, Succeeds, Refuses, MachineTypes, First, Tools, Steps
<1>3. ASSUME NEW f \in Inputs, Fetch(f) PROVE MachineTypes'
  BY <1>3 DEF Fetch, At, Then, Succeeds, Refuses, MachineTypes, Tools, Steps
<1>4. ASSUME NEW f \in Inputs, Accept(f) PROVE MachineTypes'
  BY <1>4 DEF Accept, At, Then, Succeeds, Refuses, MachineTypes, Tools, Steps
<1>5. CASE Prepared
  BY <1>5 DEF Prepared, At, Then, Succeeds, Refuses, MachineTypes, Tools, Steps
<1>6. CASE Unlink
  BY <1>6 DEF Unlink, At, Then, Succeeds, Refuses, MachineTypes, Tools, Steps
<1>7. CASE SaveData
  BY <1>7 DEF SaveData, At, Then, Succeeds, Refuses, MachineTypes, Tools, Steps
<1>8. CASE SaveGraph
  BY <1>8 DEF SaveGraph, At, Then, Succeeds, Refuses, MachineTypes, Tools, Steps
<1>9. CASE Rewrite
  BY <1>9 DEF Rewrite, At, Then, Succeeds, Refuses, MachineTypes, Tools, Steps
<1>10. CASE Replace
  BY <1>10 DEF Replace, At, Then, Succeeds, Refuses, MachineTypes, Tools, Steps
<1>11. CASE Copy
  BY <1>11 DEF Copy, At, Then, Succeeds, Refuses, MachineTypes, Tools, Steps
<1>12. CASE Forget
  BY <1>12 DEF Forget, At, Then, Succeeds, Refuses, MachineTypes, Tools, Steps
<1>13. CASE Inspect
  BY <1>13 DEF Inspect, At, Then, Succeeds, Refuses, MachineTypes, Tools, Steps
<1>14. CASE Compare
  BY <1>14 DEF Compare, At, Then, Succeeds, Refuses, MachineTypes, Tools, Steps
<1>15. CASE Report
  BY <1>15 DEF Report, At, Then, Succeeds, Refuses, MachineTypes, Tools, Steps
<1>16. CASE Check
  BY <1>16 DEF Check, At, Then, Succeeds, Refuses, MachineTypes, Tools, Steps
<1>17. CASE List
  BY <1>17 DEF List, At, Then, Succeeds, Refuses, MachineTypes, Tools, Steps
<1>18. CASE Provenance
  BY <1>18 DEF Provenance, At, Then, Succeeds, Refuses, MachineTypes, Tools, Steps
<1>19. ASSUME NEW c \in Cases, Case(c) PROVE MachineTypes'
  BY <1>19 DEF Case, At, Then, Succeeds, Refuses, MachineTypes, Tools, Steps
<1>20. CASE Verdict
  BY <1>20 DEF Verdict, At, Then, Succeeds, Refuses, MachineTypes, Tools, Steps
<1>21. CASE Contents
  BY <1>21 DEF Contents, At, Then, Succeeds, Refuses, MachineTypes, Tools, Steps
<1>22. CASE Archive
  BY <1>22 DEF Archive, At, Then, Succeeds, Refuses, MachineTypes, Tools, Steps
<1>23. CASE Runtime
  <2>1. pc' = "idle" /\ exited' \in {exited, exited \cup {tool}} /\ UNCHANGED <<tool, todo, fails>>
    BY <1>23 DEF Runtime, Succeeds, Refuses
  <2>2. QED
    BY <2>1 DEF MachineTypes, Steps
<1>24. ASSUME NEW v \in Versions, Publish(v) PROVE MachineTypes'
  BY <1>24 DEF Publish, At, Then, Succeeds, Refuses, MachineTypes, Tools, Steps
<1>25. CASE Kill
  <2>1. pc' = "idle" /\ fails < MaxFails /\ fails' = fails + 1 /\ UNCHANGED <<tool, exited, todo>>
    BY <1>25 DEF Kill, Refuses
  <2>2. QED
    BY <2>1, BoundAssumption DEF MachineTypes, Steps, BoundAssumption
<1>26. QED
  BY <1>1, <1>2, <1>3, <1>4, <1>5, <1>6, <1>7, <1>8, <1>9, <1>10, <1>11, <1>12, <1>13, <1>14,
     <1>15, <1>16, <1>17, <1>18, <1>19, <1>20, <1>21, <1>22, <1>23, <1>24, <1>25 DEF Next

LEMMA BundleTyped ==
  ASSUME TypeInv, [Next]_vars
  PROVE  BundleTypes'
<1> USE DEF TypeInv, TypeOK
<1>1. CASE UNCHANGED vars
  BY <1>1 DEF BundleTypes, vars
<1>2. ASSUME NEW t \in Tools, Begin(t) PROVE BundleTypes'
  BY <1>2 DEF Begin, At, Then, Succeeds, Refuses, BundleTypes
<1>3. ASSUME NEW f \in Inputs, Fetch(f) PROVE BundleTypes'
  BY <1>3 DEF Fetch, At, Then, Succeeds, Refuses, BundleTypes
<1>4. ASSUME NEW f \in Inputs, Accept(f) PROVE BundleTypes'
  BY <1>4 DEF Accept, At, Then, Succeeds, Refuses, BundleTypes
<1>5. CASE Prepared
  BY <1>5 DEF Prepared, BundleTypes
<1>6. CASE Unlink
  BY <1>6 DEF Unlink, BundleTypes
<1>7. CASE SaveData
  BY BoundAssumption, <1>7 DEF SaveData, At, Then, Succeeds, Refuses, BundleTypes, Within
<1>8. CASE SaveGraph
  BY <1>8 DEF SaveGraph, At, Then, Succeeds, Refuses, BundleTypes, Graphs
<1>9. CASE Rewrite
  BY <1>9 DEF Rewrite, At, Then, Succeeds, Refuses, BundleTypes, Graphs
<1>10. CASE Replace
  BY FileValues, <1>10 DEF Replace, At, Then, Succeeds, Refuses, BundleTypes
<1>11. CASE Copy
  BY <1>11 DEF Copy, At, Then, Succeeds, Refuses, BundleTypes, MachineTypes
<1>12. CASE Forget
  BY <1>12 DEF Forget, BundleTypes
<1>13. CASE Inspect
  BY <1>13 DEF Inspect, BundleTypes
<1>14. CASE Compare
  BY <1>14 DEF Compare, BundleTypes
<1>15. CASE Report
  BY <1>15 DEF Report, BundleTypes
<1>16. CASE Check
  BY <1>16 DEF Check, BundleTypes
<1>17. CASE List
  BY <1>17 DEF List, BundleTypes
<1>18. CASE Provenance
  BY <1>18 DEF Provenance, BundleTypes
<1>19. ASSUME NEW c \in Cases, Case(c) PROVE BundleTypes'
  BY <1>19 DEF Case, BundleTypes
<1>20. CASE Verdict
  BY <1>20 DEF Verdict, BundleTypes
<1>21. CASE Contents
  BY <1>21 DEF Contents, BundleTypes
<1>22. CASE Archive
  BY <1>22 DEF Archive, BundleTypes
<1>23. CASE Runtime
  BY <1>23 DEF Runtime, BundleTypes
<1>24. ASSUME NEW v \in Versions, Publish(v) PROVE BundleTypes'
  BY <1>24 DEF Publish, BundleTypes
<1>25. CASE Kill
  <2>1. data' \in {data, 0} /\ graph' \in {graph, TornGraph} /\ normalized' \in {normalized, TornGraph}
        /\ UNCHANGED <<input, exports>>
    BY <1>25 DEF Kill
  <2>2. copied' \in {copied, copied /\ ~At("copy")}
    BY <1>25 DEF Kill
  <2>3. copied' \in BOOLEAN
    BY <2>2, Zenon DEF BundleTypes
  <2>4. 0 \in 0..MaxExports
    BY BoundAssumption DEF BoundAssumption
  <2>5. QED
    BY <2>1, <2>3, <2>4, FileValues DEF BundleTypes
<1>26. QED
  BY <1>1, <1>2, <1>3, <1>4, <1>5, <1>6, <1>7, <1>8, <1>9, <1>10, <1>11, <1>12, <1>13, <1>14,
     <1>15, <1>16, <1>17, <1>18, <1>19, <1>20, <1>21, <1>22, <1>23, <1>24, <1>25 DEF Next

LEMMA EvidenceTyped ==
  ASSUME TypeInv, [Next]_vars
  PROVE  EvidenceTypes'
<1> USE DEF TypeInv, TypeOK
<1>1. CASE UNCHANGED vars
  BY <1>1 DEF EvidenceTypes, vars
<1>2. ASSUME NEW t \in Tools, Begin(t) PROVE EvidenceTypes'
  BY <1>2 DEF Begin, EvidenceTypes
<1>3. ASSUME NEW f \in Inputs, Fetch(f) PROVE EvidenceTypes'
  BY <1>3 DEF Fetch, EvidenceTypes
<1>4. ASSUME NEW f \in Inputs, Accept(f) PROVE EvidenceTypes'
  BY <1>4 DEF Accept, EvidenceTypes
<1>5. CASE Prepared
  BY <1>5 DEF Prepared, EvidenceTypes
<1>6. CASE Unlink
  BY FileValues, <1>6 DEF Unlink, At, Then, Succeeds, Refuses, EvidenceTypes
<1>7. CASE SaveData
  BY <1>7 DEF SaveData, EvidenceTypes
<1>8. CASE SaveGraph
  BY <1>8 DEF SaveGraph, EvidenceTypes
<1>9. CASE Rewrite
  BY <1>9 DEF Rewrite, EvidenceTypes
<1>10. CASE Replace
  BY <1>10 DEF Replace, EvidenceTypes
<1>11. CASE Copy
  BY <1>11 DEF Copy, EvidenceTypes
<1>12. CASE Forget
  BY FileValues, <1>12 DEF Forget, At, Then, Succeeds, Refuses, EvidenceTypes
<1>13. CASE Inspect
  BY <1>13 DEF Inspect, EvidenceTypes
<1>14. CASE Compare
  BY HereIsBundle, <1>14 DEF Compare, At, Then, Succeeds, Refuses, EvidenceTypes
<1>15. CASE Report
  BY HereIsBundle, <1>15 DEF Report, At, Then, Succeeds, Refuses, EvidenceTypes
<1>16. CASE Check
  BY <1>16 DEF Check, EvidenceTypes
<1>17. CASE List
  BY HereIsBundle, BoundAssumption, <1>17 DEF List, At, Then, Succeeds, Refuses, EvidenceTypes,
     Within
<1>18. CASE Provenance
  BY <1>18 DEF Provenance, EvidenceTypes
<1>19. ASSUME NEW c \in Cases, Case(c) PROVE EvidenceTypes'
  BY <1>19 DEF Case, EvidenceTypes
<1>20. CASE Verdict
  BY <1>20 DEF Verdict, EvidenceTypes
<1>21. CASE Contents
  BY <1>21 DEF Contents, EvidenceTypes
<1>22. CASE Archive
  BY <1>22 DEF Archive, EvidenceTypes
<1>23. CASE Runtime
  BY <1>23 DEF Runtime, EvidenceTypes
<1>24. ASSUME NEW v \in Versions, Publish(v) PROVE EvidenceTypes'
  BY <1>24 DEF Publish, EvidenceTypes
<1>25. CASE Kill
  BY BoundAssumption, <1>25 DEF Kill, At, Then, Succeeds, Refuses, EvidenceTypes
<1>26. QED
  BY <1>1, <1>2, <1>3, <1>4, <1>5, <1>6, <1>7, <1>8, <1>9, <1>10, <1>11, <1>12, <1>13, <1>14,
     <1>15, <1>16, <1>17, <1>18, <1>19, <1>20, <1>21, <1>22, <1>23, <1>24, <1>25 DEF Next

LEMMA ReleaseTyped ==
  ASSUME TypeInv, [Next]_vars
  PROVE  ReleaseTypes'
<1> USE DEF TypeInv, TypeOK
<1>1. CASE UNCHANGED vars
  BY <1>1 DEF ReleaseTypes, vars
<1>2. ASSUME NEW t \in Tools, Begin(t) PROVE ReleaseTypes'
  BY <1>2 DEF Begin, ReleaseTypes
<1>3. ASSUME NEW f \in Inputs, Fetch(f) PROVE ReleaseTypes'
  BY <1>3 DEF Fetch, ReleaseTypes
<1>4. ASSUME NEW f \in Inputs, Accept(f) PROVE ReleaseTypes'
  BY <1>4 DEF Accept, ReleaseTypes
<1>5. CASE Prepared
  BY <1>5 DEF Prepared, ReleaseTypes
<1>6. CASE Unlink
  BY <1>6 DEF Unlink, ReleaseTypes
<1>7. CASE SaveData
  BY <1>7 DEF SaveData, ReleaseTypes
<1>8. CASE SaveGraph
  BY <1>8 DEF SaveGraph, ReleaseTypes
<1>9. CASE Rewrite
  BY <1>9 DEF Rewrite, ReleaseTypes
<1>10. CASE Replace
  BY <1>10 DEF Replace, ReleaseTypes
<1>11. CASE Copy
  BY <1>11 DEF Copy, ReleaseTypes
<1>12. CASE Forget
  BY <1>12 DEF Forget, ReleaseTypes
<1>13. CASE Inspect
  BY <1>13 DEF Inspect, ReleaseTypes
<1>14. CASE Compare
  BY <1>14 DEF Compare, ReleaseTypes
<1>15. CASE Report
  BY <1>15 DEF Report, ReleaseTypes
<1>16. CASE Check
  BY <1>16 DEF Check, ReleaseTypes
<1>17. CASE List
  BY <1>17 DEF List, ReleaseTypes
<1>18. CASE Provenance
  <2>1. NoGolden \in [recording : 0..MaxRecords, bundle : Bundles, whole : SUBSET Cases,
                     failed : SUBSET Cases, status : {"none", "passed", "failed"}]
    BY FileValues, BoundAssumption DEF NoGolden, BoundAssumption
  <2>2. golden' \in {NoGolden, [NoGolden EXCEPT !.recording = latest, !.bundle = Here]}
        /\ UNCHANGED <<archive, runtime, release>>
    BY <1>18 DEF Provenance
  <2>3. latest \in 0..MaxRecords /\ Here \in Bundles
    BY HereIsBundle DEF EvidenceTypes
  <2>4. QED
    BY <2>1, <2>2, <2>3 DEF ReleaseTypes
<1>19. ASSUME NEW c \in Cases, Case(c) PROVE ReleaseTypes'
  <2>1. PICK failed \in {golden.failed, golden.failed \cup {c}} :
          golden' = [golden EXCEPT !.whole = @ \cup {c}, !.failed = failed]
    BY <1>19 DEF Case
  <2>2. failed \subseteq Cases /\ golden.whole \cup {c} \subseteq Cases
    BY <1>19, <2>1 DEF ReleaseTypes
  <2>3. golden' \in [recording : 0..MaxRecords, bundle : Bundles, whole : SUBSET Cases,
                    failed : SUBSET Cases, status : {"none", "passed", "failed"}]
    BY <2>1, <2>2 DEF ReleaseTypes
  <2>4. QED
    BY <1>19, <2>3 DEF Case, ReleaseTypes
<1>20. CASE Verdict
  BY <1>20 DEF Verdict, At, Then, Succeeds, Refuses, ReleaseTypes
<1>21. CASE Contents
  BY <1>21 DEF Contents, ReleaseTypes
<1>22. CASE Archive
  BY HereIsBundle, <1>22 DEF Archive, At, Then, Succeeds, Refuses, ReleaseTypes, EvidenceTypes
<1>23. CASE Runtime
  BY <1>23 DEF Runtime, At, Then, Succeeds, Refuses, ReleaseTypes, EvidenceTypes
<1>24. ASSUME NEW v \in Versions, Publish(v) PROVE ReleaseTypes'
  BY <1>24 DEF Publish, At, Then, Succeeds, Refuses, ReleaseTypes, EvidenceTypes, Released
<1>25. CASE Kill
  BY FileValues, BoundAssumption, <1>25 DEF Kill, At, Then, Succeeds, Refuses, ReleaseTypes,
     EvidenceTypes, NoRuntime, NoRelease
<1>26. QED
  BY <1>1, <1>2, <1>3, <1>4, <1>5, <1>6, <1>7, <1>8, <1>9, <1>10, <1>11, <1>12, <1>13, <1>14,
     <1>15, <1>16, <1>17, <1>18, <1>19, <1>20, <1>21, <1>22, <1>23, <1>24, <1>25 DEF Next

LEMMA BoundsKept ==
  ASSUME TypeInv, [Next]_vars
  PROVE  Within'
<1> USE DEF TypeInv, TypeOK
<1>1. CASE UNCHANGED vars
  BY <1>1 DEF Within, vars
<1>2. ASSUME NEW t \in Tools, Begin(t) PROVE Within'
  BY <1>2 DEF Begin, At, Then, Succeeds, Refuses, Within, First, MachineTypes, Tools
<1>3. ASSUME NEW f \in Inputs, Fetch(f) PROVE Within'
  BY <1>3 DEF Fetch, At, Then, Succeeds, Refuses, Within
<1>4. ASSUME NEW f \in Inputs, Accept(f) PROVE Within'
  BY <1>4 DEF Accept, At, Then, Succeeds, Refuses, Within
<1>5. CASE Prepared
  BY <1>5 DEF Prepared, At, Then, Succeeds, Refuses, Within
<1>6. CASE Unlink
  BY <1>6 DEF Unlink, At, Then, Succeeds, Refuses, Within
<1>7. CASE SaveData
  BY <1>7 DEF SaveData, At, Then, Succeeds, Refuses, Within, BundleTypes
<1>8. CASE SaveGraph
  BY <1>8 DEF SaveGraph, At, Then, Succeeds, Refuses, Within
<1>9. CASE Rewrite
  BY <1>9 DEF Rewrite, At, Then, Succeeds, Refuses, Within
<1>10. CASE Replace
  BY <1>10 DEF Replace, At, Then, Succeeds, Refuses, Within
<1>11. CASE Copy
  BY <1>11 DEF Copy, At, Then, Succeeds, Refuses, Within
<1>12. CASE Forget
  BY <1>12 DEF Forget, At, Then, Succeeds, Refuses, Within
<1>13. CASE Inspect
  BY <1>13 DEF Inspect, At, Then, Succeeds, Refuses, Within
<1>14. CASE Compare
  BY <1>14 DEF Compare, At, Then, Succeeds, Refuses, Within
<1>15. CASE Report
  BY <1>15 DEF Report, At, Then, Succeeds, Refuses, Within
<1>16. CASE Check
  BY <1>16 DEF Check, At, Then, Succeeds, Refuses, Within
<1>17. CASE List
  BY <1>17 DEF List, At, Then, Succeeds, Refuses, Within, EvidenceTypes
<1>18. CASE Provenance
  BY <1>18 DEF Provenance, At, Then, Succeeds, Refuses, Within
<1>19. ASSUME NEW c \in Cases, Case(c) PROVE Within'
  BY <1>19 DEF Case, At, Then, Succeeds, Refuses, Within
<1>20. CASE Verdict
  BY <1>20 DEF Verdict, At, Then, Succeeds, Refuses, Within
<1>21. CASE Contents
  BY <1>21 DEF Contents, At, Then, Succeeds, Refuses, Within
<1>22. CASE Archive
  BY <1>22 DEF Archive, At, Then, Succeeds, Refuses, Within
<1>23. CASE Runtime
  BY <1>23 DEF Runtime, At, Then, Succeeds, Refuses, Within
<1>24. ASSUME NEW v \in Versions, Publish(v) PROVE Within'
  BY <1>24 DEF Publish, At, Then, Succeeds, Refuses, Within
<1>25. CASE Kill
  BY <1>25 DEF Kill, At, Then, Succeeds, Refuses, Within
<1>26. QED
  BY <1>1, <1>2, <1>3, <1>4, <1>5, <1>6, <1>7, <1>8, <1>9, <1>10, <1>11, <1>12, <1>13, <1>14,
     <1>15, <1>16, <1>17, <1>18, <1>19, <1>20, <1>21, <1>22, <1>23, <1>24, <1>25 DEF Next

\* Every file, report and history keeps to its type.
LEMMA TypeInvariant == Spec => []TypeInv
<1>1. Init => TypeInv
  <2> SUFFICES ASSUME Init PROVE TypeInv
    OBVIOUS
  <2>1. MachineTypes
    BY BoundAssumption DEF Init, MachineTypes, Tools, Steps, BoundAssumption
  <2>2. BundleTypes
    <3>1. copied \in BOOLEAN
      BY Zenon DEF Init
    <3>2. QED
      BY <3>1, BoundAssumption, FileValues DEF Init, BundleTypes, BoundAssumption
  <2>3. EvidenceTypes
    BY BoundAssumption, FileValues DEF Init, EvidenceTypes, BoundAssumption
  <2>4. ReleaseTypes
    BY BoundAssumption, FileValues DEF Init, ReleaseTypes, NoGolden, NoRuntime, NoRelease,
       BoundAssumption
  <2>5. Within
    BY DEF Init, Within
  <2>6. QED
    BY <2>1, <2>2, <2>3, <2>4, <2>5 DEF TypeInv, TypeOK
<1>2. TypeInv /\ [Next]_vars => TypeInv'
  BY MachineTyped, BundleTyped, EvidenceTyped, ReleaseTyped, BoundsKept DEF TypeInv, TypeOK
<1>3. QED
  BY <1>1, <1>2, PTL DEF Spec

THEOREM TypeCorrect == Spec => []TypeOK
<1>1. TypeInv => TypeOK
  BY DEF TypeInv
<1>2. QED
  BY <1>1, TypeInvariant, PTL

-----------------------------------------------------------------------------
LEMMA PhaseInvariant == Spec => []Phase
<1>1. Init => Phase
  BY DEF Init, Phase, Exporting, Verifying
<1>2. TypeInv /\ Phase /\ [Next]_vars => Phase'
  <2> SUFFICES ASSUME TypeInv, Phase, [Next]_vars PROVE Phase'
    OBVIOUS
  <2>1. CASE UNCHANGED vars
    BY <2>1 DEF Phase, Exporting, Verifying, vars
  <2>2. ASSUME NEW t \in Tools, Begin(t) PROVE Phase'
    BY <2>2 DEF Begin, First, Before, TypeInv, TypeOK, MachineTypes, Tools, At, Then, Succeeds,
       Refuses, Phase, Exporting, Verifying
  <2>3. ASSUME NEW f \in Inputs, Fetch(f) PROVE Phase'
    BY <2>3 DEF Fetch, At, Then, Succeeds, Refuses, Phase, Exporting, Verifying
  <2>4. ASSUME NEW f \in Inputs, Accept(f) PROVE Phase'
    BY <2>4 DEF Accept, At, Then, Succeeds, Refuses, Phase, Exporting, Verifying
  <2>5. CASE Prepared
    BY <2>5 DEF Prepared, At, Then, Succeeds, Refuses, Phase, Exporting, Verifying
  <2>6. CASE Unlink
    BY <2>6 DEF Unlink, At, Then, Succeeds, Refuses, Phase, Exporting, Verifying
  <2>7. CASE SaveData
    BY <2>7 DEF SaveData, At, Then, Succeeds, Refuses, Phase, Exporting, Verifying
  <2>8. CASE SaveGraph
    BY <2>8 DEF SaveGraph, At, Then, Succeeds, Refuses, Phase, Exporting, Verifying
  <2>9. CASE Rewrite
    BY <2>9 DEF Rewrite, At, Then, Succeeds, Refuses, Phase, Exporting, Verifying
  <2>10. CASE Replace
    BY <2>10 DEF Replace, At, Then, Succeeds, Refuses, Phase, Exporting, Verifying
  <2>11. CASE Copy
    BY <2>11 DEF Copy, At, Then, Succeeds, Refuses, Phase, Exporting, Verifying
  <2>12. CASE Forget
    BY <2>12 DEF Forget, At, Then, Succeeds, Refuses, Phase, Exporting, Verifying
  <2>13. CASE Inspect
    BY <2>13 DEF Inspect, At, Then, Succeeds, Refuses, Phase, Exporting, Verifying
  <2>14. CASE Compare
    BY <2>14 DEF Compare, At, Then, Succeeds, Refuses, Phase, Exporting, Verifying
  <2>15. CASE Report
    BY <2>15 DEF Report, At, Then, Succeeds, Refuses, Phase, Exporting, Verifying
  <2>16. CASE Check
    BY <2>16 DEF Check, At, Then, Succeeds, Refuses, Phase, Exporting, Verifying
  <2>17. CASE List
    BY <2>17 DEF List, At, Then, Succeeds, Refuses, Phase, Exporting, Verifying
  <2>18. CASE Provenance
    BY <2>18 DEF Provenance, At, Then, Succeeds, Refuses, Phase, Exporting, Verifying
  <2>19. ASSUME NEW c \in Cases, Case(c) PROVE Phase'
    BY <2>19 DEF Case, At, Then, Succeeds, Refuses, Phase, Exporting, Verifying
  <2>20. CASE Verdict
    BY <2>20 DEF Verdict, At, Then, Succeeds, Refuses, Phase, Exporting, Verifying
  <2>21. CASE Contents
    BY <2>21 DEF Contents, At, Then, Succeeds, Refuses, Phase, Exporting, Verifying
  <2>22. CASE Archive
    BY <2>22 DEF Archive, At, Then, Succeeds, Refuses, Phase, Exporting, Verifying
  <2>23. CASE Runtime
    BY <2>23 DEF Runtime, At, Then, Succeeds, Refuses, Phase, Exporting, Verifying
  <2>24. ASSUME NEW v \in Versions, Publish(v) PROVE Phase'
    BY <2>24 DEF Publish, At, Then, Succeeds, Refuses, Phase, Exporting, Verifying
  <2>25. CASE Kill
    BY <2>25 DEF Kill, At, Then, Succeeds, Refuses, Phase, Exporting, Verifying
  <2>26. QED
    BY <2>1, <2>2, <2>3, <2>4, <2>5, <2>6, <2>7, <2>8, <2>9, <2>10, <2>11, <2>12, <2>13, <2>14,
       <2>15, <2>16, <2>17, <2>18, <2>19, <2>20, <2>21, <2>22, <2>23, <2>24, <2>25 DEF Next
<1>3. QED
  BY <1>1, <1>2, TypeInvariant, PTL DEF Spec

LEMMA ExportedInvariant == Spec => []Exported
<1>1. Init => Exported
  BY DEF Init, Exported, Phase, Exporting, Verifying
<1>2. TypeInv /\ Phase /\ Exported /\ [Next]_vars => Exported'
  <2> SUFFICES ASSUME TypeInv, Phase, Exported, [Next]_vars PROVE Exported'
    OBVIOUS
  <2>1. CASE UNCHANGED vars
    BY <2>1 DEF Exported, Phase, Exporting, Verifying, vars
  <2>2. ASSUME NEW t \in Tools, Begin(t) PROVE Exported'
    BY <2>2 DEF Begin, First, Tools, At, Then, Succeeds, Refuses, Exported, Phase, Exporting,
       Verifying
  <2>3. ASSUME NEW f \in Inputs, Fetch(f) PROVE Exported'
    BY <2>3 DEF Fetch, At, Then, Succeeds, Refuses, Exported, Phase, Exporting, Verifying
  <2>4. ASSUME NEW f \in Inputs, Accept(f) PROVE Exported'
    BY <2>4 DEF Accept, At, Then, Succeeds, Refuses, Exported, Phase, Exporting, Verifying
  <2>5. CASE Prepared
    BY <2>5 DEF Prepared, At, Then, Succeeds, Refuses, Exported, Phase, Exporting, Verifying
  <2>6. CASE Unlink
    BY <2>6 DEF Unlink, At, Then, Succeeds, Refuses, Exported, Phase, Exporting, Verifying
  <2>7. CASE SaveData
    BY <2>7 DEF SaveData, At, Then, Succeeds, Refuses, Exported, Phase, Exporting, Verifying
  <2>8. CASE SaveGraph
    BY <2>8 DEF SaveGraph, At, Then, Succeeds, Refuses, Exported, Phase, Exporting, Verifying
  <2>9. CASE Rewrite
    BY <2>9 DEF Rewrite, TypeInv, TypeOK, BundleTypes, Graphs, At, Then, Succeeds, Refuses,
       Exported, Phase, Exporting, Verifying
  <2>10. CASE Replace
    BY <2>10 DEF Replace, At, Then, Succeeds, Refuses, Exported, Phase, Exporting, Verifying
  <2>11. CASE Copy
    BY <2>11 DEF Copy, At, Then, Succeeds, Refuses, Exported, Phase, Exporting, Verifying
  <2>12. CASE Forget
    BY <2>12 DEF Forget, At, Then, Succeeds, Refuses, Exported, Phase, Exporting, Verifying
  <2>13. CASE Inspect
    BY <2>13 DEF Inspect, At, Then, Succeeds, Refuses, Exported, Phase, Exporting, Verifying
  <2>14. CASE Compare
    BY <2>14 DEF Compare, At, Then, Succeeds, Refuses, Exported, Phase, Exporting, Verifying
  <2>15. CASE Report
    BY <2>15 DEF Report, At, Then, Succeeds, Refuses, Exported, Phase, Exporting, Verifying
  <2>16. CASE Check
    BY <2>16 DEF Check, At, Then, Succeeds, Refuses, Exported, Phase, Exporting, Verifying
  <2>17. CASE List
    BY <2>17 DEF List, At, Then, Succeeds, Refuses, Exported, Phase, Exporting, Verifying
  <2>18. CASE Provenance
    BY <2>18 DEF Provenance, At, Then, Succeeds, Refuses, Exported, Phase, Exporting, Verifying
  <2>19. ASSUME NEW c \in Cases, Case(c) PROVE Exported'
    BY <2>19 DEF Case, At, Then, Succeeds, Refuses, Exported, Phase, Exporting, Verifying
  <2>20. CASE Verdict
    BY <2>20 DEF Verdict, At, Then, Succeeds, Refuses, Exported, Phase, Exporting, Verifying
  <2>21. CASE Contents
    BY <2>21 DEF Contents, At, Then, Succeeds, Refuses, Exported, Phase, Exporting, Verifying
  <2>22. CASE Archive
    BY <2>22 DEF Archive, At, Then, Succeeds, Refuses, Exported, Phase, Exporting, Verifying
  <2>23. CASE Runtime
    BY <2>23 DEF Runtime, At, Then, Succeeds, Refuses, Exported, Phase, Exporting, Verifying
  <2>24. ASSUME NEW v \in Versions, Publish(v) PROVE Exported'
    BY <2>24 DEF Publish, At, Then, Succeeds, Refuses, Exported, Phase, Exporting, Verifying
  <2>25. CASE Kill
    BY <2>25 DEF Kill, At, Then, Succeeds, Refuses, Exported, Phase, Exporting, Verifying
  <2>26. QED
    BY <2>1, <2>2, <2>3, <2>4, <2>5, <2>6, <2>7, <2>8, <2>9, <2>10, <2>11, <2>12, <2>13, <2>14,
       <2>15, <2>16, <2>17, <2>18, <2>19, <2>20, <2>21, <2>22, <2>23, <2>24, <2>25 DEF Next
<1>3. QED
  BY <1>1, <1>2, TypeInvariant, PhaseInvariant, PTL DEF Spec

LEMMA ReportedInvariant == Spec => []Reported
<1>1. Init => Reported
  BY DEF Init, Reported, ReportIsCurrent, Here, Exported, Phase, Exporting, Verifying
<1>2. TypeInv /\ Phase /\ Exported /\ Reported /\ [Next]_vars => Reported'
  <2> SUFFICES ASSUME TypeInv, Phase, Exported, Reported, [Next]_vars PROVE Reported'
    OBVIOUS
  <2>1. CASE UNCHANGED vars
    BY <2>1 DEF Reported, ReportIsCurrent, Here, Exported, Phase, Exporting, Verifying, vars
  <2>2. ASSUME NEW t \in Tools, Begin(t) PROVE Reported'
    BY <2>2 DEF Begin, First, Tools, At, Then, Succeeds, Refuses, Reported, ReportIsCurrent,
       Here, Exported, Phase, Exporting, Verifying
  <2>3. ASSUME NEW f \in Inputs, Fetch(f) PROVE Reported'
    BY <2>3 DEF Fetch, At, Then, Succeeds, Refuses, Reported, ReportIsCurrent, Here, Exported,
       Phase, Exporting, Verifying
  <2>4. ASSUME NEW f \in Inputs, Accept(f) PROVE Reported'
    BY <2>4 DEF Accept, At, Then, Succeeds, Refuses, Reported, ReportIsCurrent, Here, Exported,
       Phase, Exporting, Verifying
  <2>5. CASE Prepared
    BY <2>5 DEF Prepared, At, Then, Succeeds, Refuses, Reported, ReportIsCurrent, Here, Exported,
       Phase, Exporting, Verifying
  <2>6. CASE Unlink
    BY <2>6 DEF Unlink, At, Then, Succeeds, Refuses, Reported, ReportIsCurrent, Here, Exported,
       Phase, Exporting, Verifying
  <2>7. CASE SaveData
    BY <2>7 DEF SaveData, At, Then, Succeeds, Refuses, Reported, ReportIsCurrent, Here, Exported,
       Phase, Exporting, Verifying
  <2>8. CASE SaveGraph
    BY <2>8 DEF SaveGraph, At, Then, Succeeds, Refuses, Reported, ReportIsCurrent, Here,
       Exported, Phase, Exporting, Verifying
  <2>9. CASE Rewrite
    BY <2>9 DEF Rewrite, At, Then, Succeeds, Refuses, Reported, ReportIsCurrent, Here, Exported,
       Phase, Exporting, Verifying
  <2>10. CASE Replace
    BY <2>10 DEF Replace, At, Then, Succeeds, Refuses, Reported, ReportIsCurrent, Here, Exported,
       Phase, Exporting, Verifying
  <2>11. CASE Copy
    BY <2>11 DEF Copy, At, Then, Succeeds, Refuses, Reported, ReportIsCurrent, Here, Exported,
       Phase, Exporting, Verifying
  <2>12. CASE Forget
    BY <2>12 DEF Forget, At, Then, Succeeds, Refuses, Reported, ReportIsCurrent, Here, Exported,
       Phase, Exporting, Verifying
  <2>13. CASE Inspect
    BY <2>13 DEF Inspect, At, Then, Succeeds, Refuses, Reported, ReportIsCurrent, Here, Exported,
       Phase, Exporting, Verifying
  <2>14. CASE Compare
    BY <2>14 DEF Compare, At, Then, Succeeds, Refuses, Reported, ReportIsCurrent, Here, Exported,
       Phase, Exporting, Verifying
  <2>15. CASE Report
    BY <2>15 DEF Report, At, Then, Succeeds, Refuses, Reported, ReportIsCurrent, Here, Exported,
       Phase, Exporting, Verifying
  <2>16. CASE Check
    BY <2>16 DEF Check, At, Then, Succeeds, Refuses, Reported, ReportIsCurrent, Here, Exported,
       Phase, Exporting, Verifying
  <2>17. CASE List
    BY <2>17 DEF List, At, Then, Succeeds, Refuses, Reported, ReportIsCurrent, Here, Exported,
       Phase, Exporting, Verifying
  <2>18. CASE Provenance
    BY <2>18 DEF Provenance, At, Then, Succeeds, Refuses, Reported, ReportIsCurrent, Here,
       Exported, Phase, Exporting, Verifying
  <2>19. ASSUME NEW c \in Cases, Case(c) PROVE Reported'
    BY <2>19 DEF Case, At, Then, Succeeds, Refuses, Reported, ReportIsCurrent, Here, Exported,
       Phase, Exporting, Verifying
  <2>20. CASE Verdict
    BY <2>20 DEF Verdict, At, Then, Succeeds, Refuses, Reported, ReportIsCurrent, Here, Exported,
       Phase, Exporting, Verifying
  <2>21. CASE Contents
    BY <2>21 DEF Contents, At, Then, Succeeds, Refuses, Reported, ReportIsCurrent, Here,
       Exported, Phase, Exporting, Verifying
  <2>22. CASE Archive
    BY <2>22 DEF Archive, At, Then, Succeeds, Refuses, Reported, ReportIsCurrent, Here, Exported,
       Phase, Exporting, Verifying
  <2>23. CASE Runtime
    BY <2>23 DEF Runtime, At, Then, Succeeds, Refuses, Reported, ReportIsCurrent, Here, Exported,
       Phase, Exporting, Verifying
  <2>24. ASSUME NEW v \in Versions, Publish(v) PROVE Reported'
    BY <2>24 DEF Publish, At, Then, Succeeds, Refuses, Reported, ReportIsCurrent, Here, Exported,
       Phase, Exporting, Verifying
  <2>25. CASE Kill
    BY <2>25 DEF Kill, At, Then, Succeeds, Refuses, Reported, ReportIsCurrent, Here, Exported,
       Phase, Exporting, Verifying
  <2>26. QED
    BY <2>1, <2>2, <2>3, <2>4, <2>5, <2>6, <2>7, <2>8, <2>9, <2>10, <2>11, <2>12, <2>13, <2>14,
       <2>15, <2>16, <2>17, <2>18, <2>19, <2>20, <2>21, <2>22, <2>23, <2>24, <2>25 DEF Next
<1>3. QED
  BY <1>1, <1>2, TypeInvariant, PhaseInvariant, ExportedInvariant, PTL DEF Spec

LEMMA ListedInvariant == Spec => []Listed
<1>1. Init => Listed
  BY BoundAssumption DEF Init, Listed, BoundAssumption
<1>2. TypeInv /\ Phase /\ Reported /\ Listed /\ [Next]_vars => Listed'
  <2> SUFFICES ASSUME TypeInv, Phase, Reported, Listed, [Next]_vars PROVE Listed'
    OBVIOUS
  <2>1. CASE UNCHANGED vars
    BY <2>1 DEF Listed, Reported, ReportIsCurrent, Here, vars
  <2>2. ASSUME NEW t \in Tools, Begin(t) PROVE Listed'
    BY <2>2 DEF Begin, First, Tools, At, Then, Succeeds, Refuses, Listed, Reported,
       ReportIsCurrent, Here
  <2>3. ASSUME NEW f \in Inputs, Fetch(f) PROVE Listed'
    BY <2>3 DEF Fetch, At, Then, Succeeds, Refuses, Listed, Reported, ReportIsCurrent, Here
  <2>4. ASSUME NEW f \in Inputs, Accept(f) PROVE Listed'
    BY <2>4 DEF Accept, At, Then, Succeeds, Refuses, Listed, Reported, ReportIsCurrent, Here
  <2>5. CASE Prepared
    BY <2>5 DEF Prepared, At, Then, Succeeds, Refuses, Listed, Reported, ReportIsCurrent, Here
  <2>6. CASE Unlink
    BY <2>6 DEF Unlink, At, Then, Succeeds, Refuses, Listed, Reported, ReportIsCurrent, Here
  <2>7. CASE SaveData
    BY <2>7 DEF SaveData, At, Then, Succeeds, Refuses, Listed, Reported, ReportIsCurrent, Here
  <2>8. CASE SaveGraph
    BY <2>8 DEF SaveGraph, At, Then, Succeeds, Refuses, Listed, Reported, ReportIsCurrent, Here
  <2>9. CASE Rewrite
    BY <2>9 DEF Rewrite, At, Then, Succeeds, Refuses, Listed, Reported, ReportIsCurrent, Here
  <2>10. CASE Replace
    BY <2>10 DEF Replace, At, Then, Succeeds, Refuses, Listed, Reported, ReportIsCurrent, Here
  <2>11. CASE Copy
    BY <2>11 DEF Copy, At, Then, Succeeds, Refuses, Listed, Reported, ReportIsCurrent, Here
  <2>12. CASE Forget
    BY <2>12 DEF Forget, At, Then, Succeeds, Refuses, Listed, Reported, ReportIsCurrent, Here
  <2>13. CASE Inspect
    BY <2>13 DEF Inspect, At, Then, Succeeds, Refuses, Listed, Reported, ReportIsCurrent, Here
  <2>14. CASE Compare
    BY <2>14 DEF Compare, TypeInv, TypeOK, EvidenceTypes, Within, At, Then, Succeeds, Refuses,
       Listed, Reported, ReportIsCurrent, Here
  <2>15. CASE Report
    BY <2>15 DEF Report, At, Then, Succeeds, Refuses, Listed, Reported, ReportIsCurrent, Here
  <2>16. CASE Check
    BY <2>16 DEF Check, At, Then, Succeeds, Refuses, Listed, Reported, ReportIsCurrent, Here
  <2>17. CASE List
    <3> USE DEF TypeInv, TypeOK, EvidenceTypes, Within
    <3>1. recorded' = recorded + 1 /\ latest' = recorded + 1 /\ recorded + 1 \in 1..MaxRecords
      BY <2>17, BoundAssumption DEF List, At, BoundAssumption
    <3>2. \A r \in 1..MaxRecords : manifests'[r] = IF r = recorded + 1 THEN Here ELSE manifests[r]
      BY <2>17, <3>1 DEF List
    <3>3. Here \in tested /\ Here.graph.form = "normal" /\ tested' = tested
      BY <2>17 DEF List, At, Listed, Reported, ReportIsCurrent, Here
    <3>4. QED
      BY <2>17, <3>1, <3>2, <3>3 DEF List, Succeeds, Listed
  <2>18. CASE Provenance
    BY <2>18 DEF Provenance, At, Then, Succeeds, Refuses, Listed, Reported, ReportIsCurrent, Here
  <2>19. ASSUME NEW c \in Cases, Case(c) PROVE Listed'
    BY <2>19 DEF Case, At, Then, Succeeds, Refuses, Listed, Reported, ReportIsCurrent, Here
  <2>20. CASE Verdict
    BY <2>20 DEF Verdict, At, Then, Succeeds, Refuses, Listed, Reported, ReportIsCurrent, Here
  <2>21. CASE Contents
    BY <2>21 DEF Contents, At, Then, Succeeds, Refuses, Listed, Reported, ReportIsCurrent, Here
  <2>22. CASE Archive
    BY <2>22 DEF Archive, At, Then, Succeeds, Refuses, Listed, Reported, ReportIsCurrent, Here
  <2>23. CASE Runtime
    BY <2>23 DEF Runtime, At, Then, Succeeds, Refuses, Listed, Reported, ReportIsCurrent, Here
  <2>24. ASSUME NEW v \in Versions, Publish(v) PROVE Listed'
    BY <2>24 DEF Publish, At, Then, Succeeds, Refuses, Listed, Reported, ReportIsCurrent, Here
  <2>25. CASE Kill
    <3>1. pc' = "idle" /\ latest' \in {latest, 0} /\ recorded' = recorded
      BY <2>25 DEF Kill, Refuses
    <3>2. manifests' = manifests /\ tested' = tested
      BY <2>25 DEF Kill
    <3>3. QED
      BY <3>1, <3>2 DEF Listed, TypeInv, TypeOK, EvidenceTypes
  <2>26. QED
    BY <2>1, <2>2, <2>3, <2>4, <2>5, <2>6, <2>7, <2>8, <2>9, <2>10, <2>11, <2>12, <2>13, <2>14,
       <2>15, <2>16, <2>17, <2>18, <2>19, <2>20, <2>21, <2>22, <2>23, <2>24, <2>25 DEF Next
<1>3. QED
  BY <1>1, <1>2, TypeInvariant, PhaseInvariant, ReportedInvariant, PTL DEF Spec

LEMMA MadeInvariant == Spec => []Made
<1>1. Init => Made
  BY DEF Init, Made, Listed, Phase, Here, Current, NoGolden
<1>2. TypeInv /\ Phase /\ Listed /\ Made /\ [Next]_vars => Made'
  <2> SUFFICES ASSUME TypeInv, Phase, Listed, Made, [Next]_vars PROVE Made'
    OBVIOUS
  <2>1. CASE UNCHANGED vars
    BY <2>1 DEF Made, Listed, Phase, Here, Current, NoGolden, vars
  <2>2. ASSUME NEW t \in Tools, Begin(t) PROVE Made'
    BY <2>2 DEF Begin, First, Tools, TypeInv, Within, At, Then, Succeeds, Refuses, Made, Listed,
       Phase, Here, Current, NoGolden
  <2>3. ASSUME NEW f \in Inputs, Fetch(f) PROVE Made'
    BY <2>3 DEF Fetch, At, Then, Succeeds, Refuses, Made, Listed, Phase, Here, Current, NoGolden
  <2>4. ASSUME NEW f \in Inputs, Accept(f) PROVE Made'
    BY <2>4 DEF Accept, At, Then, Succeeds, Refuses, Made, Listed, Phase, Here, Current, NoGolden
  <2>5. CASE Prepared
    BY <2>5 DEF Prepared, At, Then, Succeeds, Refuses, Made, Listed, Phase, Here, Current, NoGolden
  <2>6. CASE Unlink
    BY <2>6 DEF Unlink, At, Then, Succeeds, Refuses, Made, Listed, Phase, Here, Current, NoGolden
  <2>7. CASE SaveData
    BY <2>7 DEF SaveData, At, Then, Succeeds, Refuses, Made, Listed, Phase, Here, Current, NoGolden
  <2>8. CASE SaveGraph
    BY <2>8 DEF SaveGraph, At, Then, Succeeds, Refuses, Made, Listed, Phase, Here, Current, NoGolden
  <2>9. CASE Rewrite
    BY <2>9 DEF Rewrite, At, Then, Succeeds, Refuses, Made, Listed, Phase, Here, Current, NoGolden
  <2>10. CASE Replace
    BY <2>10 DEF Replace, At, Then, Succeeds, Refuses, Made, Listed, Phase, Here, Current, NoGolden
  <2>11. CASE Copy
    BY <2>11 DEF Copy, At, Then, Succeeds, Refuses, Made, Listed, Phase, Here, Current, NoGolden
  <2>12. CASE Forget
    BY <2>12 DEF Forget, At, Then, Succeeds, Refuses, Made, Listed, Phase, Here, Current, NoGolden
  <2>13. CASE Inspect
    BY <2>13 DEF Inspect, At, Then, Succeeds, Refuses, Made, Listed, Phase, Here, Current, NoGolden
  <2>14. CASE Compare
    BY <2>14 DEF Compare, At, Then, Succeeds, Refuses, Made, Listed, Phase, Here, Current, NoGolden
  <2>15. CASE Report
    BY <2>15 DEF Report, At, Then, Succeeds, Refuses, Made, Listed, Phase, Here, Current, NoGolden
  <2>16. CASE Check
    BY <2>16 DEF Check, At, Then, Succeeds, Refuses, Made, Listed, Phase, Here, Current, NoGolden
  <2>17. CASE List
    <3>1. recorded' = recorded + 1 /\ pc' = "idle" /\ golden' = golden
      BY <2>17 DEF List, Succeeds
    <3>2. \A r \in 1..recorded : manifests'[r] = manifests[r]
      BY <2>17 DEF List, TypeInv, TypeOK, EvidenceTypes
    <3>3. recorded \in Nat
      BY BoundAssumption DEF TypeInv, TypeOK, EvidenceTypes, BoundAssumption
    <3>4. QED
      BY <3>1, <3>2, <3>3 DEF Made
  <2>18. CASE Provenance
    <3>1. CASE Current /\ InputsWhole
      <4>1. golden'.recording = latest /\ golden'.bundle = Here /\ golden'.status = "none"
            /\ golden'.whole = {}
        BY <2>18, <3>1 DEF Provenance, NoGolden
      <4>2. latest \in 1..recorded /\ manifests[latest] = Here /\ todo = Cases
        BY <2>18, <3>1 DEF Provenance, At, Current, Listed, TypeInv, Within
      <4>3. pc' = "case" /\ todo' = todo /\ recorded' = recorded /\ manifests' = manifests
        BY <2>18, <3>1 DEF Provenance, Then
      <4>4. QED
        BY <4>1, <4>2, <4>3 DEF Made
    <3>2. CASE ~(Current /\ InputsWhole)
      BY <2>18, <3>2 DEF Provenance, Refuses, NoGolden, Made
    <3>3. QED
      BY <3>1, <3>2
  <2>19. ASSUME NEW c \in Cases, Case(c) PROVE Made'
    BY <2>19 DEF Case, TypeInv, TypeOK, ReleaseTypes, At, Then, Succeeds, Refuses, Made, Listed,
       Phase, Here, Current, NoGolden
  <2>20. CASE Verdict
    BY <2>20 DEF Verdict, TypeInv, TypeOK, ReleaseTypes, Within, At, Then, Succeeds, Refuses,
       Made, Listed, Phase, Here, Current, NoGolden
  <2>21. CASE Contents
    BY <2>21 DEF Contents, At, Then, Succeeds, Refuses, Made, Listed, Phase, Here, Current, NoGolden
  <2>22. CASE Archive
    BY <2>22 DEF Archive, At, Then, Succeeds, Refuses, Made, Listed, Phase, Here, Current, NoGolden
  <2>23. CASE Runtime
    BY <2>23 DEF Runtime, At, Then, Succeeds, Refuses, Made, Listed, Phase, Here, Current, NoGolden
  <2>24. ASSUME NEW v \in Versions, Publish(v) PROVE Made'
    BY <2>24 DEF Publish, At, Then, Succeeds, Refuses, Made, Listed, Phase, Here, Current, NoGolden
  <2>25. CASE Kill
    BY <2>25 DEF Kill, At, Then, Succeeds, Refuses, Made, Listed, Phase, Here, Current, NoGolden
  <2>26. QED
    BY <2>1, <2>2, <2>3, <2>4, <2>5, <2>6, <2>7, <2>8, <2>9, <2>10, <2>11, <2>12, <2>13, <2>14,
       <2>15, <2>16, <2>17, <2>18, <2>19, <2>20, <2>21, <2>22, <2>23, <2>24, <2>25 DEF Next
<1>3. QED
  BY <1>1, <1>2, TypeInvariant, PhaseInvariant, ListedInvariant, PTL DEF Spec

LEMMA PackedInvariant == Spec => []Packed
<1>1. Init => Packed
  BY DEF Init, Packed, Listed, Phase, Exporting, Verifying, Here, Current, NoRelease, NoRuntime
<1>2. TypeInv /\ Phase /\ Listed /\ Packed /\ [Next]_vars => Packed'
  <2> SUFFICES ASSUME TypeInv, Phase, Listed, Packed, [Next]_vars PROVE Packed'
    OBVIOUS
  <2>1. CASE UNCHANGED vars
    BY <2>1 DEF Packed, Listed, Phase, Exporting, Verifying, Here, Current, NoRelease, NoRuntime,
       vars
  <2>2. ASSUME NEW t \in Tools, Begin(t) PROVE Packed'
    BY <2>2 DEF Begin, First, Tools, At, Then, Succeeds, Refuses, Packed, Listed, Phase,
       Exporting, Verifying, Here, Current, NoRelease, NoRuntime
  <2>3. ASSUME NEW f \in Inputs, Fetch(f) PROVE Packed'
    BY <2>3 DEF Fetch, At, Then, Succeeds, Refuses, Packed, Listed, Phase, Exporting, Verifying,
       Here, Current, NoRelease, NoRuntime
  <2>4. ASSUME NEW f \in Inputs, Accept(f) PROVE Packed'
    BY <2>4 DEF Accept, At, Then, Succeeds, Refuses, Packed, Listed, Phase, Exporting, Verifying,
       Here, Current, NoRelease, NoRuntime
  <2>5. CASE Prepared
    BY <2>5 DEF Prepared, At, Then, Succeeds, Refuses, Packed, Listed, Phase, Exporting,
       Verifying, Here, Current, NoRelease, NoRuntime
  <2>6. CASE Unlink
    BY <2>6 DEF Unlink, At, Then, Succeeds, Refuses, Packed, Listed, Phase, Exporting, Verifying,
       Here, Current, NoRelease, NoRuntime
  <2>7. CASE SaveData
    BY <2>7 DEF SaveData, At, Then, Succeeds, Refuses, Packed, Listed, Phase, Exporting,
       Verifying, Here, Current, NoRelease, NoRuntime
  <2>8. CASE SaveGraph
    BY <2>8 DEF SaveGraph, At, Then, Succeeds, Refuses, Packed, Listed, Phase, Exporting,
       Verifying, Here, Current, NoRelease, NoRuntime
  <2>9. CASE Rewrite
    BY <2>9 DEF Rewrite, At, Then, Succeeds, Refuses, Packed, Listed, Phase, Exporting,
       Verifying, Here, Current, NoRelease, NoRuntime
  <2>10. CASE Replace
    BY <2>10 DEF Replace, At, Then, Succeeds, Refuses, Packed, Listed, Phase, Exporting,
       Verifying, Here, Current, NoRelease, NoRuntime
  <2>11. CASE Copy
    BY <2>11 DEF Copy, At, Then, Succeeds, Refuses, Packed, Listed, Phase, Exporting, Verifying,
       Here, Current, NoRelease, NoRuntime
  <2>12. CASE Forget
    BY <2>12 DEF Forget, At, Then, Succeeds, Refuses, Packed, Listed, Phase, Exporting,
       Verifying, Here, Current, NoRelease, NoRuntime
  <2>13. CASE Inspect
    BY <2>13 DEF Inspect, At, Then, Succeeds, Refuses, Packed, Listed, Phase, Exporting,
       Verifying, Here, Current, NoRelease, NoRuntime
  <2>14. CASE Compare
    BY <2>14 DEF Compare, At, Then, Succeeds, Refuses, Packed, Listed, Phase, Exporting,
       Verifying, Here, Current, NoRelease, NoRuntime
  <2>15. CASE Report
    BY <2>15 DEF Report, At, Then, Succeeds, Refuses, Packed, Listed, Phase, Exporting,
       Verifying, Here, Current, NoRelease, NoRuntime
  <2>16. CASE Check
    BY <2>16 DEF Check, At, Then, Succeeds, Refuses, Packed, Listed, Phase, Exporting, Verifying,
       Here, Current, NoRelease, NoRuntime
  <2>17. CASE List
    <3> USE DEF TypeInv, TypeOK, EvidenceTypes, Within
    <3>1. recorded' = recorded + 1 /\ latest' = recorded + 1 /\ recorded + 1 \in 1..MaxRecords
      BY <2>17, BoundAssumption DEF List, At, BoundAssumption
    <3>2. \A r \in 1..recorded : manifests'[r] = manifests[r]
      BY <2>17, <3>1 DEF List
    <3>3. archive' = archive /\ release' = release /\ pc' = "idle"
      BY <2>17 DEF List, Succeeds
    <3>4. \A r \in 1..MaxRecords : r > recorded' => archive'[r] = NoBundle
      BY <3>1, <3>3 DEF Packed
    <3>5. archive'[latest'] = NoBundle
      BY <3>1, <3>3 DEF Packed
    <3>6. release.recording # 0 => release.recording \in 1..recorded' /\ manifests'[release.recording] = manifests[release.recording]
      BY <3>1, <3>2 DEF Packed
    <3>7. QED
      BY <3>1, <3>3, <3>4, <3>5, <3>6 DEF Packed
  <2>18. CASE Provenance
    BY <2>18 DEF Provenance, At, Then, Succeeds, Refuses, Packed, Listed, Phase, Exporting,
       Verifying, Here, Current, NoRelease, NoRuntime
  <2>19. ASSUME NEW c \in Cases, Case(c) PROVE Packed'
    BY <2>19 DEF Case, At, Then, Succeeds, Refuses, Packed, Listed, Phase, Exporting, Verifying,
       Here, Current, NoRelease, NoRuntime
  <2>20. CASE Verdict
    BY <2>20 DEF Verdict, At, Then, Succeeds, Refuses, Packed, Listed, Phase, Exporting,
       Verifying, Here, Current, NoRelease, NoRuntime
  <2>21. CASE Contents
    BY <2>21 DEF Contents, At, Then, Succeeds, Refuses, Packed, Listed, Phase, Exporting,
       Verifying, Here, Current, NoRelease, NoRuntime
  <2>22. CASE Archive
    <3>1. archive' = [archive EXCEPT ![latest] = manifests[latest]] /\ latest \in 1..recorded
      <4>1. pc = "archive" /\ archive' = [archive EXCEPT ![latest] = Here]
        BY <2>22 DEF Archive, At
      <4>2. Here = manifests[latest] /\ latest # 0
        BY <4>1 DEF Packed
      <4>3. latest \in 1..recorded
        BY <4>2 DEF Listed
      <4>4. QED
        BY <4>1, <4>2, <4>3
    <3>2. UNCHANGED <<manifests, latest, recorded, release>> /\ pc' = "idle"
      BY <2>22 DEF Archive, Succeeds
    <3>3. archive'[latest] = manifests[latest] /\ \A r \in 1..MaxRecords : r > recorded => archive'[r] = archive[r]
      BY <3>1, BoundAssumption DEF TypeInv, TypeOK, ReleaseTypes, EvidenceTypes, BoundAssumption
    <3>4. QED
      BY <3>1, <3>2, <3>3 DEF Packed
  <2>23. CASE Runtime
    BY <2>23 DEF Runtime, At, Then, Succeeds, Refuses, Packed, Listed, Phase, Exporting,
       Verifying, Here, Current, NoRelease, NoRuntime
  <2>24. ASSUME NEW v \in Versions, Publish(v) PROVE Packed'
    <3>1. release' = Released(v) \/ release' = release
      BY <2>24 DEF Publish
    <3>2. CASE release' = release
      BY <2>24, <3>2 DEF Publish, Succeeds, Refuses, Packed, Phase, At
    <3>3. CASE release' # release
      <4>1. latest # 0 /\ archive[latest] # NoBundle /\ runtime.recording = latest /\ runtime.version = v
            /\ release' = Released(v) /\ "pack" \in exited
        BY <2>24, <3>3 DEF Publish, Phase, At
      <4>2. archive[latest] = manifests[latest] /\ latest \in 1..recorded
        BY <4>1 DEF Packed, Listed
      <4>3. runtime = [recording |-> latest, version |-> v]
        BY <4>1 DEF TypeInv, TypeOK, ReleaseTypes
      <4>4. release'.recording = latest /\ release'.bundle = manifests[latest] /\ release'.version = v
            /\ release'.runtime = [recording |-> latest, version |-> v]
        BY <4>1, <4>2, <4>3 DEF Released
      <4>5. UNCHANGED <<manifests, latest, recorded, archive>> /\ pc' = "idle" /\ exited' \subseteq exited \cup {"release"}
        BY <2>24 DEF Publish, Succeeds, Refuses, Phase, At
      <4>6. QED
        BY <4>2, <4>4, <4>5 DEF Packed
    <3>4. QED
      BY <3>2, <3>3
  <2>25. CASE Kill
    <3>1. pc' = "idle" /\ exited' = exited /\ latest' \in {latest, 0} /\ manifests' = manifests
          /\ recorded' = recorded
      BY <2>25 DEF Kill, Refuses
    <3>2. release' = release \/ release'.recording = 0
      BY <2>25 DEF Kill, NoRelease
    <3>3. archive' = archive \/ (pc = "archive" /\ archive' = [archive EXCEPT ![latest] = Torn])
      BY <2>25 DEF Kill, At
    <3>4. \A r \in 1..MaxRecords : r > recorded => archive'[r] = NoBundle
      <4>1. latest \in 0..recorded /\ recorded \in 0..MaxRecords /\ MaxRecords \in Nat
        BY BoundAssumption DEF Listed, TypeInv, TypeOK, EvidenceTypes, BoundAssumption
      <4>2. archive \in [1..MaxRecords -> Bundles]
        BY DEF TypeInv, TypeOK, ReleaseTypes
      <4>3. QED
        BY <3>3, <4>1, <4>2 DEF Packed
    <3>5. "pack" \in exited => archive' = archive
      BY <3>3 DEF Phase
    <3>6. QED
      BY <3>1, <3>2, <3>4, <3>5 DEF Packed
  <2>26. QED
    BY <2>1, <2>2, <2>3, <2>4, <2>5, <2>6, <2>7, <2>8, <2>9, <2>10, <2>11, <2>12, <2>13, <2>14,
       <2>15, <2>16, <2>17, <2>18, <2>19, <2>20, <2>21, <2>22, <2>23, <2>24, <2>25 DEF Next
<1>3. QED
  BY <1>1, <1>2, TypeInvariant, PhaseInvariant, ListedInvariant, PTL DEF Spec

-----------------------------------------------------------------------------
\* A report that says "passed" is about the bundle that is there.
THEOREM ReportsAreCurrent == Spec => []ReportIsCurrent
<1>1. Reported => ReportIsCurrent
  BY DEF Reported
<1>2. QED
  BY <1>1, ReportedInvariant, PTL

\* Fixtures that passed are complete and of a tested, recorded bundle.
THEOREM GoldenIsTested == Spec => []GoldenIsTrue
<1>1. Made /\ Listed => GoldenIsTrue
  BY DEF Made, Listed, GoldenIsTrue
<1>2. QED
  BY <1>1, MadeInvariant, ListedInvariant, PTL

\* A release consists of a tested model and a package built for it.
THEOREM ReleasesAreTested == Spec => []ReleaseIsTested
<1>1. Packed /\ Listed => ReleaseIsTested
  BY DEF Packed, Listed, ReleaseIsTested
<1>2. QED
  BY <1>1, PackedInvariant, ListedInvariant, PTL
=============================================================================
