--------------------------- MODULE ModelPipeline ---------------------------
(***************************************************************************)
(* From the published checkpoint to a release: tools/model-prep (prepare,  *)
(* export, normalize, verify, record, fixtures) and tools/release          *)
(* (package, build-macos).                                                 *)
(*                                                                         *)
(* The tools are run one at a time by somebody who goes on to the next one *)
(* only after exit code 0 (tools/model-prep/README.md), and who may start  *)
(* over with any of them.  They share files.  Every step that changes one  *)
(* is an action, because a tool may be killed, or fail, before any of      *)
(* them; what it was writing then may be left torn.                        *)
(*                                                                         *)
(* A file is known by its contents.  A graph is known by the export that   *)
(* saved it and its form, the external data by its export.  Whether the    *)
(* runtime computes what the official model computes is open: the          *)
(* comparison of a bundle may pass or fail.                                *)
(***************************************************************************)
EXTENDS Naturals, FiniteSets

CONSTANTS
  Inputs,      \* files of the checkpoint and of the official sources
  Cases,       \* fixture cases
  Versions,    \* of the program
  MaxExports, MaxRecords, MaxFails  \* bounds: exports, recorded manifests, tools that fail

ASSUME BoundAssumption == MaxExports \in Nat /\ MaxRecords \in Nat /\ MaxFails \in Nat
ASSUME CaseAssumption  == IsFiniteSet(Cases)

Tools == {"prepare", "export", "verify", "record", "fixtures", "pack", "build", "release"}

\* The tool that has to have succeeded before.
Before == [t \in Tools |->
  CASE t = "prepare" -> "prepare" [] t = "export" -> "prepare" [] t = "verify"   -> "export"
    [] t = "record"  -> "verify"  [] t = "build"  -> "record"  [] t = "fixtures" -> "record"
    [] t = "pack"    -> "record"  [] t = "release" -> "pack"]

Steps == {"idle", "fetch", "unlink", "data", "graph", "rewrite", "replace", "copy",
          "forget", "inspect", "compare", "report", "check", "list", "provenance", "case",
          "contents", "archive", "runtime", "publish"}

First == [t \in Tools |->
  CASE t = "prepare" -> "fetch" [] t = "export" -> "unlink" [] t = "verify" -> "forget"
    [] t = "record" -> "check" [] t = "fixtures" -> "provenance" [] t = "pack" -> "contents"
    [] t = "build" -> "runtime" [] t = "release" -> "publish"]

Graphs  == [export : 0..MaxExports, form : {"none", "torn", "raw", "normal"}]
Bundles == [graph : Graphs, data : 0..MaxExports]

NoGraph   == [export |-> 0, form |-> "none"]
TornGraph == [export |-> 0, form |-> "torn"]
NoBundle  == [graph |-> NoGraph, data |-> 0]
Torn      == [graph |-> TornGraph, data |-> 0]

VARIABLES
  tool, pc,    \* the tool that runs, and the step it is about to take
  exited,      \* tools whose last run exited with 0
  todo,        \* of that run: inputs or cases it has not dealt with
  input,       \* per input: "absent", "short" or "whole" under its name
  graph,       \* laya.onnx
  data,        \* laya.onnx.data: the export it is of, 0 if absent or torn
  normalized,  \* laya.normalized.onnx
  copied,      \* tokenizer/ and laya_config.json are there
  validation,  \* validation.json: the bundle that passed, NoBundle if absent or torn
  manifests,   \* per recording: the bundle listed in model-manifest.json
  latest,      \* the recording that is there, 0 if there is none or it is torn
  recorded,    \* how often the manifest has been written
  golden,      \* the directory of the last fixtures run
  archive,     \* per recording: the bundle in model-<id>.tar.gz
  runtime,     \* the built package: its MODEL_ID and VERSION
  release,     \* release.env
  exports,     \* how often an export has saved
  tested,      \* history: bundles that agreed with the official model
  fails

machine  == <<tool, pc, exited, todo>>
bundle   == <<graph, data, normalized, copied, exports>>
evidence == <<validation, tested>>
manifest == <<manifests, latest, recorded>>
shipped  == <<archive, runtime, release>>
vars     == <<machine, input, bundle, evidence, manifest, golden, shipped, fails>>

Here == [graph |-> graph, data |-> data]

NoGolden  == [recording |-> 0, bundle |-> NoBundle, whole |-> {}, failed |-> {}, status |-> "none"]
NoRuntime == [recording |-> 0, version |-> "none"]
NoRelease == [recording |-> 0, bundle |-> NoBundle, runtime |-> NoRuntime, version |-> "none"]

Init ==
  /\ tool = "prepare" /\ pc = "idle" /\ exited = {} /\ todo = {}
  /\ input = [f \in Inputs |-> "absent"]
  /\ graph = NoGraph /\ data = 0 /\ normalized = NoGraph /\ copied = FALSE /\ exports = 0
  /\ validation = NoBundle /\ tested = {}
  /\ manifests = [r \in 1..MaxRecords |-> NoBundle] /\ latest = 0 /\ recorded = 0
  /\ golden = NoGolden
  /\ archive = [r \in 1..MaxRecords |-> NoBundle] /\ runtime = NoRuntime /\ release = NoRelease
  /\ fails = 0

At(s)   == pc = s
Then(s) == pc' = s /\ UNCHANGED <<tool, exited>>

Succeeds == pc' = "idle" /\ exited' = exited \cup {tool} /\ UNCHANGED <<tool, todo>>

\* What the step requires is not the case: the tool ends with another exit code.
Refuses == pc' = "idle" /\ UNCHANGED <<tool, exited, todo>>

Begin(t) ==
  /\ At("idle")
  /\ t = "prepare" \/ Before[t] \in exited
  /\ t = "record" => recorded < MaxRecords
  /\ t = "export" => exports < MaxExports
  /\ tool' = t /\ pc' = First[t] /\ exited' = exited \ {t}
  /\ todo' = CASE t = "prepare" -> Inputs [] t = "fixtures" -> Cases [] OTHER -> {}
  /\ UNCHANGED <<input, bundle, evidence, manifest, golden, shipped, fails>>

InputsWhole == \A f \in Inputs : input[f] = "whole"

----------------------------------------------------------------------------
\* prepare

\* A connection that is closed early ends the loop of download() like the end of
\* the file does, so what came gets the file's name.
Fetch(f) ==
  /\ At("fetch") /\ f \in todo
  /\ input[f] = "absent"
  /\ \E how \in {"short", "whole"} : input' = [input EXCEPT ![f] = how]
  /\ UNCHANGED <<machine, bundle, evidence, manifest, golden, shipped, fails>>

\* The digest decides, of a file that was there before as well.
Accept(f) ==
  /\ At("fetch") /\ f \in todo
  /\ \/ input[f] = "whole" /\ todo' = todo \ {f} /\ UNCHANGED <<tool, pc, exited>>
     \/ input[f] = "short" /\ Refuses
  /\ UNCHANGED <<input, bundle, evidence, manifest, golden, shipped, fails>>

\* The licenses are copied and inputs.json is written.
Prepared ==
  /\ At("fetch") /\ todo = {}
  /\ Succeeds
  /\ UNCHANGED <<input, bundle, evidence, manifest, golden, shipped, fails>>

----------------------------------------------------------------------------
\* export

\* Mutant: an export leaves the report of the bundle that it is about to replace.
UnlinkNothing ==
  /\ At("unlink")
  /\ IF InputsWhole THEN Then("data") /\ UNCHANGED todo ELSE Refuses
  /\ UNCHANGED <<input, bundle, evidence, manifest, golden, shipped, fails>>

\* The old report goes first; then the official model is loaded from its files.
Unlink ==
  /\ At("unlink")
  /\ validation' = NoBundle
  /\ IF InputsWhole THEN Then("data") /\ UNCHANGED todo ELSE Refuses
  /\ UNCHANGED <<input, bundle, tested, manifest, golden, shipped, fails>>

SaveData ==
  /\ At("data")
  /\ exports' = exports + 1 /\ data' = exports'
  /\ Then("graph")
  /\ UNCHANGED <<todo, input, graph, normalized, copied, evidence, manifest, golden, shipped, fails>>

SaveGraph ==
  /\ At("graph")
  /\ graph' = [export |-> exports, form |-> "raw"]
  /\ Then("rewrite")
  /\ UNCHANGED <<todo, input, data, normalized, copied, exports, evidence, manifest, golden, shipped,
                 fails>>

\* Expands the LayerNormalization nodes into a new file, which must not be there.
Rewrite ==
  /\ At("rewrite")
  /\ IF normalized = NoGraph /\ graph.form = "raw"
     THEN normalized' = [graph EXCEPT !.form = "normal"] /\ Then("replace") /\ UNCHANGED todo
     ELSE Refuses /\ UNCHANGED normalized
  /\ UNCHANGED <<input, graph, data, copied, exports, evidence, manifest, golden, shipped, fails>>

Replace ==
  /\ At("replace")
  /\ graph' = normalized /\ normalized' = NoGraph
  /\ Then("copy")
  /\ UNCHANGED <<todo, input, data, copied, exports, evidence, manifest, golden, shipped, fails>>

Copy ==
  /\ At("copy")
  /\ copied' = TRUE
  /\ Succeeds
  /\ UNCHANGED <<input, graph, data, normalized, exports, evidence, manifest, golden, shipped, fails>>

----------------------------------------------------------------------------
\* verify

Forget ==
  /\ At("forget")
  /\ validation' = NoBundle
  /\ Then("inspect")
  /\ UNCHANGED <<todo, input, bundle, tested, manifest, golden, shipped, fails>>

\* require_bundle, inspect_graph, session: files that are there and can be loaded.
Loadable == graph.form \in {"raw", "normal"} /\ data # 0 /\ copied

Inspect ==
  /\ At("inspect")
  /\ IF Loadable /\ InputsWhole THEN Then("compare") /\ UNCHANGED todo ELSE Refuses
  /\ UNCHANGED <<input, bundle, evidence, manifest, golden, shipped, fails>>

Compare ==
  /\ At("compare")
  /\ \/ tested' = tested \cup {Here} /\ Then("report") /\ UNCHANGED todo
     \/ Refuses /\ UNCHANGED tested
  /\ UNCHANGED <<input, bundle, validation, manifest, golden, shipped, fails>>

Report ==
  /\ At("report")
  /\ validation' = Here
  /\ Succeeds
  /\ UNCHANGED <<input, bundle, tested, manifest, golden, shipped, fails>>

----------------------------------------------------------------------------
\* record

Check ==
  /\ At("check")
  /\ IF validation # NoBundle /\ validation = Here THEN Then("list") /\ UNCHANGED todo ELSE Refuses
  /\ UNCHANGED <<input, bundle, evidence, manifest, golden, shipped, fails>>

List ==
  /\ At("list")
  /\ recorded' = recorded + 1 /\ latest' = recorded'
  /\ manifests' = [manifests EXCEPT ![recorded'] = Here]
  /\ Succeeds
  /\ UNCHANGED <<input, bundle, evidence, golden, shipped, fails>>

----------------------------------------------------------------------------
\* fixtures, each run into a directory of its own

\* The files are those of the recorded manifest.
Current == latest # 0 /\ manifests[latest] = Here

Provenance ==
  /\ At("provenance")
  /\ IF Current /\ InputsWhole
     THEN /\ golden' = [NoGolden EXCEPT !.recording = latest, !.bundle = Here]
          /\ Then("case") /\ UNCHANGED todo
     ELSE golden' = NoGolden /\ Refuses
  /\ UNCHANGED <<input, bundle, evidence, manifest, shipped, fails>>

\* One request through the official model and the runtime; a difference is kept.
Case(c) ==
  /\ At("case") /\ c \in todo
  /\ todo' = todo \ {c}
  /\ \E failed \in {golden.failed, golden.failed \cup {c}} :
       golden' = [golden EXCEPT !.whole = @ \cup {c}, !.failed = failed]
  /\ UNCHANGED <<tool, pc, exited, input, bundle, evidence, manifest, shipped, fails>>

\* Mutant: the status does not depend on the comparisons.
VerdictPasses ==
  /\ At("case") /\ todo = {}
  /\ golden' = [golden EXCEPT !.status = "passed"]
  /\ Succeeds
  /\ UNCHANGED <<input, bundle, evidence, manifest, shipped, fails>>

\* manifest.json is written last.
Verdict ==
  /\ At("case") /\ todo = {}
  /\ IF golden.failed = {} THEN golden' = [golden EXCEPT !.status = "passed"] /\ Succeeds
                           ELSE golden' = [golden EXCEPT !.status = "failed"] /\ Refuses
  /\ UNCHANGED <<input, bundle, evidence, manifest, shipped, fails>>

----------------------------------------------------------------------------
\* package and build

\* Mutant: the files of the bundle are packed as they are.
ContentsUnchecked ==
  /\ At("contents")
  /\ IF latest # 0 THEN Then("archive") /\ UNCHANGED todo ELSE Refuses
  /\ UNCHANGED <<input, bundle, evidence, manifest, golden, shipped, fails>>

Contents ==
  /\ At("contents")
  /\ IF Current THEN Then("archive") /\ UNCHANGED todo ELSE Refuses
  /\ UNCHANGED <<input, bundle, evidence, manifest, golden, shipped, fails>>

\* The archive is named by the digest of the manifest.
Archive ==
  /\ At("archive")
  /\ archive' = [archive EXCEPT ![latest] = Here]
  /\ Succeeds
  /\ UNCHANGED <<input, bundle, evidence, manifest, golden, runtime, release, fails>>

Runtime ==
  /\ At("runtime")
  /\ IF latest # 0
     THEN /\ \E v \in Versions : runtime' = [recording |-> latest, version |-> v]
          /\ Succeeds
     ELSE Refuses /\ UNCHANGED runtime
  /\ UNCHANGED <<input, bundle, evidence, manifest, golden, archive, release, fails>>

Released(v) == [recording |-> latest, bundle |-> archive[latest], runtime |-> runtime, version |-> v]

\* The model archive is taken by its name; MODEL_ID and VERSION of the package are compared.
Publish(v) ==
  /\ At("publish")
  /\ IF /\ latest # 0 /\ archive[latest] # NoBundle
        /\ runtime.recording = latest /\ runtime.version = v
     THEN release' = Released(v) /\ Succeeds
     ELSE Refuses /\ UNCHANGED release
  /\ UNCHANGED <<input, bundle, evidence, manifest, golden, archive, runtime, fails>>

----------------------------------------------------------------------------
\* An exception or a kill at any step.  The file that the step writes in place may
\* be torn: the JSON files are not readable then, and the archive has its name.
Kill ==
  /\ ~At("idle") /\ fails < MaxFails
  /\ fails' = fails + 1
  /\ Refuses
  /\ data' \in {data, IF At("data") THEN 0 ELSE data}
  /\ graph' \in {graph, IF At("graph") THEN TornGraph ELSE graph}
  /\ normalized' \in {normalized, IF At("rewrite") /\ normalized = NoGraph THEN TornGraph
                                  ELSE normalized}
  /\ copied' \in {copied, copied /\ ~At("copy")}
  /\ latest' \in {latest, IF At("list") THEN 0 ELSE latest}
  /\ archive' \in {archive, IF At("archive") THEN [archive EXCEPT ![latest] = Torn] ELSE archive}
  /\ runtime' \in {runtime, IF At("runtime") THEN NoRuntime ELSE runtime}
  /\ release' \in {release, IF At("publish") THEN NoRelease ELSE release}
  /\ UNCHANGED <<input, exports, evidence, manifests, recorded, golden>>

Next ==
  \/ \E t \in Tools : Begin(t)
  \/ \E f \in Inputs : Fetch(f) \/ Accept(f)
  \/ Prepared
  \/ Unlink \/ SaveData \/ SaveGraph \/ Rewrite \/ Replace \/ Copy
  \/ Forget \/ Inspect \/ Compare \/ Report
  \/ Check \/ List
  \/ Provenance \/ (\E c \in Cases : Case(c)) \/ Verdict
  \/ Contents \/ Archive \/ Runtime
  \/ \E v \in Versions : Publish(v)
  \/ Kill

Spec == Init /\ [][Next]_vars

----------------------------------------------------------------------------

MachineTypes ==
  /\ tool \in Tools /\ pc \in Steps /\ exited \subseteq Tools /\ todo \subseteq Inputs \cup Cases
  /\ fails \in 0..MaxFails

BundleTypes ==
  /\ input \in [Inputs -> {"absent", "short", "whole"}]
  /\ graph \in Graphs /\ data \in 0..MaxExports /\ normalized \in Graphs /\ copied \in BOOLEAN
  /\ exports \in 0..MaxExports

EvidenceTypes ==
  /\ validation \in Bundles /\ tested \subseteq Bundles
  /\ manifests \in [1..MaxRecords -> Bundles]
  /\ latest \in 0..MaxRecords /\ recorded \in 0..MaxRecords

ReleaseTypes ==
  /\ golden \in [recording : 0..MaxRecords, bundle : Bundles, whole : SUBSET Cases,
                 failed : SUBSET Cases, status : {"none", "passed", "failed"}]
  /\ archive \in [1..MaxRecords -> Bundles]
  /\ runtime \in [recording : 0..MaxRecords, version : Versions \cup {"none"}]
  /\ release.recording \in 0..MaxRecords

TypeOK == MachineTypes /\ BundleTypes /\ EvidenceTypes /\ ReleaseTypes

\* Wherever a tool was killed: a report that says "passed" is about the bundle that
\* is there, which agreed with the official model and has its normalisation expanded
\* (export and verify remove the old report before anything else).
ReportIsCurrent ==
  validation # NoBundle => /\ validation = Here
                           /\ validation \in tested
                           /\ graph.form = "normal"

\* Fixtures whose manifest says "passed" are complete, without a difference, and
\* made with a recorded bundle that had agreed with the official model
\* (fixtures.generate: the manifest is written last, into a directory of its own).
GoldenIsTrue ==
  golden.status = "passed" =>
    /\ golden.whole = Cases /\ golden.failed = {}
    /\ golden.bundle = manifests[golden.recording] /\ golden.bundle \in tested

\* release.env names a model archive that is whole, holds the bundle its recording
\* lists, one that was tested in its final form, and a package of the version that
\* is released, built for that recording, however the tools were repeated and killed
\* in between (package.pack_model compares every file, package.release the two ids).
ReleaseIsTested ==
  release.recording # 0 =>
    /\ release.bundle = manifests[release.recording]
    /\ release.bundle \in tested /\ release.bundle.graph.form = "normal"
    /\ release.runtime = [recording |-> release.recording, version |-> release.version]
=============================================================================
