----------------------------- MODULE RenderStore -----------------------------
(***************************************************************************)
(* What the second demo engine keeps of its pages: artifacts and their     *)
(* lifecycle, render versions, screenshots, review packages, visual        *)
(* reviews and approvals; and the command demo-v2-persist, several of      *)
(* which may run at once, each in an output directory it may share.        *)
(*                                                                         *)
(* Sources: demo-v2-persist.ts, demo-v2-render.ts and the repositories     *)
(* demo-v2-render, demo-v2-visual-review and demo-v2-foundation.  The      *)
(* calls on an existing artifact are those of the repositories' tests:     *)
(* no command makes them.                                                  *)
(*                                                                         *)
(* A render stands for its hash.  Screenshots are the render each page     *)
(* was served from.                                                        *)
(***************************************************************************)
EXTENDS Naturals, Sequences, FiniteSets

CONSTANTS
  Editors,         \* sessions
  OutDirs,         \* output directories
  Renders,         \* pages that may be rendered
  MaxArtifacts,    \* bound
  MaxVersions,     \* bound
  MaxApprovals     \* bound

ASSUME StoreAssumption == {MaxArtifacts, MaxVersions, MaxApprovals} \subseteq Nat /\ "nothing" \notin Renders

VARIABLES
  outDir,      \* what lies in each output directory
  editor,      \* the sessions
  factIds,     \* TRUE: the fixture's facts are in the database
  artifacts,   \* the status of every artifact
  versions,    \* render versions
  packages,    \* review packages
  looks,       \* visual reviews
  approvals    \* approval packages with their decisions

storeVars == <<outDir, editor, factIds, artifacts, versions, packages, looks, approvals>>

ArtifactStatuses == {
  "INTELLIGENCE_PENDING", "INTELLIGENCE_READY", "CONTENT_PENDING", "CONTENT_READY", "ASSET_REVIEW_PENDING",
  "FOUNDATION_READY", "BRIEF_READY", "PLAN_READY", "RENDERING", "RENDERED", "AUTO_REVIEW_PENDING",
  "AUTO_REVIEW_PASSED", "REVISION_REQUIRED", "HUMAN_REVIEW_REQUIRED", "HUMAN_APPROVED", "REJECTED",
  "BLOCKED", "SUPERSEDED"}

Version == [artifact : Nat, no : Nat, render : Renders, current : BOOLEAN, by : Nat]
ReviewPackage == [version : Nat, render : Renders, shots : SUBSET (Renders \cup {"nothing"}), current : BOOLEAN,
                  alone : BOOLEAN]
Look == [artifact : Nat, version : Nat, render : Renders, current : BOOLEAN, stale : BOOLEAN]
Decision == [decision : {"AUTO_REVIEW_PASSED", "HUMAN_APPROVED", "HUMAN_REJECTED"}, bound : Nat \X Renders]
Approval == [artifact : Nat, render : Renders, decisions : SUBSET Decision, invalidated : BOOLEAN]

EditorState == [pc : {"idle", "rendered", "shot", "seeded", "founded", "rerender"}, dir : OutDirs \cup {"none"},
                render : Renders \cup {"none"}, shots : SUBSET (Renders \cup {"nothing"}), artifact : Nat,
                prior : Nat, no : Nat, alone : BOOLEAN]

NoEditor == [pc |-> "idle", dir |-> "none", render |-> "none", shots |-> {}, artifact |-> 0, prior |-> 0, no |-> 0,
             alone |-> TRUE]

StoreTypeOK ==
  /\ outDir \in [OutDirs -> Renders \cup {"nothing"}]
  /\ editor \in [Editors -> EditorState] /\ factIds \in BOOLEAN
  /\ artifacts \in Seq(ArtifactStatuses)
  /\ versions \in Seq(Version)
  /\ packages \in Seq(ReviewPackage)
  /\ looks \in Seq(Look)
  /\ approvals \in Seq(Approval)

StoreInit ==
  /\ outDir = [d \in OutDirs |-> "nothing"]
  /\ editor = [e \in Editors |-> NoEditor]
  /\ factIds = FALSE
  /\ artifacts = <<>> /\ versions = <<>> /\ packages = <<>> /\ looks = <<>> /\ approvals = <<>>

(***************************************************************************)
(* Lifecycle                                                               *)
(***************************************************************************)
artifactTransitions ==
  [INTELLIGENCE_PENDING |-> {"INTELLIGENCE_READY", "BLOCKED"},
   INTELLIGENCE_READY |-> {"CONTENT_PENDING", "BLOCKED", "SUPERSEDED"},
   CONTENT_PENDING |-> {"CONTENT_READY", "BLOCKED"},
   CONTENT_READY |-> {"ASSET_REVIEW_PENDING", "BLOCKED", "SUPERSEDED"},
   ASSET_REVIEW_PENDING |-> {"FOUNDATION_READY", "BLOCKED"},
   FOUNDATION_READY |-> {"BRIEF_READY", "BLOCKED", "SUPERSEDED"},
   BRIEF_READY |-> {"PLAN_READY", "BLOCKED", "SUPERSEDED"},
   PLAN_READY |-> {"HUMAN_REVIEW_REQUIRED", "RENDERING", "BLOCKED", "SUPERSEDED"},
   RENDERING |-> {"RENDERED", "REVISION_REQUIRED", "BLOCKED"},
   RENDERED |-> {"AUTO_REVIEW_PENDING", "REVISION_REQUIRED", "SUPERSEDED"},
   AUTO_REVIEW_PENDING |-> {"AUTO_REVIEW_PASSED", "REVISION_REQUIRED", "BLOCKED"},
   AUTO_REVIEW_PASSED |-> {"HUMAN_REVIEW_REQUIRED", "REVISION_REQUIRED", "SUPERSEDED"},
   REVISION_REQUIRED |-> {"RENDERING", "REJECTED", "BLOCKED"},
   HUMAN_REVIEW_REQUIRED |-> {"RENDERING", "HUMAN_APPROVED", "REJECTED", "REVISION_REQUIRED"},
   HUMAN_APPROVED |-> {"REVISION_REQUIRED", "SUPERSEDED"},
   REJECTED |-> {},
   BLOCKED |-> {"INTELLIGENCE_PENDING", "CONTENT_PENDING", "ASSET_REVIEW_PENDING", "RENDERING"},
   SUPERSEDED |-> {}]

(* The statuses a list of advanceArtifact calls goes through, each of which
   must be one of "allowed" and follow from the one before. *)
passes(from, path, allowed) ==
  \A k \in DOMAIN path :
    /\ path[k] \in allowed
    /\ path[k] \in artifactTransitions[IF k = 1 THEN from ELSE path[k - 1]]

FoundationPath == <<"INTELLIGENCE_READY", "CONTENT_PENDING", "CONTENT_READY", "ASSET_REVIEW_PENDING",
                    "FOUNDATION_READY", "BRIEF_READY", "PLAN_READY", "HUMAN_REVIEW_REQUIRED">>
MILESTONE_2_STATUSES == {FoundationPath[k] : k \in DOMAIN FoundationPath} \cup {"INTELLIGENCE_PENDING", "BLOCKED"}
RENDER_STATUSES == {"RENDERING", "RENDERED", "AUTO_REVIEW_PENDING"}

(***************************************************************************)
(* demo-v2-persist                                                         *)
(***************************************************************************)
at(e, pc) == editor[e].pc = pc
step(e, record) == editor' = [editor EXCEPT ![e] = record]

(* The directory is emptied and written anew, whoever else is using it. *)
renderFixtureBundle(e) ==
  /\ at(e, "idle") /\ Len(artifacts) < MaxArtifacts
  /\ \E d \in OutDirs, r \in Renders :
       /\ outDir' = [outDir EXCEPT ![d] = r]
       /\ editor' = [x \in Editors |->
            IF x = e THEN [NoEditor EXCEPT !.pc = "rendered", !.dir = d, !.render = r]
            ELSE IF editor[x].dir = d THEN [editor[x] EXCEPT !.alone = FALSE] ELSE editor[x]]
  /\ UNCHANGED <<factIds, artifacts, versions, packages, looks, approvals>>

(* Mutant: a page that is not there is shown as an error. *)
servedFrom_Error(e) == "error"

(* Mutant: the pages of the default directory. *)
servedFrom_Default(e) == outDir[CHOOSE d \in OutDirs : TRUE]

servedFrom(e) == outDir[editor[e].dir]

(* Every page of every language, from what the directory holds by then. *)
captureScreenshots(e) ==
  /\ at(e, "rendered")
  /\ \/ step(e, [editor[e] EXCEPT !.pc = "shot", !.shots = {servedFrom(e)}])
     \/ editor[e].shots = {} /\ step(e, [editor[e] EXCEPT !.shots = {servedFrom(e)}])
     \/ editor[e].shots # {} /\ step(e, [editor[e] EXCEPT !.pc = "shot", !.shots = @ \cup {servedFrom(e)}])
  /\ UNCHANGED <<outDir, factIds, artifacts, versions, packages, looks, approvals>>

(* A lead, a decision and an artifact are inserted one by one, then the facts,
   whose ids are the fixture's: the second time that insert fails. *)
seedArtifact(e) ==
  /\ at(e, "shot")
  /\ artifacts' = Append(artifacts, "INTELLIGENCE_PENDING")
  /\ factIds' = TRUE
  /\ step(e, IF factIds THEN NoEditor ELSE [editor[e] EXCEPT !.pc = "seeded", !.artifact = Len(artifacts) + 1])
  /\ UNCHANGED <<outDir, versions, packages, looks, approvals>>

(* persistFoundation and the lifecycle, in one transaction. *)
orchestrate(e) ==
  /\ at(e, "seeded")
  /\ passes(artifacts[editor[e].artifact], FoundationPath, MILESTONE_2_STATUSES)
  /\ artifacts' = [artifacts EXCEPT ![editor[e].artifact] = "HUMAN_REVIEW_REQUIRED"]
  /\ step(e, [editor[e] EXCEPT !.pc = "founded"])
  /\ UNCHANGED <<outDir, factIds, versions, packages, looks, approvals>>

(* persistRenderVersion: the current row gives way to the new one. *)
withVersion(a, r, prior, no) ==
  Append([k \in DOMAIN versions |->
            IF k = prior THEN [versions[k] EXCEPT !.current = FALSE, !.by = Len(versions) + 1] ELSE versions[k]],
         [artifact |-> a, no |-> no, render |-> r, current |-> TRUE, by |-> 0])

currentOf(rows, a) == {k \in DOMAIN rows : rows[k].artifact = a /\ rows[k].current}
theCurrent(rows, a) == IF currentOf(rows, a) = {} THEN 0 ELSE CHOOSE k \in currentOf(rows, a) : TRUE
versionsOf(a) == {k \in DOMAIN versions : versions[k].artifact = a}
nextVersion(a) == Cardinality(versionsOf(a)) + 1

(* Mutant: the package the version had stays the current one. *)
withPackage_Kept(v, shots, alone) ==
  Append(packages, [version |-> v, render |-> versions'[v].render, shots |-> shots, current |-> packages = <<>>,
                    alone |-> alone])

(* persistReviewPackage: the artifact's current package gives way. *)
withPackage(v, shots, alone) ==
  Append([k \in DOMAIN packages |->
            IF versions[packages[k].version].artifact = versions'[v].artifact
            THEN [packages[k] EXCEPT !.current = FALSE] ELSE packages[k]],
         [version |-> v, render |-> versions'[v].render, shots |-> shots, current |-> TRUE, alone |-> alone])

(* One transaction: RENDERING, the version, RENDERED, the screenshots, the
   package bound to them, AUTO_REVIEW_PENDING. *)
persistRenderBundle(e) ==
  LET a == editor[e].artifact IN
  /\ at(e, "founded") /\ Len(versions) < MaxVersions
  /\ passes(artifacts[a], <<"RENDERING", "RENDERED", "AUTO_REVIEW_PENDING">>, RENDER_STATUSES)
  /\ versions' = withVersion(a, editor[e].render, theCurrent(versions, a), nextVersion(a))
  /\ packages' = withPackage(Len(versions) + 1, editor[e].shots, editor[e].alone)
  /\ artifacts' = [artifacts EXCEPT ![a] = "AUTO_REVIEW_PENDING"]
  /\ step(e, NoEditor)
  /\ UNCHANGED <<outDir, factIds, looks, approvals>>

(* The process dies, or a transaction fails and the command with it. *)
editorStops(e) ==
  /\ ~ at(e, "idle")
  /\ step(e, NoEditor)
  /\ UNCHANGED <<outDir, factIds, artifacts, versions, packages, looks, approvals>>

(***************************************************************************)
(* Further renders and reviews of an artifact                              *)
(***************************************************************************)
(* A transaction that adds a version and its package reads the current row and
   the number it will have. *)
rerenderRead(e) ==
  /\ at(e, "idle") /\ Len(versions) < MaxVersions
  /\ \E a \in DOMAIN artifacts, r \in Renders :
       /\ theCurrent(versions, a) # 0
       /\ step(e, [NoEditor EXCEPT !.pc = "rerender", !.artifact = a, !.render = r, !.shots = {r},
                                   !.prior = theCurrent(versions, a), !.no = nextVersion(a)])
  /\ UNCHANGED <<outDir, factIds, artifacts, versions, packages, looks, approvals>>

(* Mutant: no unique index on the artifact's version numbers. *)
numberIsFree_Always(a, no) == TRUE

numberIsFree(a, no) == \A k \in DOMAIN versions : versions[k].artifact = a => versions[k].no # no

(* ... and commits, unless another one took the number: then it rolls back. *)
rerenderCommit(e) ==
  LET a == editor[e].artifact IN
  /\ at(e, "rerender")
  /\ step(e, NoEditor)
  /\ IF numberIsFree(a, editor[e].no)
     THEN /\ versions' = withVersion(a, editor[e].render, editor[e].prior, editor[e].no)
          /\ packages' = withPackage(Len(versions) + 1, editor[e].shots, TRUE)
     ELSE UNCHANGED <<versions, packages>>
  /\ UNCHANGED <<outDir, factIds, artifacts, looks, approvals>>

(* A review is bound to a version and its package, which need not be current
   any more; a version is reviewed once, and the review before gives way. *)
persistReview ==
  \E v \in DOMAIN versions :
    /\ \A k \in DOMAIN looks : looks[k].version # v
    /\ looks' = Append([k \in DOMAIN looks |->
                  IF looks[k].artifact = versions[v].artifact THEN [looks[k] EXCEPT !.current = FALSE] ELSE looks[k]],
                  [artifact |-> versions[v].artifact, version |-> v, render |-> versions[v].render, current |-> TRUE,
                   stale |-> FALSE])
    /\ UNCHANGED <<outDir, editor, factIds, artifacts, versions, packages, approvals>>

markStaleReviews ==
  \E a \in DOMAIN artifacts :
    /\ looks # <<>>
    /\ looks' = [k \in DOMAIN looks |->
         IF looks[k].artifact = a /\ \A v \in currentOf(versions, a) : versions[v].render # looks[k].render
         THEN [looks[k] EXCEPT !.stale = TRUE] ELSE looks[k]]
    /\ UNCHANGED <<outDir, editor, factIds, artifacts, versions, packages, approvals>>

(***************************************************************************)
(* Approvals                                                               *)
(***************************************************************************)
approvalOf(v) == [artifact |-> versions[v].artifact, render |-> versions[v].render, decisions |-> {}, invalidated |-> FALSE]

(* One package per artifact and content of the package. *)
createApprovalPackage ==
  /\ Len(approvals) < MaxApprovals
  /\ \E v \in DOMAIN versions :
       /\ \A k \in DOMAIN approvals : approvals[k].artifact # versions[v].artifact \/ approvals[k].render # versions[v].render
       /\ approvals' = Append(approvals, approvalOf(v))
  /\ UNCHANGED <<outDir, editor, factIds, artifacts, versions, packages, looks>>

(* Mutant: a decision on any package of the artifact will do. *)
assertDecisionBindings_Artifact(bound, k) == bound[1] = approvals[k].artifact

(* The hash of the package, which covers the artifact and the render. *)
assertDecisionBindings(bound, k) == bound = <<approvals[k].artifact, approvals[k].render>>

mayDecide(d, made) == d \notin made /\ (d # "AUTO_REVIEW_PASSED" => made \subseteq {"AUTO_REVIEW_PASSED"})

(* A decision is bound to what was looked at; a human decides once. *)
recordApprovalDecision ==
  \E k \in DOMAIN approvals, d \in {"AUTO_REVIEW_PASSED", "HUMAN_APPROVED", "HUMAN_REJECTED"}, seen \in DOMAIN versions :
    LET bound == <<versions[seen].artifact, versions[seen].render>>
        made == {x.decision : x \in approvals[k].decisions}
    IN
    /\ assertDecisionBindings(bound, k)
    /\ mayDecide(d, made)
    /\ approvals' = [approvals EXCEPT ![k].decisions = @ \cup {[decision |-> d, bound |-> bound]}]
    /\ UNCHANGED <<outDir, editor, factIds, artifacts, versions, packages, looks>>

standing(k) == ~ approvals[k].invalidated

invalidateApproval ==
  \E k \in DOMAIN approvals :
    /\ standing(k)
    /\ approvals' = [approvals EXCEPT ![k].invalidated = TRUE]
    /\ UNCHANGED <<outDir, editor, factIds, artifacts, versions, packages, looks>>

isHumanDeploymentApproved(k) ==
  /\ standing(k)
  /\ \A d \in {"AUTO_REVIEW_PASSED", "HUMAN_APPROVED"} :
       \E x \in approvals[k].decisions : x.decision = d /\ assertDecisionBindings(x.bound, k)

StoreNext ==
  \/ \E e \in Editors :
       \/ renderFixtureBundle(e) \/ captureScreenshots(e) \/ seedArtifact(e) \/ orchestrate(e)
       \/ persistRenderBundle(e) \/ editorStops(e) \/ rerenderRead(e) \/ rerenderCommit(e)
  \/ persistReview \/ markStaleReviews \/ createApprovalPackage \/ recordApprovalDecision \/ invalidateApproval

StoreSpec == StoreInit /\ [][StoreNext]_storeVars

(***************************************************************************)
(* Properties                                                              *)
(***************************************************************************)
(* The versions of an artifact form one chain: they are numbered without gaps,
   each names the one that took its place, and only the last is current, with
   as many sessions adding versions as there may be. *)
VersionsFormOneChain ==
  \A k \in DOMAIN versions :
    LET next == {m \in DOMAIN versions : versions[m].artifact = versions[k].artifact /\ versions[m].no = versions[k].no + 1}
        same == {m \in DOMAIN versions : versions[m].artifact = versions[k].artifact /\ versions[m].no = versions[k].no}
    IN /\ same = {k}
       /\ versions[k].current <=> next = {}
       /\ ~ versions[k].current => next = {versions[k].by}

(* An artifact that waits for its review has something to be reviewed: its
   current version has the current package, made of that version's page. *)
PendingReviewHasPackage ==
  \A a \in DOMAIN artifacts :
    artifacts[a] = "AUTO_REVIEW_PENDING" =>
      \E k \in DOMAIN packages :
        /\ packages[k].current /\ packages[k].version = theCurrent(versions, a)
        /\ packages[k].render = versions[packages[k].version].render

(* The screenshots in a package show the page it is about, as long as no other
   command rendered into the same directory meanwhile. *)
ScreenshotsShowTheRender ==
  \A k \in DOMAIN packages : packages[k].alone => packages[k].shots = {packages[k].render}

(* A page that may be deployed is the one the human approved and the one the
   automatic review passed. *)
ApprovedPageWasSeen ==
  \A k \in DOMAIN approvals :
    isHumanDeploymentApproved(k) =>
      \A x \in approvals[k].decisions : x.bound[2] = approvals[k].render

(* Versions, packages and approvals speak of the same page. *)
StoreSound ==
  StoreTypeOK /\ VersionsFormOneChain /\ PendingReviewHasPackage /\ ScreenshotsShowTheRender /\ ApprovedPageWasSeen

(***************************************************************************)
(* The inductive invariant                                                 *)
(***************************************************************************)
(* A session that rendered alone finds its own page in the directory, and one that
   adds a version has read the version before it. *)
EditorIsSound(s) ==
  /\ s.pc # "idle" => s.render \in Renders
  /\ s.pc \in {"rendered", "shot", "seeded", "founded"} =>
       /\ s.dir \in OutDirs
       /\ s.alone => outDir[s.dir] = s.render /\ s.shots \subseteq {s.render}
  /\ s.pc \in {"shot", "seeded", "founded"} /\ s.alone => s.shots = {s.render}
  /\ s.pc = "rerender" =>
       s.shots = {s.render} /\ s.prior \in versionsOf(s.artifact) /\ s.no = versions[s.prior].no + 1

(* The versions of an artifact have the numbers from one to their count, each
   once; the last is current, and the others name their successors. *)
VersionsAreNumbered ==
  \A k \in DOMAIN versions :
    LET v == versions[k] count == Cardinality(versionsOf(v.artifact)) IN
    /\ v.no \in 1..count
    /\ v.current <=> v.no = count
    /\ ~ v.current => v.by \in versionsOf(v.artifact) /\ versions[v.by].no = v.no + 1
    /\ \A m \in versionsOf(v.artifact) : versions[m].no = v.no => m = k
    /\ \A n \in 1..count : \E m \in versionsOf(v.artifact) : versions[m].no = n

(* Every current version has its current package, and an artifact that waits for
   its review has a current version. *)
PackagesFollowVersions ==
  /\ \A k \in DOMAIN packages :
       packages[k].version \in DOMAIN versions /\ packages[k].render = versions[packages[k].version].render
  /\ \A v \in DOMAIN versions :
       versions[v].current => \E k \in DOMAIN packages : packages[k].current /\ packages[k].version = v
  /\ \A a \in DOMAIN artifacts : artifacts[a] = "AUTO_REVIEW_PENDING" => currentOf(versions, a) # {}

DecisionsAreBound ==
  \A k \in DOMAIN approvals : \A x \in approvals[k].decisions : assertDecisionBindings(x.bound, k)

StoreInv ==
  /\ \A e \in Editors : EditorIsSound(editor[e])
  /\ VersionsAreNumbered /\ PackagesFollowVersions /\ ScreenshotsShowTheRender /\ DecisionsAreBound

=============================================================================
