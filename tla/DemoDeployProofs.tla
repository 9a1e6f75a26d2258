-------------------------- MODULE DemoDeployProofs --------------------------
(***************************************************************************)
(* Theorems about DemoDeploy, for any number of leads, sessions, pages,    *)
(* demos, drafts and deploys, any daily limit, and any number of crashes.  *)
(***************************************************************************)
EXTENDS DemoDeploy, SequenceTheorems, WellFoundedInduction, TLAPS

(***************************************************************************)
(* Types                                                                   *)
(***************************************************************************)
LEMMA Typed ==
  ASSUME DeployTypeOK
  PROVE  /\ leadAt \in [Leads -> LeadStatuses] /\ page \in [Leads -> Pages \cup {"none"}]
         /\ demos \in [Leads -> Seq(Demo)] /\ drafts \in [Leads -> Seq(Decisions)]
         /\ runs \in Seq(DeploymentRun) /\ hosted \in Seq(Hosted) /\ finals \in Seq(Final)
         /\ Len(runs) \in Nat /\ Len(hosted) \in Nat /\ Len(finals) \in Nat
         /\ DOMAIN runs = 1..Len(runs) /\ DOMAIN hosted = 1..Len(hosted)
         /\ DOMAIN finals = 1..Len(finals)
         /\ \A r \in DOMAIN runs : runs[r] \in DeploymentRun /\ runs[r].deploy \in 0..Len(hosted)
         /\ \A d \in DOMAIN hosted : hosted[d] \in Hosted
         /\ \A f \in DOMAIN finals : finals[f] \in Final /\ finals[f].run \in DOMAIN runs
         /\ \A l \in Leads : /\ Len(demos[l]) \in Nat /\ DOMAIN demos[l] = 1..Len(demos[l])
                             /\ Len(drafts[l]) \in Nat /\ DOMAIN drafts[l] = 1..Len(drafts[l])
                             /\ \A i \in DOMAIN demos[l] : demos[l][i] \in Demo
         /\ deployer \in [Sessions -> Deployer] /\ approvedPages \subseteq Pages
<1>1. \A r \in DOMAIN runs : runs[r] \in DeploymentRun
  BY DEF DeployTypeOK
<1>2. \A r \in DOMAIN runs : runs[r].deploy \in 0..Len(hosted)
  BY <1>1 DEF DeployTypeOK, DeploymentRun
<1>3. \A l \in Leads : demos[l] \in Seq(Demo) /\ drafts[l] \in Seq(Decisions)
  BY DEF DeployTypeOK
<1> QED
  BY <1>1, <1>2, <1>3 DEF DeployTypeOK

LEMMA DeployerTypes ==
  ASSUME NEW s \in Deployer
  PROVE  /\ s.op \in DeployOps /\ s.lead \in Leads \cup {"none"} /\ s.page \in Pages \cup {"none"}
         /\ s.upload \in Pages \cup {"none"} /\ s.row \in Nat /\ s.run \in Nat /\ s.deploy \in Nat
         /\ s.about \in {"none", "composer", "template", "demo", "email", "final"}
         /\ s.verified \in BOOLEAN /\ s.decision \in Decisions
         /\ s.route \in {"keep"} \cup LeadStatuses
BY DEF Deployer

LEMMA Routes ==
  {"NEEDS_MANUAL_REVIEW", "FINALIZED_EMAIL_PENDING", "DEMO_DECIDED", "DEMO_READY", "HUMAN_APPROVED",
   "REJECTED", "WAITING_FOR_DEMO_URL", "OPPORTUNITY_READY"} \subseteq LeadStatuses
BY DEF LeadStatuses

LEMMA NobodyTyped == NoDeployer \in Deployer
BY DEF NoDeployer, Deployer, DeployOps, Decisions

(* The latest of some rows is one of them. *)
LEMMA LatestRow ==
  ASSUME NEW n \in Nat, NEW S, S \subseteq 0..n, S # {} PROVE Max(S) \in S
<1> DEFINE T == {n - a : a \in S}
<1>1. T \subseteq Nat /\ T # {} /\ S \subseteq Int
  <2>1. \A a \in S : a \in Int /\ n - a \in Nat
    OBVIOUS
  <2>2. PICK a \in S : TRUE
    OBVIOUS
  <2>3. n - a \in T
    BY <2>2
  <2> QED BY <2>1, <2>3
<1>2. PICK x \in T : \A y \in T : ~ (<<y, x>> \in OpToRel(<, Nat))
  <2> HIDE DEF T
  <2> QED BY <1>1, NatLessThanWellFounded, WFMin
<1>3. \A y \in T : ~ (y < x)
  BY <1>1, <1>2 DEF OpToRel
<1>4. PICK a \in S : x = n - a
  OBVIOUS
<1>5. \A b \in S : a >= b
  <2> TAKE b \in S
  <2>1. ~ (n - b < x)
    BY <1>3
  <2> QED BY <2>1, <1>1, <1>4
<1> QED
  BY <1>5 DEF Max

LEMMA LatestRows ==
  ASSUME DeployTypeOK
  PROVE  /\ \A l \in Leads : /\ latestFinalization(l) \in 0..Len(finals)
                             /\ latestFinalization(l) # 0 => finals[latestFinalization(l)].lead = l
         /\ \A p : /\ findReservedByFingerprint(p) \in 0..Len(runs)
                   /\ titled(p) # {} => Max(titled(p)) \in 1..Len(hosted)
<1>1. ASSUME NEW l \in Leads
      PROVE  /\ latestFinalization(l) \in 0..Len(finals)
             /\ latestFinalization(l) # 0 => finals[latestFinalization(l)].lead = l
  <2> DEFINE S == {0} \cup {f \in DOMAIN finals : finals[f].lead = l}
  <2>1. S \subseteq 0..Len(finals) /\ S # {} /\ Len(finals) \in Nat
    BY Typed
  <2>2. Max(S) \in S
    <3> HIDE DEF S
    <3> QED BY <2>1, LatestRow
  <2> QED BY <2>1, <2>2 DEF latestFinalization
<1>2. ASSUME NEW p PROVE findReservedByFingerprint(p) \in 0..Len(runs)
  <2> DEFINE S == {0} \cup {r \in DOMAIN runs : runs[r].page = p /\ runs[r].outcome # "DEPLOYED_AND_VERIFIED"}
  <2>1. S \subseteq 0..Len(runs) /\ S # {} /\ Len(runs) \in Nat
    BY Typed
  <2>2. Max(S) \in S
    <3> HIDE DEF S
    <3> QED BY <2>1, LatestRow
  <2> QED BY <2>1, <2>2 DEF findReservedByFingerprint
<1>3. ASSUME NEW p, titled(p) # {} PROVE Max(titled(p)) \in 1..Len(hosted)
  <2>1. titled(p) \subseteq 1..Len(hosted) /\ Len(hosted) \in Nat
    BY Typed DEF titled
  <2>2. titled(p) \subseteq 0..Len(hosted)
    BY <2>1
  <2> QED BY <1>3, <2>1, <2>2, LatestRow
<1> QED
  BY <1>1, <1>2, <1>3

(***************************************************************************)
(* What sessions hold                                                      *)
(***************************************************************************)
(* DeployerIsSound, of the tables and the deploys it is told. *)
Serves(d, H, A) == d \in DOMAIN H /\ H[d].files /\ H[d].content \in A

Holds(s, D, E, R, H, F, A) ==
  /\ s.op # "idle" => s.lead \in Leads
  /\ s.op \in {"compose", "demo", "demoRead"} => s.about \in {"composer", "template"}
  /\ s.op = "decide" => s.about \in {"email", "final"}
  /\ s.op \in {"decide", "decideRead"} =>
       /\ s.about \in {"demo", "email", "final"} /\ s.decision # "none"
       /\ s.about = "demo" => s.row \in DOMAIN D[s.lead] /\ D[s.lead][s.row].page \in Pages
       /\ s.about = "email" => s.row \in DOMAIN E[s.lead]
       /\ s.about = "final" => s.row \in DOMAIN F /\ F[s.row].lead = s.lead
  /\ s.op = "decideRead" /\ s.about = "final" =>
       s.route = IF s.decision = "APPROVED" THEN "HUMAN_APPROVED" ELSE "REJECTED"
  /\ s.route = "HUMAN_APPROVED" => s.op = "decideRead" /\ s.about = "final"
  /\ s.op \in Uploading => s.page \in A
  /\ s.op \in {"find", "reserve", "create"} => s.upload \in Pages
  /\ s.op \in {"create", "setId", "poll", "verify"} => s.run # 0
  /\ s.op \in {"setId", "poll", "verify"} => s.deploy # 0
  /\ s.op = "verify" => H[s.deploy].files
  /\ s.verified => s.op \in {"record", "recordRead"} /\ s.run # 0 /\ Serves(s.deploy, H, A)
  /\ s.run \in 0..Len(R) /\ s.deploy \in 0..Len(H)

HoldsNow(s) == Holds(s, demos, drafts, runs, hosted, finals, approvedPages)

LEMMA SoundSessions ==
  /\ DeployersAreSound <=> \A w \in Sessions : HoldsNow(deployer[w])
  /\ DeployersAreSound' <=>
       \A w \in Sessions : Holds(deployer'[w], demos', drafts', runs', hosted', finals', approvedPages')
BY DEF DeployersAreSound, DeployerIsSound, HoldsNow, Holds, serves, Serves

LEMMA NothingHeld ==
  ASSUME NEW D, NEW E, NEW R, NEW H, NEW F, NEW A, Len(R) \in Nat, Len(H) \in Nat
  PROVE  Holds(NoDeployer, D, E, R, H, F, A)
BY DEF Holds, NoDeployer, Uploading

(* Rows are added, and a page, a lead, a deploy or an approval on record stays. *)
Grows ==
  /\ \A l \in Leads : \A i \in DOMAIN demos[l] : i \in DOMAIN demos'[l] /\ demos'[l][i].page = demos[l][i].page
  /\ \A l \in Leads : DOMAIN drafts[l] \subseteq DOMAIN drafts'[l]
  /\ Len(runs') \in Nat /\ Len(runs) <= Len(runs')
  /\ Len(hosted') \in Nat /\ Len(hosted) <= Len(hosted')
  /\ \A d \in DOMAIN hosted : d \in DOMAIN hosted' /\ hosted'[d] = hosted[d]
  /\ \A f \in DOMAIN finals : f \in DOMAIN finals' /\ finals'[f].lead = finals[f].lead
  /\ approvedPages \subseteq approvedPages'

LEMMA StaysHeld ==
  ASSUME DeployTypeOK, Grows, NEW s \in Deployer, HoldsNow(s)
  PROVE  Holds(s, demos', drafts', runs', hosted', finals', approvedPages')
<1>1. s.deploy # 0 => s.deploy \in DOMAIN hosted
  BY Typed DEF HoldsNow, Holds
<1>2. s.run \in 0..Len(runs') /\ s.deploy \in 0..Len(hosted')
  BY Typed DEF HoldsNow, Holds, Grows
<1>3. s.op = "verify" => s.deploy # 0 /\ hosted'[s.deploy].files
  BY <1>1 DEF HoldsNow, Holds, Grows
<1>4. s.verified => s.op \in {"record", "recordRead"} /\ s.run # 0 /\ Serves(s.deploy, hosted', approvedPages')
  BY DEF HoldsNow, Holds, Serves, Grows
<1>5. s.op \in {"decide", "decideRead"} =>
       /\ s.about \in {"demo", "email", "final"} /\ s.decision # "none"
       /\ s.about = "demo" => s.row \in DOMAIN demos'[s.lead] /\ demos'[s.lead][s.row].page \in Pages
       /\ s.about = "email" => s.row \in DOMAIN drafts'[s.lead]
       /\ s.about = "final" => s.row \in DOMAIN finals' /\ finals'[s.row].lead = s.lead
  <2>1. s.op \in {"decide", "decideRead"} => s.lead \in Leads
    BY DEF HoldsNow, Holds
  <2> QED BY <2>1 DEF HoldsNow, Holds, Grows
<1>6. s.op \in Uploading => s.page \in approvedPages'
  BY DEF HoldsNow, Holds, Grows
<1> QED
  BY <1>2, <1>3, <1>4, <1>5, <1>6 DEF HoldsNow, Holds

LEMMA Held ==
  ASSUME DeployTypeOK, DeployInv, NEW w \in Sessions
  PROVE  deployer[w] \in Deployer /\ HoldsNow(deployer[w])
BY SoundSessions, Typed DEF DeployInv

LEMMA OthersKeep ==
  ASSUME DeployTypeOK, DeployInv, Grows, deployer' = deployer
  PROVE  DeployersAreSound'
<1>1. \A w \in Sessions : Holds(deployer'[w], demos', drafts', runs', hosted', finals', approvedPages')
  BY Held, StaysHeld
<1> QED
  BY <1>1, SoundSessions

LEMMA SessionKeeps ==
  ASSUME DeployTypeOK, DeployInv, Grows, NEW w \in Sessions, NEW local \in Deployer, Turn(w, local),
         Holds(local, demos', drafts', runs', hosted', finals', approvedPages')
  PROVE  deployer' \in [Sessions -> Deployer] /\ DeployersAreSound'
<1>1. /\ deployer' \in [Sessions -> Deployer] /\ deployer'[w] = local
      /\ \A v \in Sessions \ {w} : deployer'[v] = deployer[v]
  BY Typed DEF Turn
<1>2. \A v \in Sessions : Holds(deployer'[v], demos', drafts', runs', hosted', finals', approvedPages')
  <2> TAKE v \in Sessions
  <2>1. CASE v = w
    BY <1>1, <2>1
  <2>2. CASE v # w
    BY <1>1, <2>2, Held, StaysHeld
  <2> QED BY <2>1, <2>2
<1> QED
  BY <1>1, <1>2, SoundSessions

(***************************************************************************)
(* What a step does to the rows                                            *)
(***************************************************************************)
LEMMA ServingStays ==
  ASSUME Grows, NEW d, serves(d) PROVE Serves(d, hosted', approvedPages')
BY DEF Grows, serves, Serves

LEMMA SoundLinks ==
  LinkServesApprovedPage' <=> \A f \in DOMAIN finals' : Serves(finals'[f].deploy, hosted', approvedPages')
BY DEF LinkServesApprovedPage, serves, Serves

(* An e-mail on record keeps its link ... *)
LEMMA LinksStay ==
  ASSUME DeployInv, Grows,
         \A f \in DOMAIN finals' : \/ f \in DOMAIN finals /\ finals'[f].deploy = finals[f].deploy
                                   \/ Serves(finals'[f].deploy, hosted', approvedPages')
  PROVE  LinkServesApprovedPage'
<1> SUFFICES ASSUME NEW f \in DOMAIN finals' PROVE Serves(finals'[f].deploy, hosted', approvedPages')
  BY SoundLinks
<1>1. CASE f \in DOMAIN finals /\ finals'[f].deploy = finals[f].deploy
  <2>1. serves(finals[f].deploy)
    BY <1>1 DEF DeployInv, LinkServesApprovedPage
  <2> QED BY <1>1, <2>1, ServingStays
<1> QED
  BY <1>1

LEMMA SoundRuns ==
  RunsAreSound' <=>
    \A r \in DOMAIN runs' : runs'[r].outcome = "DEPLOYED_AND_VERIFIED" =>
      Serves(runs'[r].verified, hosted', approvedPages')
BY DEF RunsAreSound, serves, Serves

(* ... a verified run its deploy ... *)
LEMMA RunsStay ==
  ASSUME DeployInv, Grows,
         \A r \in DOMAIN runs' : runs'[r].outcome = "DEPLOYED_AND_VERIFIED" =>
           \/ /\ r \in DOMAIN runs /\ runs[r].outcome = "DEPLOYED_AND_VERIFIED"
              /\ runs'[r].verified = runs[r].verified
           \/ Serves(runs'[r].verified, hosted', approvedPages')
  PROVE  RunsAreSound'
<1> SUFFICES ASSUME NEW r \in DOMAIN runs', runs'[r].outcome = "DEPLOYED_AND_VERIFIED"
             PROVE  Serves(runs'[r].verified, hosted', approvedPages')
  BY SoundRuns
<1>1. CASE /\ r \in DOMAIN runs /\ runs[r].outcome = "DEPLOYED_AND_VERIFIED"
           /\ runs'[r].verified = runs[r].verified
  <2>1. serves(runs[r].verified)
    BY <1>1 DEF DeployInv, RunsAreSound
  <2> QED BY <1>1, <2>1, ServingStays
<1> QED
  BY <1>1

(* ... a demo its page, approved or not ... *)
LEMMA DemosStay ==
  ASSUME DeployInv, Grows, UNCHANGED demos PROVE DemosAreSound'
BY DEF DeployInv, DemosAreSound, Grows

(* ... and a lead its approval. *)
LEMMA ApprovalsStay ==
  ASSUME DeployInv, \A f \in DOMAIN finals : f \in DOMAIN finals' /\ finals'[f] = finals[f],
         \A l \in Leads : leadAt'[l] = "HUMAN_APPROVED" => leadAt[l] = "HUMAN_APPROVED"
  PROVE  SecondApprovalStands'
BY DEF DeployInv, SecondApprovalStands

(***************************************************************************)
(* The steps that only read                                                *)
(***************************************************************************)
tables == <<demos, drafts, runs, hosted, finals, approvedPages>>

LEMMA QuietGrows ==
  ASSUME DeployTypeOK, UNCHANGED tables PROVE Grows
BY Typed DEF Grows, tables

LEMMA QuietRows ==
  ASSUME DeployInv, UNCHANGED tables PROVE DemosAreSound' /\ RunsAreSound' /\ LinkServesApprovedPage'
BY DEF DeployInv, DemosAreSound, RunsAreSound, LinkServesApprovedPage, serves, tables

LEMMA ReadKeeps ==
  ASSUME DeployTypeOK, DeployInv, NEW w \in Sessions, NEW local \in Deployer, Turn(w, local),
         UNCHANGED <<leadAt, tables>>, page' \in [Leads -> Pages \cup {"none"}],
         deployEvents' \in 0..MaxDeployEvents, HoldsNow(local)
  PROVE  DeployTypeOK' /\ DeployInv'
<1>1. Grows /\ DemosAreSound' /\ RunsAreSound' /\ LinkServesApprovedPage'
  BY QuietGrows, QuietRows
<1>2. Holds(local, demos', drafts', runs', hosted', finals', approvedPages')
  BY DEF HoldsNow, tables
<1>3. deployer' \in [Sessions -> Deployer] /\ DeployersAreSound'
  BY <1>1, <1>2, SessionKeeps
<1>4. SecondApprovalStands'
  BY DEF DeployInv, SecondApprovalStands, tables
<1>5. DeployTypeOK'
  BY <1>3 DEF DeployTypeOK, tables
<1> QED
  BY <1>1, <1>3, <1>4, <1>5 DEF DeployInv

(* ... and those that change nothing but what the session holds. *)
LEMMA LookKeeps ==
  ASSUME DeployTypeOK, DeployInv, NEW w \in Sessions, NEW local \in Deployer, Turn(w, local),
         UNCHANGED <<leadAt, page, hosted, records, deployEvents>>, HoldsNow(local)
  PROVE  DeployTypeOK' /\ DeployInv'
<1>1. page' \in [Leads -> Pages \cup {"none"}] /\ deployEvents' \in 0..MaxDeployEvents
  BY DEF DeployTypeOK
<1>2. UNCHANGED <<leadAt, tables>>
  BY DEF tables, records
<1> QED BY <1>1, <1>2, ReadKeeps

LEMMA RestKeeps ==
  ASSUME DeployTypeOK, DeployInv, NEW w \in Sessions, Done(w),
         UNCHANGED <<leadAt, page, hosted, records>>, deployEvents' \in 0..MaxDeployEvents
  PROVE  DeployTypeOK' /\ DeployInv'
<1>1. NoDeployer \in Deployer /\ HoldsNow(NoDeployer) /\ Turn(w, NoDeployer)
  BY NobodyTyped, NothingHeld, Typed DEF HoldsNow, Done
<1>2. page' \in [Leads -> Pages \cup {"none"}]
  BY DEF DeployTypeOK
<1>3. UNCHANGED <<leadAt, tables>>
  BY DEF tables, records
<1> QED BY <1>1, <1>2, <1>3, ReadKeeps

(* A session that takes up a lead holds nothing else. *)
LEMMA Taken ==
  ASSUME DeployTypeOK, NEW l \in Leads, NEW s \in Deployer,
         s.lead = l, s.run = 0, s.deploy = 0, s.route = "keep", ~ s.verified,
         \/ s.op = "compose" /\ s.about \in {"composer", "template"}
         \/ s.op = "input"
         \/ /\ s.op = "decide" /\ s.about = "email" /\ s.row \in DOMAIN drafts[l] /\ s.decision # "none"
         \/ /\ s.op = "decide" /\ s.about = "final" /\ s.row \in DOMAIN finals /\ finals[s.row].lead = l
            /\ s.decision # "none"
         \/ /\ s.op = "decideRead" /\ s.about = "demo" /\ s.row \in DOMAIN demos[l]
            /\ demos[l][s.row].page \in Pages /\ s.decision # "none"
  PROVE  HoldsNow(s)
<1>1. s.run \in 0..Len(runs) /\ s.deploy \in 0..Len(hosted)
  BY Typed
<1> QED BY <1>1 DEF HoldsNow, Holds, Uploading

LEMMA composeBeginKeeps ==
  ASSUME DeployTypeOK, DeployInv, NEW w \in Sessions, NEW l \in Leads, composeBegin(w, l)
  PROVE  DeployTypeOK' /\ DeployInv'
<1>1. PICK by \in {"composer", "template"} :
        Turn(w, [NoDeployer EXCEPT !.op = "compose", !.lead = l, !.about = by])
  BY DEF composeBegin
<1> DEFINE local == [NoDeployer EXCEPT !.op = "compose", !.lead = l, !.about = by]
<1>2. local \in Deployer
  BY DEF NoDeployer, Deployer, DeployOps, Decisions
<1>3. /\ local.op = "compose" /\ local.lead = l /\ local.about \in {"composer", "template"}
      /\ local.run = 0 /\ local.deploy = 0 /\ local.route = "keep" /\ ~ local.verified
  BY DEF NoDeployer
<1> HIDE DEF local
<1>4. HoldsNow(local)
  BY <1>2, <1>3, Taken
<1> QED BY <1>1, <1>2, <1>4, LookKeeps DEF composeBegin, local

LEMMA deployDemosKeeps ==
  ASSUME DeployTypeOK, DeployInv, NEW w \in Sessions, NEW l \in Leads, deployDemos(w, l)
  PROVE  DeployTypeOK' /\ DeployInv'
<1> DEFINE local == [NoDeployer EXCEPT !.op = "input", !.lead = l]
<1>1. local \in Deployer
  BY DEF NoDeployer, Deployer, DeployOps, Decisions
<1>2. local.op = "input" /\ local.lead = l /\ local.run = 0 /\ local.deploy = 0 /\ local.route = "keep" /\ ~ local.verified
  BY DEF NoDeployer
<1>3. Turn(w, local)
  BY DEF deployDemos
<1> HIDE DEF local
<1>4. HoldsNow(local)
  BY <1>1, <1>2, Taken
<1> QED BY <1>1, <1>3, <1>4, LookKeeps DEF deployDemos

LEMMA decideDemoKeeps ==
  ASSUME DeployTypeOK, DeployInv, NEW w \in Sessions, NEW l \in Leads, decideDemo(w, l)
  PROVE  DeployTypeOK' /\ DeployInv'
<1>1. PICK decision \in {"APPROVED", "REJECTED"} :
        Turn(w, [NoDeployer EXCEPT !.op = "decideRead", !.lead = l, !.about = "demo", !.row = Len(demos[l]),
                                   !.decision = decision])
  BY DEF decideDemo
<1> DEFINE local == [NoDeployer EXCEPT !.op = "decideRead", !.lead = l, !.about = "demo", !.row = Len(demos[l]),
                                       !.decision = decision]
<1>2. Len(demos[l]) \in DOMAIN demos[l]
  BY Typed DEF decideDemo
<1>3. demos[l][Len(demos[l])].page \in Pages
  BY <1>2 DEF decideDemo, latestDemo, DeployInv, DemosAreSound
<1>4. local \in Deployer
  BY <1>2, Typed DEF NoDeployer, Deployer, DeployOps, Decisions
<1>5. /\ local.op = "decideRead" /\ local.lead = l /\ local.about = "demo" /\ local.row = Len(demos[l])
      /\ local.decision # "none" /\ local.run = 0 /\ local.deploy = 0 /\ local.route = "keep" /\ ~ local.verified
  BY DEF NoDeployer
<1> HIDE DEF local
<1>6. HoldsNow(local)
  BY <1>2, <1>3, <1>4, <1>5, Taken
<1> QED BY <1>1, <1>4, <1>6, LookKeeps DEF decideDemo, local

LEMMA askedKeeps ==
  ASSUME DeployTypeOK, DeployInv, NEW w \in Sessions, NEW l \in Leads, NEW about, NEW row \in Nat, NEW decision,
         decision \in {"APPROVED", "REJECTED"}, asked(w, l, about, row, decision),
         \/ about = "email" /\ row \in DOMAIN drafts[l]
         \/ about = "final" /\ row \in DOMAIN finals /\ finals[row].lead = l,
         UNCHANGED <<leadAt, page, hosted, records, deployEvents>>
  PROVE  DeployTypeOK' /\ DeployInv'
<1> DEFINE local == [NoDeployer EXCEPT !.op = "decide", !.lead = l, !.about = about, !.row = row,
                                       !.decision = decision]
<1>1. local \in Deployer
  BY DEF NoDeployer, Deployer, DeployOps, Decisions
<1>2. /\ local.op = "decide" /\ local.lead = l /\ local.about = about /\ local.row = row
      /\ local.decision # "none" /\ local.run = 0 /\ local.deploy = 0 /\ local.route = "keep" /\ ~ local.verified
  BY DEF NoDeployer
<1>3. Turn(w, local)
  BY DEF asked
<1> HIDE DEF local
<1>4. HoldsNow(local)
  BY <1>1, <1>2, Taken
<1> QED BY <1>1, <1>3, <1>4, LookKeeps

LEMMA decideEmailKeeps ==
  ASSUME DeployTypeOK, DeployInv, NEW w \in Sessions, NEW l \in Leads, decideEmail(w, l)
  PROVE  DeployTypeOK' /\ DeployInv'
<1>1. PICK decision \in {"APPROVED", "REJECTED"} :
        drafts[l] # <<>> /\ asked(w, l, "email", Len(drafts[l]), decision)
  BY DEF decideEmail
<1>2. Len(drafts[l]) \in Nat /\ Len(drafts[l]) \in DOMAIN drafts[l]
  BY <1>1, Typed
<1> QED BY <1>1, <1>2, askedKeeps DEF decideEmail

LEMMA decideFinalizedEmailKeeps ==
  ASSUME DeployTypeOK, DeployInv, NEW w \in Sessions, NEW l \in Leads, decideFinalizedEmail(w, l)
  PROVE  DeployTypeOK' /\ DeployInv'
<1> DEFINE row == latestFinalization(l)
<1>1. PICK decision \in {"APPROVED", "REJECTED"} : asked(w, l, "final", row, decision)
  BY DEF decideFinalizedEmail
<1>2. row \in 0..Len(finals) /\ row # 0 /\ finals[row].lead = l
  BY LatestRows DEF decideFinalizedEmail
<1> HIDE DEF row
<1>3. row \in Nat /\ row \in DOMAIN finals
  BY <1>2, Typed
<1> QED BY <1>1, <1>2, <1>3, askedKeeps DEF decideFinalizedEmail

LEMMA composeKeeps ==
  ASSUME DeployTypeOK, DeployInv, NEW w \in Sessions, compose(w) \/ generate(w)
  PROVE  DeployTypeOK' /\ DeployInv'
<1> DEFINE s == deployer[w]
<1>1. s \in Deployer /\ HoldsNow(s)
  BY Held
<1> HIDE DEF s
<1>2. s.op = "compose" /\ s.lead \in Leads
  BY <1>1 DEF compose, generate, s, HoldsNow, Holds
<1>3. UNCHANGED <<leadAt, tables>> /\ deployEvents' \in 0..MaxDeployEvents
  BY DEF compose, generate, tables, records, DeployTypeOK
<1>4. /\ page' \in [Leads -> Pages \cup {"none"}]
      /\ \/ Done(w) /\ UNCHANGED <<leadAt, page, hosted, records>>
         \/ Turn(w, [s EXCEPT !.op = "demo"])
         \/ \E p \in Pages : Turn(w, [s EXCEPT !.op = "demo", !.page = p])
  BY <1>2 DEF compose, generate, DeployTypeOK, s
<1>5. CASE Done(w) /\ UNCHANGED <<leadAt, page, hosted, records>>
  BY <1>3, <1>5, RestKeeps
<1>6. CASE Turn(w, [s EXCEPT !.op = "demo"])
  <2> DEFINE local == [s EXCEPT !.op = "demo"]
  <2>1. local \in Deployer
    BY <1>1 DEF Deployer, DeployOps
  <2>2. HoldsNow(local)
    BY <1>1, <1>2 DEF HoldsNow, Holds, Uploading, Deployer
  <2> HIDE DEF local
  <2> QED BY <1>3, <1>4, <1>6, <2>1, <2>2, ReadKeeps DEF local
<1>7. ASSUME NEW p \in Pages, Turn(w, [s EXCEPT !.op = "demo", !.page = p])
      PROVE  DeployTypeOK' /\ DeployInv'
  <2> DEFINE local == [s EXCEPT !.op = "demo", !.page = p]
  <2>1. local \in Deployer
    BY <1>1 DEF Deployer, DeployOps
  <2>2. HoldsNow(local)
    BY <1>1, <1>2 DEF HoldsNow, Holds, Uploading, Deployer
  <2>3. Turn(w, local)
    BY <1>7
  <2> HIDE DEF local
  <2> QED BY <1>3, <1>4, <2>1, <2>2, <2>3, ReadKeeps
<1> QED
  BY <1>4, <1>5, <1>6, <1>7

LEMMA demoReadKeeps ==
  ASSUME DeployTypeOK, DeployInv, NEW w \in Sessions, demoRead(w)
  PROVE  DeployTypeOK' /\ DeployInv'
<1> DEFINE s == deployer[w]
           route == IF leadAt[s.lead] # "OPPORTUNITY_READY" THEN "keep"
                    ELSE IF s.page = "none" THEN "DEMO_DECIDED" ELSE "DEMO_READY"
           local == [s EXCEPT !.op = "demoRead", !.route = route]
<1>1. s \in Deployer /\ HoldsNow(s) /\ s.op = "demo"
  BY Held DEF demoRead
<1>2. Turn(w, local)
  BY DEF demoRead
<1>3. route \in {"keep", "DEMO_DECIDED", "DEMO_READY"}
  OBVIOUS
<1> HIDE DEF s, route
<1>4. local \in Deployer
  BY <1>1, <1>3, Routes DEF Deployer, DeployOps
<1>5. HoldsNow(local)
  BY <1>1, <1>3 DEF HoldsNow, Holds, Uploading, Deployer
<1> HIDE DEF local
<1> QED BY <1>2, <1>4, <1>5, LookKeeps DEF demoRead

LEMMA decideReadKeeps ==
  ASSUME DeployTypeOK, DeployInv, NEW w \in Sessions, decideRead(w)
  PROVE  DeployTypeOK' /\ DeployInv'
<1> DEFINE s == deployer[w]
           wanted == IF s.about = "final" /\ s.decision = "APPROVED" THEN "HUMAN_APPROVED" ELSE "REJECTED"
<1>1. s \in Deployer /\ HoldsNow(s) /\ s.op = "decide"
  BY Held DEF decideRead
<1>2. \/ s.about = "email" /\ s.decision = "APPROVED" /\ Turn(w, [s EXCEPT !.op = "decideRead"])
      \/ Turn(w, [s EXCEPT !.op = "decideRead", !.route = wanted])
      \/ Done(w)
  BY DEF decideRead
<1>3. UNCHANGED <<leadAt, page, hosted, records, deployEvents>>
  BY DEF decideRead
<1> HIDE DEF s
<1>4. CASE s.about = "email" /\ s.decision = "APPROVED" /\ Turn(w, [s EXCEPT !.op = "decideRead"])
  <2> DEFINE local == [s EXCEPT !.op = "decideRead"]
  <2>1. local \in Deployer
    BY <1>1 DEF Deployer, DeployOps
  <2>2. HoldsNow(local)
    BY <1>1, <1>4 DEF HoldsNow, Holds, Uploading, Deployer
  <2> HIDE DEF local
  <2> QED BY <1>3, <1>4, <2>1, <2>2, LookKeeps DEF local
<1>5. CASE Turn(w, [s EXCEPT !.op = "decideRead", !.route = wanted])
  <2> DEFINE local == [s EXCEPT !.op = "decideRead", !.route = wanted]
  <2>1. local \in Deployer
    BY <1>1, Routes DEF Deployer, DeployOps
  <2>2. s.decision \in {"APPROVED", "REJECTED"}
    BY <1>1 DEF HoldsNow, Holds, Deployer, Decisions
  <2>3. HoldsNow(local)
    BY <1>1, <2>2 DEF HoldsNow, Holds, Uploading, Deployer
  <2> HIDE DEF local
  <2> QED BY <1>3, <1>5, <2>1, <2>3, LookKeeps DEF local
<1>6. CASE Done(w)
  BY <1>3, <1>6, RestKeeps DEF DeployTypeOK
<1> QED
  BY <1>2, <1>4, <1>5, <1>6

(***************************************************************************)
(* The steps of a deployment that only read                                *)
(***************************************************************************)
LEMMA RecordedHolds ==
  ASSUME DeployTypeOK, NEW s \in Deployer, s.lead \in Leads, s.run \in 0..Len(runs), s.deploy \in 0..Len(hosted),
         s.verified => s.run # 0 /\ serves(s.deploy),
         NEW route \in {"keep", "NEEDS_MANUAL_REVIEW", "FINALIZED_EMAIL_PENDING"}
  PROVE  recorded(s, route) \in Deployer /\ HoldsNow(recorded(s, route))
<1> DEFINE local == recorded(s, route)
<1>1. local \in Deployer
  BY Routes DEF recorded, Deployer, DeployOps
<1>2. /\ local.op = "record" /\ local.lead = s.lead /\ local.run = s.run /\ local.deploy = s.deploy
      /\ local.verified = s.verified /\ local.route = route
  BY DEF recorded, Deployer
<1> HIDE DEF local
<1>3. HoldsNow(local)
  BY <1>1, <1>2 DEF HoldsNow, Holds, Uploading, serves, Serves
<1> QED
  BY <1>1, <1>3 DEF local

LEMMA recordedKeeps ==
  ASSUME DeployTypeOK, DeployInv, NEW w \in Sessions,
         NEW s \in Deployer, s.lead \in Leads, s.run \in 0..Len(runs), s.deploy \in 0..Len(hosted),
         s.verified => s.run # 0 /\ serves(s.deploy),
         NEW route \in {"keep", "NEEDS_MANUAL_REVIEW", "FINALIZED_EMAIL_PENDING"}, Turn(w, recorded(s, route)),
         UNCHANGED <<leadAt, page, hosted, records, deployEvents>>
  PROVE  DeployTypeOK' /\ DeployInv'
BY RecordedHolds, LookKeeps

LEMMA checkEligibilityKeeps ==
  ASSUME DeployTypeOK, DeployInv, NEW w \in Sessions, checkEligibility(w)
  PROVE  DeployTypeOK' /\ DeployInv'
<1> DEFINE l == deployer[w].lead
           prior == IF latestDemo(l).by = "composer" THEN existingVerified(latestDemo(l).page) ELSE {}
           s == [deployer[w] EXCEPT !.page = page[l], !.row = Len(drafts[l])]
           r == CHOOSE x \in prior : TRUE
           reused == [s EXCEPT !.run = r, !.deploy = runs[r].verified, !.verified = TRUE, !.about = "email"]
<1>1. deployer[w] \in Deployer /\ HoldsNow(deployer[w]) /\ deployer[w].op = "input"
  BY Held DEF checkEligibility
<1>2. l \in Leads
  BY <1>1 DEF HoldsNow, Holds
<1>3. UNCHANGED <<leadAt, page, hosted, records, deployEvents>>
  BY DEF checkEligibility
<1>4. \/ Done(w)
      \/ demos[l] # <<>> /\ prior # {} /\ Turn(w, recorded(reused, "FINALIZED_EMAIL_PENDING"))
      \/ Turn(w, recorded(s, "NEEDS_MANUAL_REVIEW"))
      \/ Turn(w, recorded(s, "keep"))
      \/ /\ demos[l] # <<>> /\ artifactOK(l) /\ eligible(l)
         /\ Turn(w, [s EXCEPT !.op = "package"])
  BY DEF checkEligibility
<1>5. /\ s \in Deployer /\ s.lead = l /\ s.run = deployer[w].run /\ s.deploy = deployer[w].deploy
      /\ s.page = page[l] /\ s.route = deployer[w].route /\ s.op = "input" /\ s.verified = deployer[w].verified
  BY <1>1, <1>2, Typed DEF Deployer
<1>6. /\ s.run \in 0..Len(runs) /\ s.deploy \in 0..Len(hosted)
      /\ s.route # "HUMAN_APPROVED" /\ ~ s.verified
  BY <1>1, <1>5 DEF HoldsNow, Holds
<1>7. prior \subseteq DOMAIN runs /\ \A x \in prior : runs[x].outcome = "DEPLOYED_AND_VERIFIED"
  BY DEF existingVerified
<1>8. CASE prior # {} /\ Turn(w, recorded(reused, "FINALIZED_EMAIL_PENDING"))
  <2>1. r \in prior
    BY <1>8
  <2> HIDE DEF r, prior
  <2>2. r \in DOMAIN runs /\ r \in 1..Len(runs) /\ serves(runs[r].verified)
    BY <1>7, <2>1, Typed DEF DeployInv, RunsAreSound
  <2>3. runs[r].verified \in 1..Len(hosted) /\ Len(hosted) \in Nat /\ Len(runs) \in Nat
    BY <2>2, Typed DEF serves
  <2> HIDE DEF s
  <2>4. s \in Deployer /\ r \in Nat /\ runs[r].verified \in Nat
    BY <1>5, <2>2, <2>3
  <2>5. reused \in Deployer
    BY <2>4 DEF Deployer
  <2>6. reused.lead = l /\ reused.run = r /\ reused.deploy = runs[r].verified
    BY <1>5, <2>4 DEF Deployer
  <2> HIDE DEF reused
  <2> QED BY <1>2, <1>3, <1>8, <1>5, <2>2, <2>3, <2>5, <2>6, recordedKeeps
<1>9. CASE demos[l] # <<>> /\ artifactOK(l) /\ eligible(l) /\ Turn(w, [s EXCEPT !.op = "package"])
  <2> DEFINE local == [s EXCEPT !.op = "package"]
  <2>1. Len(demos[l]) \in DOMAIN demos[l]
    BY <1>2, <1>9, Typed
  <2>2. page[l] \in approvedPages
    BY <1>2, <1>9, <2>1 DEF artifactOK, eligible, latestDemo, DeployInv, DemosAreSound
  <2> HIDE DEF s
  <2>3. local \in Deployer
    BY <1>5 DEF Deployer, DeployOps
  <2>4. /\ local.op = "package" /\ local.lead = l /\ local.page = page[l] /\ local.run = s.run
        /\ local.deploy = s.deploy /\ local.route = s.route /\ local.verified = s.verified
    BY <1>5 DEF Deployer
  <2> HIDE DEF local
  <2>5. HoldsNow(local)
    BY <1>2, <1>6, <2>2, <2>4 DEF HoldsNow, Holds, Uploading
  <2> QED BY <1>3, <1>9, <2>3, <2>5, LookKeeps DEF local
<1>10. CASE Done(w)
  BY <1>3, <1>10, RestKeeps DEF DeployTypeOK
<1>11. \A route \in {"NEEDS_MANUAL_REVIEW", "keep"} :
         Turn(w, recorded(s, route)) => DeployTypeOK' /\ DeployInv'
  <2> HIDE DEF s
  <2> QED BY <1>2, <1>3, <1>5, <1>6, recordedKeeps
<1> QED
  BY <1>4, <1>5, <1>8, <1>9, <1>10, <1>11

(* A session at work on a deployment may give up with any route. *)
LEMMA GivesUp ==
  ASSUME DeployTypeOK, DeployInv, NEW w \in Sessions, deployer[w].op \in Uploading,
         NEW route \in {"keep", "NEEDS_MANUAL_REVIEW"}, Turn(w, recorded(deployer[w], route)),
         UNCHANGED <<leadAt, page, hosted, records, deployEvents>>
  PROVE  DeployTypeOK' /\ DeployInv'
<1> DEFINE s == deployer[w]
<1>1. s \in Deployer /\ HoldsNow(s)
  BY Held
<1> HIDE DEF s
<1>2. /\ s.lead \in Leads /\ s.run \in 0..Len(runs) /\ s.deploy \in 0..Len(hosted) /\ ~ s.verified
  BY <1>1 DEF HoldsNow, Holds, Uploading, s
<1> QED BY <1>1, <1>2, recordedKeeps DEF s

LEMMA buildDeployPackageKeeps ==
  ASSUME DeployTypeOK, DeployInv, NEW w \in Sessions, buildDeployPackage(w)
  PROVE  DeployTypeOK' /\ DeployInv'
<1> DEFINE s == deployer[w]
           r == findReservedByFingerprint(s.page)
           id == IF r = 0 THEN 0 ELSE runs[r].deploy
           local == [s EXCEPT !.op = IF id = 0 THEN "find" ELSE "poll", !.run = r, !.deploy = id,
                              !.upload = IF id = 0 THEN page[s.lead] ELSE "none"]
<1>1. s \in Deployer /\ HoldsNow(s) /\ s.op = "package" /\ s.op \in Uploading
  BY Held DEF buildDeployPackage, Uploading
<1>2. UNCHANGED <<leadAt, page, hosted, records, deployEvents>>
  BY DEF buildDeployPackage
<1>3. r \in 0..Len(runs)
  BY LatestRows
<1>4. \/ Turn(w, recorded(s, "NEEDS_MANUAL_REVIEW"))
      \/ page[s.lead] # "none" /\ Turn(w, local)
  BY DEF buildDeployPackage
<1>5. CASE Turn(w, recorded(s, "NEEDS_MANUAL_REVIEW"))
  BY <1>1, <1>2, <1>5, GivesUp
<1>6. CASE page[s.lead] # "none" /\ Turn(w, local)
  <2> HIDE DEF s, r
  <2>1. s.lead \in Leads /\ s.page \in approvedPages /\ s.route # "HUMAN_APPROVED" /\ ~ s.verified
    BY <1>1 DEF HoldsNow, Holds
  <2>2. page[s.lead] \in Pages /\ Len(runs) \in Nat /\ Len(hosted) \in Nat
    BY <1>6, <2>1, Typed
  <2>3. id \in 0..Len(hosted) /\ (id # 0 => r # 0)
    <3>1. r # 0 => r \in DOMAIN runs
      BY <1>3, Typed
    <3>2. r # 0 => runs[r].deploy \in 0..Len(hosted)
      BY <3>1, Typed
    <3> QED BY <2>2, <3>2
  <2> HIDE DEF id
  <2>4. local \in Deployer
    <3>1. r \in Nat /\ id \in Nat
      BY <1>3, <2>2, <2>3
    <3>2. (IF id = 0 THEN "find" ELSE "poll") \in DeployOps
      BY DEF DeployOps
    <3>3. (IF id = 0 THEN page[s.lead] ELSE "none") \in Pages \cup {"none"}
      BY <2>2
    <3> QED BY <1>1, <3>1, <3>2, <3>3 DEF Deployer
  <2>5. /\ local.op = (IF id = 0 THEN "find" ELSE "poll") /\ local.run = r /\ local.deploy = id
        /\ local.upload = (IF id = 0 THEN page[s.lead] ELSE "none")
        /\ local.lead = s.lead /\ local.page = s.page /\ local.route = s.route /\ local.verified = s.verified
    BY <1>1 DEF Deployer
  <2>6. Turn(w, local)
    BY <1>6
  <2> HIDE DEF local
  <2>7. HoldsNow(local)
    BY <1>3, <2>1, <2>2, <2>3, <2>5 DEF HoldsNow, Holds, Uploading
  <2> QED BY <1>2, <2>4, <2>6, <2>7, LookKeeps
<1> QED
  BY <1>4, <1>5, <1>6

LEMMA findDeployByFingerprintKeeps ==
  ASSUME DeployTypeOK, DeployInv, NEW w \in Sessions, findDeployByFingerprint(w)
  PROVE  DeployTypeOK' /\ DeployInv'
<1> DEFINE s == deployer[w]
<1>1. s \in Deployer /\ HoldsNow(s) /\ s.op = "find" /\ s.op \in Uploading
  BY Held DEF findDeployByFingerprint, Uploading
<1>2. UNCHANGED <<leadAt, page, hosted, records, deployEvents>>
  BY DEF findDeployByFingerprint
<1>3. \/ titled(s.page) # {} /\ Turn(w, [s EXCEPT !.op = "reserve", !.deploy = Max(titled(s.page))])
      \/ Turn(w, [s EXCEPT !.op = "reserve"])
      \/ Turn(w, recorded(s, "keep"))
  BY DEF findDeployByFingerprint
<1>4. CASE Turn(w, recorded(s, "keep"))
  BY <1>1, <1>2, <1>4, GivesUp
<1> HIDE DEF s
<1>5. ASSUME NEW d \in 0..Len(hosted), Turn(w, [s EXCEPT !.op = "reserve", !.deploy = d])
      PROVE  DeployTypeOK' /\ DeployInv'
  <2> DEFINE local == [s EXCEPT !.op = "reserve", !.deploy = d]
  <2> d \in Nat
    BY Typed
  <2>1. local \in Deployer
    BY <1>1 DEF Deployer, DeployOps
  <2>2. HoldsNow(local)
    BY <1>1 DEF HoldsNow, Holds, Uploading, Deployer
  <2>3. Turn(w, local)
    BY <1>5
  <2> HIDE DEF local
  <2> QED BY <1>2, <2>1, <2>2, <2>3, LookKeeps
<1>6. [s EXCEPT !.op = "reserve"] = [s EXCEPT !.op = "reserve", !.deploy = s.deploy]
  BY <1>1 DEF Deployer
<1>7. s.deploy \in 0..Len(hosted)
  BY <1>1 DEF HoldsNow, Holds
<1>8. titled(s.page) # {} => Max(titled(s.page)) \in 0..Len(hosted)
  BY LatestRows, Typed
<1> QED
  BY <1>3, <1>4, <1>5, <1>6, <1>7, <1>8

LEMMA pollDeployKeeps ==
  ASSUME DeployTypeOK, DeployInv, NEW w \in Sessions, pollDeploy(w)
  PROVE  DeployTypeOK' /\ DeployInv'
<1> DEFINE s == deployer[w]
           local == [s EXCEPT !.op = "verify"]
<1>1. s \in Deployer /\ HoldsNow(s) /\ s.op = "poll" /\ s.op \in Uploading
  BY Held DEF pollDeploy, Uploading
<1>2. UNCHANGED <<leadAt, page, hosted, records, deployEvents>>
  BY DEF pollDeploy
<1>3. \/ hosted[s.deploy].files /\ Turn(w, local)
      \/ \E route \in {"keep", "NEEDS_MANUAL_REVIEW"} : Turn(w, recorded(s, route))
  BY DEF pollDeploy
<1>4. CASE hosted[s.deploy].files /\ Turn(w, local)
  <2> HIDE DEF s
  <2>1. local \in Deployer
    BY <1>1 DEF Deployer, DeployOps
  <2>2. HoldsNow(local)
    BY <1>1, <1>4 DEF HoldsNow, Holds, Uploading, Deployer
  <2> HIDE DEF local
  <2> QED BY <1>2, <1>4, <2>1, <2>2, LookKeeps
<1> QED
  BY <1>1, <1>2, <1>3, <1>4, GivesUp

LEMMA verifyFetchKeeps ==
  ASSUME DeployTypeOK, DeployInv, NEW w \in Sessions, verifyFetch(w)
  PROVE  DeployTypeOK' /\ DeployInv'
<1> DEFINE s == deployer[w]
           checked == [s EXCEPT !.verified = TRUE]
<1>1. s \in Deployer /\ HoldsNow(s) /\ s.op = "verify" /\ s.op \in Uploading
  BY Held DEF verifyFetch, Uploading
<1>2. UNCHANGED <<leadAt, page, hosted, records, deployEvents>>
  BY DEF verifyFetch
<1>3. \/ verifyDeployment(s) /\ Turn(w, recorded(checked, "FINALIZED_EMAIL_PENDING"))
      \/ \E route \in {"keep", "NEEDS_MANUAL_REVIEW"} : Turn(w, recorded(s, route))
  BY DEF verifyFetch
<1>4. CASE verifyDeployment(s) /\ Turn(w, recorded(checked, "FINALIZED_EMAIL_PENDING"))
  <2> HIDE DEF s
  <2>1. /\ s.lead \in Leads /\ s.run \in 0..Len(runs) /\ s.run # 0
        /\ s.deploy \in 0..Len(hosted) /\ s.deploy # 0
        /\ hosted[s.deploy].files /\ s.page \in approvedPages
    BY <1>1 DEF HoldsNow, Holds, Uploading
  <2>2. serves(s.deploy)
    BY <1>4, <2>1, Typed DEF serves, verifyDeployment
  <2>3. checked \in Deployer /\ checked.lead = s.lead /\ checked.run = s.run /\ checked.deploy = s.deploy
    BY <1>1 DEF Deployer
  <2> HIDE DEF checked
  <2> QED BY <1>2, <1>4, <2>1, <2>2, <2>3, recordedKeeps
<1> QED
  BY <1>1, <1>2, <1>3, <1>4, GivesUp

LEMMA recordReadKeeps ==
  ASSUME DeployTypeOK, DeployInv, NEW w \in Sessions, recordRead(w)
  PROVE  DeployTypeOK' /\ DeployInv'
<1> DEFINE s == deployer[w]
           route == IF leadAt[s.lead] = "WAITING_FOR_DEMO_URL" THEN s.route ELSE "keep"
           local == [s EXCEPT !.op = "recordRead", !.route = route]
<1>1. s \in Deployer /\ HoldsNow(s) /\ s.op = "record"
  BY Held DEF recordRead
<1>2. Turn(w, local)
  BY DEF recordRead
<1>3. route \in {"keep", s.route}
  OBVIOUS
<1> HIDE DEF s, route
<1>4. local \in Deployer
  BY <1>1, <1>3 DEF Deployer, DeployOps
<1>5. HoldsNow(local)
  BY <1>1, <1>3 DEF HoldsNow, Holds, Uploading, Deployer
<1> HIDE DEF local
<1> QED BY <1>2, <1>4, <1>5, LookKeeps DEF recordRead

LEMMA deployCrashKeeps ==
  ASSUME DeployTypeOK, DeployInv, NEW w \in Sessions, deployCrash(w)
  PROVE  DeployTypeOK' /\ DeployInv'
<1>1. deployEvents' \in 0..MaxDeployEvents
  BY DeployAssumption DEF deployCrash, deployEvent, DeployTypeOK
<1> QED BY <1>1, RestKeeps DEF deployCrash

(***************************************************************************)
(* The steps that write                                                    *)
(***************************************************************************)
LEMMA Routed ==
  ASSUME DeployTypeOK, DeployInv, NEW w \in Sessions, deployer[w].op # "idle"
  PROVE  /\ routed(w) \in [Leads -> LeadStatuses]
         /\ \A l \in Leads : routed(w)[l] = "HUMAN_APPROVED" =>
              \/ leadAt[l] = "HUMAN_APPROVED"
              \/ l = deployer[w].lead /\ deployer[w].route = "HUMAN_APPROVED"
         /\ deployer[w].route # "keep" => routed(w)[deployer[w].lead] = deployer[w].route
         /\ \A l \in Leads : l # deployer[w].lead => routed(w)[l] = leadAt[l]
<1>1. deployer[w] \in Deployer /\ deployer[w].lead \in Leads
  BY Held DEF HoldsNow, Holds
<1>2. deployer[w].route \in {"keep"} \cup LeadStatuses
  BY <1>1, DeployerTypes
<1> QED
  BY <1>1, <1>2, Typed DEF routed

(* A transaction ends its session. *)
LEMMA CommitKeeps ==
  ASSUME DeployTypeOK, DeployInv, Grows, NEW w \in Sessions, Done(w),
         DemosAreSound', RunsAreSound', LinkServesApprovedPage', SecondApprovalStands'
  PROVE  deployer' \in [Sessions -> Deployer] /\ DeployInv'
<1>1. Holds(NoDeployer, demos', drafts', runs', hosted', finals', approvedPages')
  BY NothingHeld DEF Grows
<1>2. deployer' \in [Sessions -> Deployer] /\ DeployersAreSound'
  BY <1>1, NobodyTyped, SessionKeeps DEF Done
<1> QED
  BY <1>2 DEF DeployInv

LEMMA demoCommitKeeps ==
  ASSUME DeployTypeOK, DeployInv, NEW w \in Sessions, demoCommit(w)
  PROVE  DeployTypeOK' /\ DeployInv'
<1> DEFINE l == deployer[w].lead
           s == deployer[w]
           demo == [page |-> s.page, by |-> s.about,
                    status |-> IF s.page # "none" THEN "GENERATED_PENDING_REVIEW" ELSE "BUILD_FAILED"]
<1>1. s \in Deployer /\ HoldsNow(s) /\ s.op = "demoRead"
  BY Held DEF demoCommit
<1>2. /\ Done(w) /\ leadAt' = routed(w)
      /\ UNCHANGED <<page, drafts, runs, hosted, finals, approvedPages, deployEvents>>
      /\ demos' = [demos EXCEPT ![l] = Append(@, demo)] \/ UNCHANGED demos
  BY DEF demoCommit
<1>3. l \in Leads /\ s.about \in {"composer", "template"} /\ s.route # "HUMAN_APPROVED"
  BY <1>1 DEF HoldsNow, Holds
<1> HIDE DEF l
<1>4. demo \in Demo /\ demo.page = s.page
      /\ demo.status # "APPROVED" /\ (demo.status # "BUILD_FAILED" => demo.page \in Pages)
  BY <1>1, <1>3, DeployerTypes DEF Demo
<1> HIDE DEF demo
<1>5. /\ demos' \in [Leads -> Seq(Demo)]
      /\ \A k \in Leads : \A i \in DOMAIN demos'[k] :
           \/ i \in DOMAIN demos[k] /\ demos'[k][i] = demos[k][i]
           \/ demos'[k][i] = demo
      /\ \A k \in Leads : \A i \in DOMAIN demos[k] : i \in DOMAIN demos'[k] /\ demos'[k][i] = demos[k][i]
  <2>1. demos[l] \in Seq(Demo) /\ demos \in [Leads -> Seq(Demo)]
    BY <1>3, Typed
  <2>2. /\ Append(demos[l], demo) \in Seq(Demo)
        /\ \A i \in DOMAIN Append(demos[l], demo) :
             \/ i \in DOMAIN demos[l] /\ Append(demos[l], demo)[i] = demos[l][i]
             \/ Append(demos[l], demo)[i] = demo
        /\ \A i \in DOMAIN demos[l] :
             i \in DOMAIN Append(demos[l], demo) /\ Append(demos[l], demo)[i] = demos[l][i]
    BY <1>4, <2>1
  <2> QED BY <1>2, <1>3, <2>1, <2>2
<1>6. Grows
  BY <1>2, <1>5, Typed DEF Grows
<1>7. DemosAreSound'
  BY <1>2, <1>4, <1>5 DEF DeployInv, DemosAreSound
<1>8. RunsAreSound' /\ LinkServesApprovedPage'
  BY <1>2 DEF DeployInv, RunsAreSound, LinkServesApprovedPage, serves
<1>9. leadAt' \in [Leads -> LeadStatuses] /\ SecondApprovalStands'
  BY <1>1, <1>2, <1>3, Routed, ApprovalsStay
<1>10. deployer' \in [Sessions -> Deployer] /\ DeployInv'
  BY <1>2, <1>6, <1>7, <1>8, <1>9, CommitKeeps
<1>11. DeployTypeOK'
  BY <1>2, <1>5, <1>9, <1>10 DEF DeployTypeOK
<1> QED
  BY <1>10, <1>11

LEMMA emailWrittenKeeps ==
  ASSUME DeployTypeOK, DeployInv, NEW l \in Leads, emailWritten(l)
  PROVE  DeployTypeOK' /\ DeployInv'
<1>1. /\ leadAt' = [leadAt EXCEPT ![l] = "WAITING_FOR_DEMO_URL"]
      /\ drafts' = [drafts EXCEPT ![l] = Append(@, "none")]
      /\ UNCHANGED <<page, demos, runs, hosted, finals, deployer, approvedPages, deployEvents>>
  BY DEF emailWritten
<1>2. drafts' \in [Leads -> Seq(Decisions)] /\ \A k \in Leads : DOMAIN drafts[k] \subseteq DOMAIN drafts'[k]
  <2>1. drafts[l] \in Seq(Decisions) /\ "none" \in Decisions
    BY Typed DEF Decisions
  <2>2. Append(drafts[l], "none") \in Seq(Decisions) /\ DOMAIN drafts[l] \subseteq DOMAIN Append(drafts[l], "none")
    BY <2>1
  <2> QED BY <1>1, <2>2, Typed
<1>3. Grows
  BY <1>1, <1>2, Typed DEF Grows
<1>4. leadAt' \in [Leads -> LeadStatuses] /\ SecondApprovalStands'
  BY <1>1, Typed, Routes, ApprovalsStay
<1>5. DemosAreSound' /\ RunsAreSound' /\ LinkServesApprovedPage'
  BY <1>1 DEF DeployInv, DemosAreSound, RunsAreSound, LinkServesApprovedPage, serves
<1>6. DeployInv'
  BY <1>1, <1>3, <1>4, <1>5, OthersKeep DEF DeployInv
<1> QED
  BY <1>1, <1>2, <1>4, <1>6 DEF DeployTypeOK

LEMMA sentBackKeeps ==
  ASSUME DeployTypeOK, DeployInv, NEW l \in Leads, sentBack(l)
  PROVE  DeployTypeOK' /\ DeployInv'
<1>1. leadAt' = [leadAt EXCEPT ![l] = "OPPORTUNITY_READY"] /\ UNCHANGED <<page, tables, deployer>>
  BY DEF sentBack, records, tables
<1>2. deployEvents' \in 0..MaxDeployEvents
  BY DeployAssumption DEF sentBack, deployEvent, DeployTypeOK
<1>3. Grows /\ DemosAreSound' /\ RunsAreSound' /\ LinkServesApprovedPage'
  BY <1>1, QuietGrows, QuietRows
<1>4. leadAt' \in [Leads -> LeadStatuses] /\ SecondApprovalStands'
  BY <1>1, Typed, Routes, ApprovalsStay DEF tables
<1>5. DeployInv'
  BY <1>1, <1>3, <1>4, OthersKeep DEF DeployInv
<1> QED
  BY <1>1, <1>2, <1>4, <1>5 DEF DeployTypeOK, tables

(* A human decision, on a demo ... *)
LEMMA demoDecidedKeeps ==
  ASSUME DeployTypeOK, DeployInv, NEW w \in Sessions, decideCommit(w), deployer[w].about = "demo"
  PROVE  DeployTypeOK' /\ DeployInv'
<1> DEFINE s == deployer[w]
           l == s.lead
           approved == IF s.decision = "APPROVED" THEN {demos[l][s.row].page} ELSE {}
<1>1. s \in Deployer /\ HoldsNow(s) /\ s.op = "decideRead" /\ s.about = "demo"
  BY Held DEF decideCommit
<1>2. /\ demos' = [demos EXCEPT ![l][s.row].status = s.decision] /\ approvedPages' = approvedPages \cup approved
      /\ leadAt' = routed(w) /\ Done(w) /\ UNCHANGED <<page, drafts, runs, hosted, finals, deployEvents>>
  BY DEF decideCommit
<1>3. /\ l \in Leads /\ s.row \in DOMAIN demos[l] /\ demos[l][s.row].page \in Pages
      /\ s.route # "HUMAN_APPROVED" /\ s.decision \in {"APPROVED", "REJECTED"}
  BY <1>1 DEF HoldsNow, Holds, Deployer, Decisions
<1> HIDE DEF l
<1>4. approved \subseteq Pages /\ (s.decision = "APPROVED" => demos[l][s.row].page \in approvedPages')
  BY <1>2, <1>3
<1> HIDE DEF s, approved
<1>5. /\ demos' \in [Leads -> Seq(Demo)]
      /\ \A k \in Leads : DOMAIN demos'[k] = DOMAIN demos[k]
      /\ \A k \in Leads : \A i \in DOMAIN demos[k] :
           /\ demos'[k][i].page = demos[k][i].page
           /\ \/ demos'[k][i].status = demos[k][i].status
              \/ k = l /\ i = s.row /\ demos'[k][i].status = s.decision
  <2> DEFINE decided == [demos[l][s.row] EXCEPT !.status = s.decision]
             row == [demos[l] EXCEPT ![s.row] = decided]
  <2>1. demos[l] \in Seq(Demo) /\ demos \in [Leads -> Seq(Demo)] /\ demos[l][s.row] \in Demo
    BY <1>3, Typed
  <2>2. /\ decided \in Demo /\ decided.page = demos[l][s.row].page /\ decided.status = s.decision
    BY <1>3, <2>1 DEF Demo
  <2> HIDE DEF decided
  <2>3. /\ row \in Seq(Demo) /\ DOMAIN row = DOMAIN demos[l] /\ row[s.row] = decided
        /\ \A i \in DOMAIN demos[l] : i # s.row => row[i] = demos[l][i]
    BY <1>3, <2>1, <2>2
  <2>4. demos' = [demos EXCEPT ![l] = row]
    BY <1>2 DEF decided
  <2> HIDE DEF row
  <2>5. demos'[l] = row /\ \A k \in Leads : k # l => demos'[k] = demos[k]
    BY <1>3, <2>1, <2>4
  <2>6. demos' \in [Leads -> Seq(Demo)]
    BY <1>3, <2>1, <2>3, <2>4
  <2> QED BY <2>2, <2>3, <2>5, <2>6
<1>6. Grows
  BY <1>2, <1>5, Typed DEF Grows
<1>7. DemosAreSound'
  BY <1>2, <1>3, <1>4, <1>5 DEF DeployInv, DemosAreSound
<1>8. RunsAreSound' /\ LinkServesApprovedPage'
  BY <1>2, <1>6, RunsStay, LinksStay
<1>9. leadAt' \in [Leads -> LeadStatuses] /\ SecondApprovalStands'
  BY <1>1, <1>2, <1>3, Routed, ApprovalsStay DEF s
<1>10. deployer' \in [Sessions -> Deployer] /\ DeployInv'
  BY <1>2, <1>6, <1>7, <1>8, <1>9, CommitKeeps
<1>11. DeployTypeOK'
  BY <1>2, <1>4, <1>5, <1>9, <1>10 DEF DeployTypeOK
<1> QED
  BY <1>10, <1>11

(* ... on an e-mail ... *)
LEMMA emailDecidedKeeps ==
  ASSUME DeployTypeOK, DeployInv, NEW w \in Sessions, decideCommit(w), deployer[w].about = "email"
  PROVE  DeployTypeOK' /\ DeployInv'
<1> DEFINE s == deployer[w]
           l == s.lead
<1>1. s \in Deployer /\ HoldsNow(s) /\ s.op = "decideRead" /\ s.about = "email"
  BY Held DEF decideCommit
<1>2. /\ drafts' = [drafts EXCEPT ![l][s.row] = s.decision]
      /\ leadAt' = routed(w) /\ Done(w)
      /\ UNCHANGED <<page, demos, runs, hosted, finals, approvedPages, deployEvents>>
  BY DEF decideCommit
<1>3. l \in Leads /\ s.row \in DOMAIN drafts[l] /\ s.route # "HUMAN_APPROVED" /\ s.decision \in Decisions
  BY <1>1 DEF HoldsNow, Holds, Deployer
<1> HIDE DEF l
<1>4. /\ drafts' \in [Leads -> Seq(Decisions)]
      /\ \A k \in Leads : DOMAIN drafts'[k] = DOMAIN drafts[k]
  <2> DEFINE row == [drafts[l] EXCEPT ![s.row] = s.decision]
  <2>1. drafts[l] \in Seq(Decisions) /\ drafts \in [Leads -> Seq(Decisions)]
    BY <1>3, Typed
  <2>2. row \in Seq(Decisions) /\ DOMAIN row = DOMAIN drafts[l]
    BY <1>3, <2>1
  <2> QED BY <1>2, <1>3, <2>1, <2>2
<1>5. Grows
  BY <1>2, <1>4, Typed DEF Grows
<1>6. DemosAreSound' /\ RunsAreSound' /\ LinkServesApprovedPage'
  BY <1>2, <1>5, DemosStay, RunsStay, LinksStay
<1>7. leadAt' \in [Leads -> LeadStatuses] /\ SecondApprovalStands'
  BY <1>1, <1>2, <1>3, Routed, ApprovalsStay
<1>8. deployer' \in [Sessions -> Deployer] /\ DeployInv'
  BY <1>2, <1>5, <1>6, <1>7, CommitKeeps
<1>9. DeployTypeOK'
  BY <1>2, <1>4, <1>7, <1>8 DEF DeployTypeOK
<1> QED
  BY <1>8, <1>9

(* ... and on a finalized e-mail: it approves or rejects the lead with it. *)
LEMMA finalDecidedKeeps ==
  ASSUME DeployTypeOK, DeployInv, NEW w \in Sessions, decideCommit(w), deployer[w].about = "final"
  PROVE  DeployTypeOK' /\ DeployInv'
<1> DEFINE s == deployer[w]
           l == s.lead
<1>1. s \in Deployer /\ HoldsNow(s) /\ s.op = "decideRead" /\ s.about = "final"
  BY Held DEF decideCommit
<1>2. /\ finals' = [finals EXCEPT ![s.row].decision = s.decision]
      /\ leadAt' = routed(w) /\ Done(w)
      /\ UNCHANGED <<page, demos, drafts, runs, hosted, approvedPages, deployEvents>>
  BY DEF decideCommit
<1>3. /\ l \in Leads /\ s.row \in DOMAIN finals /\ finals[s.row].lead = l
      /\ s.decision \in {"APPROVED", "REJECTED"}
      /\ s.route = IF s.decision = "APPROVED" THEN "HUMAN_APPROVED" ELSE "REJECTED"
  BY <1>1 DEF HoldsNow, Holds, Deployer, Decisions
<1>4. /\ finals' \in Seq(Final) /\ Len(finals') = Len(finals) /\ DOMAIN finals' = DOMAIN finals
      /\ \A f \in DOMAIN finals : /\ finals'[f].lead = finals[f].lead /\ finals'[f].deploy = finals[f].deploy
                                  /\ finals'[f].run = finals[f].run
                                  /\ f # s.row => finals'[f] = finals[f]
      /\ finals'[s.row].decision = s.decision
  <2> DEFINE decided == [finals[s.row] EXCEPT !.decision = s.decision]
  <2> HIDE DEF s
  <2>1. finals \in Seq(Final) /\ finals[s.row] \in Final
    BY <1>3, Typed
  <2>2. /\ decided \in Final /\ decided.lead = finals[s.row].lead /\ decided.deploy = finals[s.row].deploy
        /\ decided.run = finals[s.row].run /\ decided.decision = s.decision
    BY <1>3, <2>1 DEF Final, Decisions
  <2>3. finals' = [finals EXCEPT ![s.row] = decided]
    BY <1>2
  <2> HIDE DEF decided
  <2> QED BY <1>3, <2>1, <2>2, <2>3
<1>5. Grows
  BY <1>2, <1>4, Typed DEF Grows
<1>6. DemosAreSound' /\ RunsAreSound' /\ LinkServesApprovedPage'
  BY <1>2, <1>4, <1>5, DemosStay, RunsStay, LinksStay
<1>7. /\ leadAt' \in [Leads -> LeadStatuses] /\ leadAt'[l] = s.route
      /\ \A k \in Leads : k # l => leadAt'[k] = leadAt[k]
  BY <1>1, <1>2, <1>3, Routed
<1> HIDE DEF l, s
<1>8. SecondApprovalStands'
  <2> SUFFICES ASSUME NEW k \in Leads, leadAt'[k] = "HUMAN_APPROVED"
               PROVE  \E f \in DOMAIN finals' : finals'[f].lead = k /\ finals'[f].decision = "APPROVED"
    BY DEF SecondApprovalStands
  <2>1. CASE k = l
    BY <1>3, <1>4, <1>7, <2>1
  <2>2. CASE k # l
    <3>1. PICK f \in DOMAIN finals : finals[f].lead = k /\ finals[f].decision = "APPROVED"
      BY <1>7, <2>2 DEF DeployInv, SecondApprovalStands
    <3> QED BY <1>3, <1>4, <2>2, <3>1
  <2> QED BY <2>1, <2>2
<1>9. deployer' \in [Sessions -> Deployer] /\ DeployInv'
  BY <1>2, <1>5, <1>6, <1>8, CommitKeeps
<1>10. DeployTypeOK'
  BY <1>2, <1>4, <1>7, <1>9 DEF DeployTypeOK
<1> QED
  BY <1>9, <1>10

LEMMA decideCommitKeeps ==
  ASSUME DeployTypeOK, DeployInv, NEW w \in Sessions, decideCommit(w)
  PROVE  DeployTypeOK' /\ DeployInv'
<1>1. deployer[w].about \in {"demo", "email", "final"}
  BY Held DEF decideCommit, HoldsNow, Holds
<1> QED
  BY <1>1, demoDecidedKeeps, emailDecidedKeeps, finalDecidedKeeps

(***************************************************************************)
(* The steps of a deployment that write                                    *)
(***************************************************************************)
LEMMA RunWritten ==
  ASSUME DeployTypeOK, NEW r \in DOMAIN runs, NEW row \in DeploymentRun, runs' = [runs EXCEPT ![r] = row]
  PROVE  /\ runs' \in Seq(DeploymentRun) /\ Len(runs') = Len(runs) /\ DOMAIN runs' = DOMAIN runs
         /\ runs'[r] = row /\ \A x \in DOMAIN runs : x # r => runs'[x] = runs[x]
<1>1. runs \in Seq(DeploymentRun)
  BY Typed
<1> QED
  BY <1>1

(* What follows for the other rows when runs are added or written. *)
LEMMA RunsGrow ==
  ASSUME DeployTypeOK, runs' \in Seq(DeploymentRun), Len(runs) <= Len(runs'),
         UNCHANGED <<demos, drafts, hosted, finals, approvedPages>>
  PROVE  Grows /\ DOMAIN runs \subseteq DOMAIN runs'
BY Typed DEF Grows

LEMMA reserveRunKeeps ==
  ASSUME DeployTypeOK, DeployInv, NEW w \in Sessions, reserveRun(w)
  PROVE  DeployTypeOK' /\ DeployInv'
<1> DEFINE s == deployer[w]
           after == IF s.deploy = 0 THEN "create" ELSE "setId"
           row == [page |-> s.page, deploy |-> 0, verified |-> 0, outcome |-> "DEPLOYMENT_PENDING"]
           number == IF s.run # 0 THEN s.run ELSE Len(runs) + 1
           local == [s EXCEPT !.op = after, !.run = number]
<1>1. s \in Deployer /\ HoldsNow(s) /\ s.op = "reserve"
  BY Held DEF reserveRun
<1>2. /\ \/ /\ s.run # 0 /\ UNCHANGED runs /\ Turn(w, [s EXCEPT !.op = after])
         \/ /\ s.run = 0 /\ runs' = Append(runs, row)
            /\ Turn(w, [s EXCEPT !.op = after, !.run = Len(runs) + 1])
      /\ UNCHANGED <<leadAt, page, demos, drafts, hosted, finals, approvedPages, deployEvents>>
  BY DEF reserveRun
<1> HIDE DEF s
<1>3. /\ s.lead \in Leads /\ s.page \in approvedPages /\ s.upload \in Pages
      /\ s.run \in 0..Len(runs) /\ s.deploy \in 0..Len(hosted) /\ s.route # "HUMAN_APPROVED" /\ ~ s.verified
  BY <1>1 DEF HoldsNow, Holds, Uploading
<1>4. row \in DeploymentRun /\ row.outcome = "DEPLOYMENT_PENDING" /\ row.deploy = 0
  BY <1>3, Typed DEF DeploymentRun
<1> HIDE DEF row
<1>5. /\ Turn(w, local)
      /\ runs' \in Seq(DeploymentRun) /\ Len(runs) <= Len(runs') /\ number \in 1..Len(runs')
      /\ \A r \in DOMAIN runs' : (r \in DOMAIN runs /\ runs'[r] = runs[r]) \/ runs'[r] = row
  <2>1. CASE s.run # 0
    <3>1. [s EXCEPT !.op = after] = local
      BY <1>1, <2>1 DEF Deployer
    <3>2. UNCHANGED runs /\ Turn(w, [s EXCEPT !.op = after])
      BY <1>2, <2>1
    <3>3. s.run \in 1..Len(runs)
      BY <1>3, <2>1, Typed
    <3> QED BY <2>1, <3>1, <3>2, <3>3, Typed
  <2>2. CASE s.run = 0
    <3>1. runs' = Append(runs, row) /\ Turn(w, local)
      BY <1>2, <2>2
    <3>2. runs \in Seq(DeploymentRun)
      BY Typed
    <3> QED BY <1>4, <2>2, <3>1, <3>2
  <2> QED BY <2>1, <2>2
<1> HIDE DEF number
<1>6. Grows
  BY <1>2, <1>5, RunsGrow
<1>7. number \in Nat /\ number # 0 /\ number \in 0..Len(runs') /\ after \in {"create", "setId"}
      /\ (after = "setId" => s.deploy # 0)
  BY <1>5, Typed
<1> HIDE DEF after
<1>8. local \in Deployer
  BY <1>1, <1>7 DEF Deployer, DeployOps
<1>9. /\ local.op = after /\ local.run = number /\ local.deploy = s.deploy /\ local.lead = s.lead
      /\ local.page = s.page /\ local.upload = s.upload /\ local.route = s.route /\ local.verified = s.verified
  BY <1>1 DEF Deployer
<1> HIDE DEF local
<1>10. Holds(local, demos', drafts', runs', hosted', finals', approvedPages')
  BY <1>2, <1>3, <1>7, <1>9 DEF Holds, Uploading
<1>11. deployer' \in [Sessions -> Deployer] /\ DeployersAreSound'
  BY <1>5, <1>6, <1>8, <1>10, SessionKeeps
<1>12. DemosAreSound' /\ RunsAreSound' /\ LinkServesApprovedPage'
  BY <1>2, <1>4, <1>5, <1>6, DemosStay, RunsStay, LinksStay
<1>13. SecondApprovalStands'
  BY <1>2 DEF DeployInv, SecondApprovalStands
<1>14. DeployTypeOK'
  <2>1. \A r \in DOMAIN runs' : runs'[r].deploy <= Len(hosted')
    <3>1. \A r \in DOMAIN runs : runs[r].deploy <= Len(hosted)
      BY Typed
    <3>2. row.deploy <= Len(hosted)
      BY <1>4, Typed
    <3> QED BY <1>2, <1>5, <3>1, <3>2
  <2>2. \A f \in DOMAIN finals' : finals'[f].run \in DOMAIN runs'
    BY <1>2, <1>5, <1>6, Typed, RunsGrow
  <2> QED BY <1>2, <1>5, <1>11, <2>1, <2>2 DEF DeployTypeOK
<1> QED
  BY <1>11, <1>12, <1>13, <1>14 DEF DeployInv

LEMMA setDeployIdKeeps ==
  ASSUME DeployTypeOK, DeployInv, NEW w \in Sessions, setDeployId(w)
  PROVE  DeployTypeOK' /\ DeployInv'
<1> DEFINE s == deployer[w]
           local == [s EXCEPT !.op = "poll"]
<1>1. s \in Deployer /\ HoldsNow(s) /\ s.op = "setId"
  BY Held DEF setDeployId
<1>2. /\ \/ runs' = [runs EXCEPT ![s.run].deploy = s.deploy] /\ Turn(w, local)
         \/ Done(w) /\ UNCHANGED runs
      /\ UNCHANGED <<leadAt, page, demos, drafts, hosted, finals, approvedPages, deployEvents>>
  BY DEF setDeployId
<1> HIDE DEF s
<1>3. CASE Done(w) /\ UNCHANGED runs
  <2>1. deployEvents' \in 0..MaxDeployEvents
    BY <1>2 DEF DeployTypeOK
  <2> QED BY <1>2, <1>3, <2>1, RestKeeps DEF records
<1>4. CASE runs' = [runs EXCEPT ![s.run].deploy = s.deploy] /\ Turn(w, local)
  <2>1. s.run \in 0..Len(runs) /\ s.run # 0 /\ s.deploy \in 0..Len(hosted)
    BY <1>1 DEF HoldsNow, Holds
  <2>2. s.run \in DOMAIN runs /\ runs[s.run] \in DeploymentRun /\ runs \in Seq(DeploymentRun)
    BY <2>1, Typed
  <2> DEFINE row == [runs[s.run] EXCEPT !.deploy = s.deploy]
  <2>3. /\ row \in DeploymentRun /\ row.deploy = s.deploy /\ row.verified = runs[s.run].verified
        /\ row.outcome = runs[s.run].outcome
    BY <1>1, <2>2, DeployerTypes DEF DeploymentRun
  <2>4. runs' = [runs EXCEPT ![s.run] = row]
    BY <1>4, <2>2
  <2> HIDE DEF row
  <2>5. /\ runs' \in Seq(DeploymentRun) /\ Len(runs') = Len(runs) /\ DOMAIN runs' = DOMAIN runs
        /\ runs'[s.run] = row /\ \A x \in DOMAIN runs : x # s.run => runs'[x] = runs[x]
    BY <2>2, <2>3, <2>4, RunWritten
  <2>6. Grows
    BY <1>2, <2>5, RunsGrow, Typed
  <2>7. local \in Deployer
    BY <1>1 DEF Deployer, DeployOps
  <2>8. Holds(local, demos', drafts', runs', hosted', finals', approvedPages')
    BY <1>1, <1>2, <2>5 DEF HoldsNow, Holds, Uploading, Deployer
  <2> HIDE DEF local
  <2>9. deployer' \in [Sessions -> Deployer] /\ DeployersAreSound'
    BY <1>4, <2>6, <2>7, <2>8, SessionKeeps
  <2>10. DemosAreSound' /\ RunsAreSound' /\ LinkServesApprovedPage'
    BY <1>2, <2>3, <2>5, <2>6, DemosStay, RunsStay, LinksStay
  <2>11. SecondApprovalStands'
    BY <1>2 DEF DeployInv, SecondApprovalStands
  <2>12. DeployTypeOK'
    <3>1. \A r \in DOMAIN runs' : runs'[r].deploy <= Len(hosted')
      BY <1>2, <2>1, <2>3, <2>5, Typed
    <3> QED BY <1>2, <2>5, <2>9, <3>1 DEF DeployTypeOK
  <2> QED BY <2>9, <2>10, <2>11, <2>12 DEF DeployInv
<1> QED
  BY <1>2, <1>3, <1>4

LEMMA createDraftDeployKeeps ==
  ASSUME DeployTypeOK, DeployInv, NEW w \in Sessions, createDraftDeploy(w)
  PROVE  DeployTypeOK' /\ DeployInv'
<1> DEFINE s == deployer[w]
           fresh(files) == [title |-> s.page, content |-> s.upload, files |-> files]
<1>1. s \in Deployer /\ HoldsNow(s) /\ s.op = "create" /\ s.op \in Uploading
  BY Held DEF createDraftDeploy, Uploading
<1>2. UNCHANGED <<leadAt, page, demos, drafts, runs, finals, approvedPages, deployEvents>>
  BY DEF createDraftDeploy, records
<1>3. \/ \E route \in {"keep", "NEEDS_MANUAL_REVIEW"} : Turn(w, recorded(s, route)) /\ UNCHANGED hosted
      \/ \E route \in {"keep", "NEEDS_MANUAL_REVIEW"}, files \in BOOLEAN :
           hosted' = Append(hosted, fresh(files)) /\ Turn(w, recorded(s, route))
      \/ /\ hosted' = Append(hosted, fresh(TRUE))
         /\ Turn(w, [s EXCEPT !.op = "setId", !.deploy = Len(hosted) + 1, !.upload = "none"])
  BY DEF createDraftDeploy
<1>4. CASE \E route \in {"keep", "NEEDS_MANUAL_REVIEW"} : Turn(w, recorded(s, route)) /\ UNCHANGED hosted
  BY <1>1, <1>2, <1>4, GivesUp DEF records
<1> HIDE DEF s
<1>5. /\ s.lead \in Leads /\ s.page \in approvedPages /\ s.page \in Pages /\ s.upload \in Pages
      /\ s.run \in 0..Len(runs) /\ s.run # 0 /\ s.deploy \in 0..Len(hosted)
      /\ s.route # "HUMAN_APPROVED" /\ ~ s.verified
  BY <1>1, Typed DEF HoldsNow, Holds, Uploading
<1>6. ASSUME NEW files \in BOOLEAN, hosted' = Append(hosted, fresh(files)),
             NEW local \in Deployer, Turn(w, local),
             Holds(local, demos', drafts', runs', hosted', finals', approvedPages')
      PROVE  DeployTypeOK' /\ DeployInv'
  <2>1. hosted \in Seq(Hosted) /\ fresh(files) \in Hosted
    BY <1>5, Typed DEF Hosted
  <2> HIDE DEF fresh
  <2>2. /\ hosted' \in Seq(Hosted) /\ Len(hosted') = Len(hosted) + 1
        /\ \A d \in DOMAIN hosted : d \in DOMAIN hosted' /\ hosted'[d] = hosted[d]
    BY <1>6, <2>1
  <2>3. Grows
    BY <1>2, <2>2, Typed DEF Grows
  <2>4. deployer' \in [Sessions -> Deployer] /\ DeployersAreSound'
    BY <1>6, <2>3, SessionKeeps
  <2>5. DemosAreSound' /\ RunsAreSound' /\ LinkServesApprovedPage'
    BY <1>2, <2>3, DemosStay, RunsStay, LinksStay
  <2>6. SecondApprovalStands'
    BY <1>2 DEF DeployInv, SecondApprovalStands
  <2>7. DeployTypeOK'
    <3>1. \A r \in DOMAIN runs' : runs'[r].deploy <= Len(hosted')
      BY <1>2, <2>2, Typed
    <3> QED BY <1>2, <2>2, <2>4, <3>1 DEF DeployTypeOK
  <2> QED BY <2>4, <2>5, <2>6, <2>7 DEF DeployInv
<1>7. ASSUME NEW files \in BOOLEAN, hosted' = Append(hosted, fresh(files)) PROVE Len(hosted') = Len(hosted) + 1
  BY <1>7, Typed
<1>8. ASSUME NEW route \in {"keep", "NEEDS_MANUAL_REVIEW"}, NEW files \in BOOLEAN,
             hosted' = Append(hosted, fresh(files)), Turn(w, recorded(s, route))
      PROVE  DeployTypeOK' /\ DeployInv'
  <2> DEFINE local == recorded(s, route)
  <2>1. local \in Deployer /\ HoldsNow(local)
    BY <1>1, <1>5, RecordedHolds
  <2>2. /\ local.op = "record" /\ local.lead = s.lead /\ local.run = s.run /\ local.deploy = s.deploy
        /\ local.route = route /\ local.verified = s.verified
    BY <1>1 DEF recorded, Deployer
  <2>3. Turn(w, local)
    BY <1>8
  <2> HIDE DEF local
  <2>4. Holds(local, demos', drafts', runs', hosted', finals', approvedPages')
    BY <1>2, <1>5, <1>7, <1>8, <2>2, Typed DEF Holds, Uploading
  <2> QED BY <1>6, <1>8, <2>1, <2>3, <2>4
<1>9. ASSUME hosted' = Append(hosted, fresh(TRUE)),
             Turn(w, [s EXCEPT !.op = "setId", !.deploy = Len(hosted) + 1, !.upload = "none"])
      PROVE  DeployTypeOK' /\ DeployInv'
  <2> DEFINE d == Len(hosted) + 1
             local == [s EXCEPT !.op = "setId", !.deploy = d, !.upload = "none"]
  <2>1. Turn(w, local)
    BY <1>9
  <2>2. Len(hosted') = d /\ d \in Nat /\ d # 0
    BY <1>7, <1>9, Typed
  <2> HIDE DEF d
  <2>3. local \in Deployer
    BY <1>1, <2>2 DEF Deployer, DeployOps
  <2>4. /\ local.op = "setId" /\ local.lead = s.lead /\ local.run = s.run /\ local.deploy = d
        /\ local.page = s.page /\ local.route = s.route /\ local.verified = s.verified
    BY <1>1 DEF Deployer
  <2> HIDE DEF local
  <2>5. Holds(local, demos', drafts', runs', hosted', finals', approvedPages')
    BY <1>2, <1>5, <2>2, <2>4 DEF Holds, Uploading
  <2> QED BY <1>6, <1>9, <2>1, <2>3, <2>5
<1> QED
  BY <1>3, <1>4, <1>8, <1>9

LEMMA recordTerminalKeeps ==
  ASSUME DeployTypeOK, DeployInv, NEW w \in Sessions, recordTerminal(w)
  PROVE  DeployTypeOK' /\ DeployInv'
<1> DEFINE s == deployer[w]
           row == [runs[s.run] EXCEPT !.deploy = s.deploy, !.outcome = "DEPLOYMENT_PENDING"]
<1>1. s \in Deployer /\ HoldsNow(s) /\ s.op = "recordRead"
  BY Held DEF recordTerminal
<1>2. /\ Done(w) /\ (leadAt' = routed(w) \/ UNCHANGED leadAt)
      /\ \/ UNCHANGED runs
         \/ s.run # 0 /\ runs' = [runs EXCEPT ![s.run].deploy = s.deploy, ![s.run].outcome = "DEPLOYMENT_PENDING"]
      /\ UNCHANGED <<page, demos, drafts, hosted, finals, approvedPages, deployEvents>>
  BY DEF recordTerminal
<1>3. s.run \in 0..Len(runs) /\ s.deploy \in 0..Len(hosted) /\ s.route # "HUMAN_APPROVED" /\ s.deploy \in Nat
  BY <1>1, DeployerTypes DEF HoldsNow, Holds
<1>4. leadAt' \in [Leads -> LeadStatuses] /\ SecondApprovalStands'
  BY <1>1, <1>2, <1>3, Routed, ApprovalsStay, Typed
<1> HIDE DEF s
<1>5. /\ runs' \in Seq(DeploymentRun) /\ Len(runs') = Len(runs) /\ DOMAIN runs' = DOMAIN runs
      /\ \A x \in DOMAIN runs : /\ runs'[x].deploy <= Len(hosted)
                                /\ \/ runs'[x] = runs[x]
                                   \/ runs'[x].outcome = "DEPLOYMENT_PENDING"
  <2>1. CASE UNCHANGED runs
    BY <2>1, Typed
  <2>2. CASE s.run # 0 /\ runs' = [runs EXCEPT ![s.run].deploy = s.deploy,
                                               ![s.run].outcome = "DEPLOYMENT_PENDING"]
    <3>1. s.run \in DOMAIN runs /\ runs[s.run] \in DeploymentRun
      BY <1>3, <2>2, Typed
    <3>2. row \in DeploymentRun /\ row.deploy = s.deploy /\ row.outcome = "DEPLOYMENT_PENDING"
      BY <1>3, <3>1 DEF DeploymentRun
    <3>3. runs' = [runs EXCEPT ![s.run] = row]
      BY <2>2, <3>1
    <3> HIDE DEF row
    <3>4. /\ runs' \in Seq(DeploymentRun) /\ Len(runs') = Len(runs) /\ DOMAIN runs' = DOMAIN runs
          /\ runs'[s.run] = row /\ \A x \in DOMAIN runs : x # s.run => runs'[x] = runs[x]
      BY <3>1, <3>2, <3>3, RunWritten
    <3>5. \A x \in DOMAIN runs : runs[x].deploy <= Len(hosted)
      BY Typed
    <3>6. row.deploy <= Len(hosted)
      BY <1>3, <3>2, Typed
    <3> QED BY <3>2, <3>4, <3>5, <3>6
  <2> QED BY <1>2, <2>1, <2>2
<1>6. Grows
  BY <1>2, <1>5, RunsGrow, Typed
<1>7. DemosAreSound' /\ RunsAreSound' /\ LinkServesApprovedPage'
  BY <1>2, <1>5, <1>6, DemosStay, RunsStay, LinksStay
<1>8. deployer' \in [Sessions -> Deployer] /\ DeployInv'
  BY <1>2, <1>4, <1>6, <1>7, CommitKeeps
<1>9. DeployTypeOK'
  BY <1>2, <1>4, <1>5, <1>8 DEF DeployTypeOK
<1> QED
  BY <1>8, <1>9

LEMMA finalizeAndRouteKeeps ==
  ASSUME DeployTypeOK, DeployInv, NEW w \in Sessions, finalizeAndRoute(w)
  PROVE  DeployTypeOK' /\ DeployInv'
<1> DEFINE s == deployer[w]
           row == [runs[s.run] EXCEPT !.deploy = s.deploy, !.verified = s.deploy,
                                      !.outcome = "DEPLOYED_AND_VERIFIED"]
           final == [lead |-> s.lead, draft |-> s.row, run |-> s.run, deploy |-> s.deploy, decision |-> "none"]
<1>1. s \in Deployer /\ HoldsNow(s) /\ s.op = "recordRead" /\ s.verified
  BY Held DEF finalizeAndRoute
<1>2. /\ Done(w) /\ (leadAt' = routed(w) \/ UNCHANGED leadAt)
      /\ \/ UNCHANGED runs
         \/ runs' = [runs EXCEPT ![s.run].deploy = s.deploy, ![s.run].verified = s.deploy,
                                 ![s.run].outcome = "DEPLOYED_AND_VERIFIED"]
      /\ UNCHANGED finals \/ finals' = Append(finals, final)
      /\ UNCHANGED <<page, demos, drafts, hosted, approvedPages, deployEvents>>
  BY DEF finalizeAndRoute, createFinalization
<1>3. /\ s.lead \in Leads /\ s.run \in 0..Len(runs) /\ s.run # 0 /\ s.deploy \in 0..Len(hosted)
      /\ s.route # "HUMAN_APPROVED" /\ s.deploy \in Nat /\ s.row \in Nat /\ s.run \in Nat
      /\ Serves(s.deploy, hosted, approvedPages)
  BY <1>1, DeployerTypes DEF HoldsNow, Holds
<1>4. s.run \in DOMAIN runs /\ Serves(s.deploy, hosted', approvedPages')
  BY <1>2, <1>3, Typed
<1>5. final \in Final /\ final.deploy = s.deploy /\ final.run = s.run
  BY <1>3 DEF Final, Decisions
<1> HIDE DEF final
<1>6. /\ finals' \in Seq(Final)
      /\ \A f \in DOMAIN finals' : (f \in DOMAIN finals /\ finals'[f] = finals[f]) \/ finals'[f] = final
      /\ \A f \in DOMAIN finals : f \in DOMAIN finals' /\ finals'[f] = finals[f]
  <2>1. finals \in Seq(Final)
    BY Typed
  <2>2. CASE UNCHANGED finals
    BY <2>1, <2>2
  <2>3. CASE finals' = Append(finals, final)
    BY <1>5, <2>1, <2>3
  <2> QED BY <1>2, <2>2, <2>3
<1>7. leadAt' \in [Leads -> LeadStatuses] /\ SecondApprovalStands'
  BY <1>1, <1>2, <1>3, <1>6, Routed, ApprovalsStay, Typed
<1> HIDE DEF s
<1>8. /\ runs' \in Seq(DeploymentRun) /\ Len(runs') = Len(runs) /\ DOMAIN runs' = DOMAIN runs
      /\ \A x \in DOMAIN runs : /\ runs'[x].deploy <= Len(hosted)
                                /\ runs'[x] = runs[x] \/ runs'[x].verified = s.deploy
  <2>1. CASE UNCHANGED runs
    BY <2>1, Typed
  <2>2. CASE runs' = [runs EXCEPT ![s.run].deploy = s.deploy, ![s.run].verified = s.deploy,
                                  ![s.run].outcome = "DEPLOYED_AND_VERIFIED"]
    <3>1. runs[s.run] \in DeploymentRun
      BY <1>4, Typed
    <3>2. row \in DeploymentRun /\ row.deploy = s.deploy /\ row.verified = s.deploy
      BY <1>3, <3>1 DEF DeploymentRun
    <3>3. runs' = [runs EXCEPT ![s.run] = row]
      BY <2>2, <1>4
    <3> HIDE DEF row
    <3>4. /\ runs' \in Seq(DeploymentRun) /\ Len(runs') = Len(runs) /\ DOMAIN runs' = DOMAIN runs
          /\ runs'[s.run] = row /\ \A x \in DOMAIN runs : x # s.run => runs'[x] = runs[x]
      BY <1>4, <3>2, <3>3, RunWritten
    <3>5. \A x \in DOMAIN runs : runs[x].deploy <= Len(hosted)
      BY Typed
    <3>6. row.deploy <= Len(hosted)
      BY <1>3, <3>2, Typed
    <3> QED BY <3>2, <3>4, <3>5, <3>6
  <2> QED BY <1>2, <2>1, <2>2
<1>9. Grows
  <2>1. Len(runs') \in Nat /\ Len(runs) <= Len(runs')
    BY <1>8, Typed
  <2>2. \A f \in DOMAIN finals : f \in DOMAIN finals' /\ finals'[f].lead = finals[f].lead
    BY <1>6
  <2> QED BY <1>2, <2>1, <2>2, Typed DEF Grows
<1>10. DemosAreSound' /\ RunsAreSound' /\ LinkServesApprovedPage'
  <2>1. RunsAreSound'
    BY <1>4, <1>8, <1>9, RunsStay
  <2>2. LinkServesApprovedPage'
    BY <1>4, <1>5, <1>6, <1>9, LinksStay
  <2> QED BY <1>2, <1>9, <2>1, <2>2, DemosStay
<1>11. deployer' \in [Sessions -> Deployer] /\ DeployInv'
  BY <1>2, <1>7, <1>9, <1>10, CommitKeeps
<1>12. DeployTypeOK'
  <2>1. \A f \in DOMAIN finals' : finals'[f].run \in DOMAIN runs'
    BY <1>4, <1>5, <1>6, <1>8, Typed
  <2>2. \A r \in DOMAIN runs' : runs'[r].deploy <= Len(hosted')
    BY <1>2, <1>8
  <2> QED BY <1>2, <1>6, <1>7, <1>8, <1>11, <2>1, <2>2 DEF DeployTypeOK
<1> QED
  BY <1>11, <1>12

(***************************************************************************)
(* Theorems                                                                *)
(***************************************************************************)
LEMMA InitHolds == DeployInit => DeployTypeOK /\ DeployInv
<1> SUFFICES ASSUME DeployInit PROVE DeployTypeOK /\ DeployInv
  OBVIOUS
<1>1. DeployTypeOK
  <2>1. leadAt \in [Leads -> LeadStatuses] /\ page \in [Leads -> Pages \cup {"none"}]
    BY Routes DEF DeployInit
  <2>2. demos \in [Leads -> Seq(Demo)] /\ drafts \in [Leads -> Seq(Decisions)]
    <3>1. <<>> \in Seq(Demo) /\ <<>> \in Seq(Decisions)
      OBVIOUS
    <3> QED BY <3>1 DEF DeployInit
  <2>3. /\ runs \in Seq(DeploymentRun) /\ hosted \in Seq(Hosted) /\ finals \in Seq(Final)
        /\ DOMAIN runs = {} /\ DOMAIN finals = {}
    BY DEF DeployInit
  <2>4. deployer \in [Sessions -> Deployer] /\ approvedPages \subseteq Pages
    BY NobodyTyped DEF DeployInit
  <2>5. deployEvents \in 0..MaxDeployEvents
    BY DeployAssumption DEF DeployInit
  <2> QED BY <2>1, <2>2, <2>3, <2>4, <2>5 DEF DeployTypeOK
<1>2. DOMAIN runs = {} /\ DOMAIN finals = {} /\ \A l \in Leads : DOMAIN demos[l] = {} /\ leadAt[l] # "HUMAN_APPROVED"
  BY DEF DeployInit
<1>3. DemosAreSound /\ RunsAreSound /\ LinkServesApprovedPage /\ SecondApprovalStands
  BY <1>2 DEF DemosAreSound, RunsAreSound, LinkServesApprovedPage, SecondApprovalStands
<1>4. DeployersAreSound
  <2>1. HoldsNow(NoDeployer)
    BY <1>1, NothingHeld, Typed DEF HoldsNow
  <2> QED BY <2>1, SoundSessions DEF DeployInit
<1> QED
  BY <1>1, <1>3, <1>4 DEF DeployInv

LEMMA StepHolds == DeployTypeOK /\ DeployInv /\ [DeployNext]_deployVars => DeployTypeOK' /\ DeployInv'
<1> SUFFICES ASSUME DeployTypeOK, DeployInv, [DeployNext]_deployVars PROVE DeployTypeOK' /\ DeployInv'
  OBVIOUS
<1>1. CASE UNCHANGED deployVars
  <2>1. /\ page' \in [Leads -> Pages \cup {"none"}] /\ deployEvents' \in 0..MaxDeployEvents
        /\ UNCHANGED <<leadAt, page, tables, deployer, deployEvents>>
    BY <1>1 DEF deployVars, tables, DeployTypeOK
  <2>2. Grows /\ DemosAreSound' /\ RunsAreSound' /\ LinkServesApprovedPage' /\ DeployersAreSound'
    BY <2>1, QuietGrows, QuietRows, OthersKeep
  <2>3. SecondApprovalStands'
    BY <2>1 DEF DeployInv, SecondApprovalStands, tables
  <2> QED BY <2>1, <2>2, <2>3 DEF DeployInv, DeployTypeOK, tables
<1>2. ASSUME NEW w \in Sessions, NEW l \in Leads,
             \/ composeBegin(w, l) \/ decideDemo(w, l) \/ decideEmail(w, l) \/ decideFinalizedEmail(w, l)
             \/ deployDemos(w, l)
      PROVE  DeployTypeOK' /\ DeployInv'
  BY <1>2, composeBeginKeeps, decideDemoKeeps, decideEmailKeeps, decideFinalizedEmailKeeps, deployDemosKeeps
<1>3. ASSUME NEW w \in Sessions,
             \/ compose(w) \/ generate(w) \/ demoRead(w) \/ demoCommit(w) \/ decideRead(w) \/ decideCommit(w)
             \/ deployCrash(w)
      PROVE  DeployTypeOK' /\ DeployInv'
  BY <1>3, composeKeeps, demoReadKeeps, demoCommitKeeps, decideReadKeeps, decideCommitKeeps, deployCrashKeeps
<1>4. ASSUME NEW w \in Sessions,
             \/ checkEligibility(w) \/ buildDeployPackage(w) \/ findDeployByFingerprint(w) \/ reserveRun(w)
             \/ createDraftDeploy(w) \/ setDeployId(w) \/ pollDeploy(w) \/ verifyFetch(w)
             \/ recordRead(w) \/ recordTerminal(w) \/ finalizeAndRoute(w)
      PROVE  DeployTypeOK' /\ DeployInv'
  BY <1>4, checkEligibilityKeeps, buildDeployPackageKeeps, findDeployByFingerprintKeeps, reserveRunKeeps,
     createDraftDeployKeeps, setDeployIdKeeps, pollDeployKeeps, verifyFetchKeeps, recordReadKeeps,
     recordTerminalKeeps, finalizeAndRouteKeeps
<1>5. ASSUME NEW l \in Leads, emailWritten(l) \/ sentBack(l) PROVE DeployTypeOK' /\ DeployInv'
  BY <1>5, emailWrittenKeeps, sentBackKeeps
<1> QED
  BY <1>1, <1>2, <1>3, <1>4, <1>5 DEF DeployNext

(* Whatever the sessions, the operators, the crashes and Netlify do: rows and
   sessions are typed, what a session has read still holds when it writes, and
   the two properties below. *)
THEOREM DeployInvariant == DeploySpec => [](DeployTypeOK /\ DeployInv)
<1> QED
  BY InitHolds, StepHolds, PTL DEF DeploySpec

(* Every finalized e-mail links to a complete deploy of a page that a human
   approved (finalizeAndRoute, verifyDeployment and the reuse of a verified
   run). *)
THEOREM DeployIsSound == DeploySpec => []DeploySound
<1>1. DeployTypeOK /\ DeployInv => DeploySound
  BY DEF DeploySound, DeployInv
<1> QED
  BY <1>1, DeployInvariant, PTL

(* decideFinalizedEmail is the only way to HUMAN_APPROVED, and it does not come
   apart from the decision on the e-mail. *)
THEOREM SecondApprovalIsGiven == DeploySpec => []SecondApprovalStands
<1>1. DeployTypeOK /\ DeployInv => SecondApprovalStands
  BY DEF DeployInv
<1> QED
  BY <1>1, DeployInvariant, PTL

=============================================================================
