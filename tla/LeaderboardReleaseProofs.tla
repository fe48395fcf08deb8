---------------------- MODULE LeaderboardReleaseProofs ----------------------
(***************************************************************************)
(* Theorems about LeaderboardRelease, checked by TLAPS for every value of    *)
(* its constants.                                                           *)
(***************************************************************************)
EXTENDS LeaderboardRelease, TLAPS

-----------------------------------------------------------------------------
(* The strengthening.                                                       *)

FromReceipt == {"keep"} \cup Attempting
FromRelease == {"receipt"} \cup FromReceipt
FromCertificate == {"release"} \cup FromRelease
FromHistory == {"certificate"} \cup FromCertificate
FromCurrent == {"history"} \cup FromHistory
FromBaseline == {"current"} \cup FromCurrent
FromCertify == {"baseline"} \cup FromBaseline

\* There is one certificate at most, that of the comparison on disk.
CertifiedInv ==
    \A s \in Source : certified[s] # None => history # None /\ history.refs[2] = s

\* What a run has frozen and written so far is what it has in memory.
RunInv ==
    /\ pc \in {"certify"} \cup FromCertify => runtime \in 1..Heads /\ pair \in Pairs
    /\ pc \in FromCertify => /\ certificate \in Certificates /\ certificate.runtime = runtime
                             /\ scoped \in 1..Scopes
    /\ pc \in FromBaseline => snapshots[Baseline] = runtime
    /\ pc \in FromCurrent => snapshots[Current] = runtime
    /\ pc \in FromHistory => history = Compared
    /\ pc \in FromCertificate => certified[Current] = certificate
    /\ pc \in FromRelease => release = Decided
    /\ pc \in FromReceipt => receipt = Decided /\ hub
    /\ pc \in Attempting => kept \in Kept

\* What has been exported is under the decision and has been replayed before it
\* is handed over.
ExportInv ==
    /\ target # None => target \in replayed
    /\ pc \in Attempting /\ kept.target # None => kept.target \in replayed
    /\ pc \in {"replay", "deliver", "mounted", "bind"} =>
          /\ package \in Packages
          /\ package.release = release /\ package.receipt = receipt
          /\ package.certificate = release.certificate
    /\ pc \in {"deliver", "mounted", "bind"} => package \in replayed
    /\ pc \in {"mounted", "bind"} => target = package

BaseInv == LeaderboardTypeOK /\ CertifiedInv /\ RunInv /\ ExportInv /\ ReleaseEvidenced

\* An attempt keeps the promotion that is there, and changes it at its end only.
AttemptInv == pc \in Attempting => kept.promotion = promotion

\* A roll-back restores the package first and the hub's copy next.
RestoreInv ==
    /\ pc \in {"restore_target", "restore_promotion"} => package = kept.package
    /\ pc = "restore_promotion" => target = kept.target

PromotionInv == BaseInv /\ AttemptInv /\ PromotionStands

-----------------------------------------------------------------------------
(* Of what a run has in memory.                                             *)

LEMMA RunFacts ==
    ASSUME RunInv, pc \in {"certify"} \cup FromCertify
    PROVE  /\ runtime \in 1..Heads /\ runtime # 0 /\ pair \in Pairs
           /\ Baseline \in Source /\ Current \in Source
           /\ Compared \in Comparisons /\ Compared # None
<1>1. runtime \in 1..Heads /\ pair \in Pairs
  BY DEF RunInv
<1>2. Baseline \in Source /\ Current \in Source /\ runtime # 0
  BY <1>1, LeaderboardAssumption DEF Baseline, Current
<1>3. Compared \in Comparisons
  BY <1>1 DEF Compared, Comparisons
<1>4. Compared # None
  BY <1>3, LeaderboardAssumption
<1>. QED
  BY <1>1, <1>2, <1>3, <1>4

LEMMA DecidedFacts ==
    ASSUME RunInv, pc \in FromCertify
    PROVE  /\ Decided \in Decisions /\ Decided # None
           /\ certificate \in Certificates /\ certificate # None
           /\ certificate.runtime = runtime
<1>1. certificate \in Certificates /\ certificate.runtime = runtime
  BY DEF RunInv
<1>2. Compared \in Comparisons
  BY RunFacts
<1>3. scoped \in 1..Scopes
  BY DEF RunInv
<1>4. Decided \in Decisions
  BY <1>1, <1>2, <1>3 DEF Decided, Decisions
<1>. QED
  BY <1>1, <1>4, LeaderboardAssumption

\* The latest certificate is that of the run.
LEMMA LatestIsCurrent ==
    ASSUME LeaderboardTypeOK, RunInv, CertifiedInv, pc \in FromCertificate,
           NEW source \in Source, Latest(source)
    PROVE  source = Current /\ certified[source] = certificate
<1>1. pc \in FromHistory /\ pc \in FromCertify
  BY DEF FromHistory, FromCurrent, FromBaseline, FromCertify
<1>2. history = Compared /\ certified[Current] = certificate
  BY <1>1 DEF RunInv
<1>3. history.refs[2] = source
  BY DEF Latest, CertifiedInv
<1>. QED
  BY <1>2, <1>3 DEF Compared, Current

-----------------------------------------------------------------------------
(* Evidence is immutable.                                                   *)

LEMMA EvidenceStays ==
    ASSUME LeaderboardTypeOK, RunInv, [Next]_vars
    PROVE  /\ \A s \in Source : /\ snapshots[s] # 0 => snapshots'[s] = snapshots[s]
                                /\ certified[s] # None => certified'[s] = certified[s]
           /\ history # None => history' = history
<1>1. ASSUME NEW source \in Source, NEW stage, NEW next, FreezeSnapshot(source, stage, next)
      PROVE  /\ \A s \in Source : snapshots[s] # 0 => snapshots'[s] = snapshots[s]
             /\ UNCHANGED <<certified, history>>
  BY <1>1 DEF FreezeSnapshot, Frozen, LeaderboardTypeOK
<1>2. CASE \/ FreezeSnapshot(Baseline, "baseline", "current")
           \/ FreezeSnapshot(Current, "current", "history")
  <2>1. pc \in {"certify"} \cup FromCertify
    BY <1>2 DEF FreezeSnapshot, FromCertify, FromBaseline
  <2>. QED
    BY <1>1, <1>2, <2>1, RunFacts
<1>3. CASE FreezeHistory
  BY <1>3 DEF FreezeHistory, Frozen
<1>4. CASE FreezeCertificate
  BY <1>4 DEF FreezeCertificate, Frozen, LeaderboardTypeOK
<1>5. CASE CommitMade \/ RefsChange \/ ScopeEdited \/ (\E withHub \in BOOLEAN : Start(withHub))
           \/ ReuseOrCertify \/ Block \/ WriteRelease \/ WriteReceipt \/ Federate \/ End
           \/ Crash \/ UNCHANGED vars
  BY <1>5 DEF CommitMade, RefsChange, ScopeEdited, Start, ReuseOrCertify, Block, WriteRelease, WriteReceipt,
              Federate, NoCheckout, Keep, Export, ExportFails, ReplayPasses, Deliver,
              MountedCheckPasses, Fail, Bind, RestorePackage, RestoreTarget, RestorePromotion,
              End, Crash, vars, evidence
<1>. QED
  BY <1>2, <1>3, <1>4, <1>5 DEF Next, Produce

-----------------------------------------------------------------------------
(* Types.                                                                   *)

LEMMA Bounds == /\ 0 \in 0..Heads /\ 1 \in 1..Heads /\ 0 \in 0..Stamps /\ 0 \in 0..Crashes
                /\ 0 \in 0..Scopes /\ 1 \in 1..Scopes
BY LeaderboardAssumption

LEMMA InitType == Init => LeaderboardTypeOK
<1>. SUFFICES ASSUME Init
              PROVE  LeaderboardTypeOK
  OBVIOUS
<1>1. /\ head \in 1..Heads /\ refs \in Pairs /\ clock \in 0..Stamps
      /\ snapshots \in [Source -> 0..Heads]
      /\ runtime \in 0..Heads /\ crashes \in 0..Crashes
      /\ scope \in 1..Scopes /\ scoped \in 0..Scopes
  BY Bounds DEF Init
<1>2. certified \in [Source -> Maybe(Certificates)]
  BY DEF Init, Maybe
<1>3. /\ history \in Maybe(Comparisons) /\ release \in Maybe(Decisions)
      /\ receipt \in Maybe(Decisions) /\ package \in Packages \cup {None, Torn}
      /\ target \in Maybe(Packages) /\ promotion \in Maybe(Promotions)
      /\ pair \in Maybe(Pairs) /\ certificate \in Maybe(Certificates)
      /\ kept \in Maybe(Kept)
  BY DEF Init, Maybe
<1>4. pc \in Stages /\ hub \in BOOLEAN /\ replayed \subseteq Packages
  BY DEF Init, Stages
<1>. QED
  BY <1>1, <1>2, <1>3, <1>4 DEF LeaderboardTypeOK

LEMMA ForgetType ==
    ASSUME Forget
    PROVE  /\ hub' \in BOOLEAN /\ runtime' \in 0..Heads /\ pair' \in Maybe(Pairs)
           /\ certificate' \in Maybe(Certificates) /\ kept' \in Maybe(Kept)
           /\ scoped' \in 0..Scopes
<1>1. runtime' = 0 /\ hub' = FALSE /\ scoped' = 0
  BY DEF Forget
<1>2. runtime' \in 0..Heads /\ scoped' \in 0..Scopes
  BY <1>1, Bounds
<1>. QED
  BY <1>1, <1>2 DEF Forget, Maybe

LEMMA ProduceType ==
    ASSUME LeaderboardTypeOK, RunInv, Produce
    PROVE  LeaderboardTypeOK'
<1>1. pc \in {"certify"} \cup FromCertify
  BY DEF Produce, ReuseOrCertify, Block, FreezeSnapshot, FreezeHistory, FreezeCertificate,
         WriteRelease, WriteReceipt, FromCertify, FromBaseline, FromCurrent, FromHistory,
         FromCertificate, FromRelease
<1>2. /\ runtime \in 1..Heads /\ pair \in Pairs /\ Baseline \in Source /\ Current \in Source
      /\ Compared \in Comparisons
  BY <1>1, RunFacts
<1>3. CASE ReuseOrCertify
  <2>1. certificate' \in Maybe(Certificates) /\ clock' \in 0..Stamps
    <3>1. CASE Reuse
      BY <1>2, <3>1 DEF Reuse, LeaderboardTypeOK
    <3>2. CASE Certify
      <4>1. clock' \in 1..Stamps
        BY <3>2, LeaderboardAssumption DEF Certify, LeaderboardTypeOK
      <4>2. certificate' \in Certificates
        BY <1>2, <3>2, <4>1 DEF Certify, Certificates
      <4>. QED
        BY <4>1, <4>2 DEF Maybe
    <3>. QED
      BY <1>3, <3>1, <3>2 DEF ReuseOrCertify
  <2>2. scoped' \in 0..Scopes
    BY <1>3, LeaderboardAssumption DEF ReuseOrCertify, LeaderboardTypeOK
  <2>. QED
    BY <1>3, <2>1, <2>2 DEF ReuseOrCertify, LeaderboardTypeOK, checkout, evidence, decision, files,
                      aux, Go, Stages
<1>4. CASE Block
  BY <1>4 DEF Block, LeaderboardTypeOK, checkout, evidence, decision, files, run, aux, Go,
              Stages
<1>5. ASSUME NEW source \in Source, NEW stage, NEW next \in Stages,
             FreezeSnapshot(source, stage, next)
      PROVE  LeaderboardTypeOK'
  <2>1. snapshots' \in [Source -> 0..Heads] /\ pc' \in Stages
    BY <1>2, <1>5 DEF FreezeSnapshot, LeaderboardTypeOK, Go, Stages
  <2>. QED
    BY <1>5, <2>1 DEF FreezeSnapshot, LeaderboardTypeOK, checkout, decision, files, run, aux
<1>6. CASE \/ FreezeSnapshot(Baseline, "baseline", "current")
           \/ FreezeSnapshot(Current, "current", "history")
  BY <1>2, <1>5, <1>6 DEF Stages
<1>7. CASE FreezeHistory
  <2>1. history' \in Maybe(Comparisons) /\ pc' \in Stages
    BY <1>2, <1>7 DEF FreezeHistory, LeaderboardTypeOK, Go, Stages, Maybe
  <2>. QED
    BY <1>7, <2>1 DEF FreezeHistory, LeaderboardTypeOK, checkout, decision, files, run, aux
<1>8. CASE FreezeCertificate
  <2>1. certificate \in Certificates
    BY <1>8 DEF FreezeCertificate, RunInv, FromCertify, FromBaseline, FromCurrent, FromHistory
  <2>2. certified' \in [Source -> Maybe(Certificates)] /\ pc' \in Stages
    BY <1>2, <1>8, <2>1 DEF FreezeCertificate, LeaderboardTypeOK, Go, Stages, Maybe
  <2>. QED
    BY <1>8, <2>2 DEF FreezeCertificate, LeaderboardTypeOK, checkout, decision, files, run, aux
<1>9. CASE WriteRelease \/ WriteReceipt
  <2>1. pc \in FromCertify
    BY <1>9 DEF WriteRelease, WriteReceipt, FromCertify, FromBaseline, FromCurrent, FromHistory,
                FromCertificate, FromRelease
  <2>2. Decided \in Maybe(Decisions)
    BY <2>1, DecidedFacts DEF Maybe
  <2>3. release' \in Maybe(Decisions) /\ receipt' \in Maybe(Decisions) /\ pc' \in Stages
    BY <1>9, <2>2 DEF WriteRelease, WriteReceipt, LeaderboardTypeOK, Go, Stages
  <2>. QED
    BY <1>9, <2>3 DEF WriteRelease, WriteReceipt, LeaderboardTypeOK, checkout, evidence, files,
                      run, aux
<1>. QED
  BY <1>3, <1>4, <1>6, <1>7, <1>8, <1>9 DEF Produce

\* An export is of the decision and the certificate on disk.
LEMMA ExportFacts ==
    ASSUME LeaderboardTypeOK, RunInv, CertifiedInv, Export
    PROVE  /\ package' \in Packages /\ clock' \in 0..Stamps
           /\ package'.release = release /\ package'.receipt = receipt
           /\ package'.certificate = certificate /\ release = Decided /\ receipt = Decided
<1>1. /\ pc \in FromCertificate /\ pc \in FromCertify /\ pc \in FromRelease
      /\ pc \in FromReceipt
  BY DEF Export, FromCertificate, FromRelease, FromReceipt, Attempting, FromCertify,
         FromBaseline, FromCurrent, FromHistory
<1>2. release = Decided /\ receipt = Decided
  BY <1>1 DEF RunInv
<1>3. Decided \in Decisions /\ certificate \in Certificates
  BY <1>1, DecidedFacts
<1>4. clock' \in 1..Stamps
  BY LeaderboardAssumption DEF Export, LeaderboardTypeOK
<1>5. PICK source \in Source :
          /\ Latest(source)
          /\ package' = [release |-> release, receipt |-> receipt,
                         certificate |-> certified[source], scope |-> scope,
                         stamp |-> clock']
  BY DEF Export
<1>6. certified[source] = certificate
  BY <1>1, <1>5, LatestIsCurrent
<1>7. scope \in 1..Scopes
  BY DEF LeaderboardTypeOK
<1>. QED
  BY <1>2, <1>3, <1>4, <1>5, <1>6, <1>7 DEF Packages

LEMMA NextType ==
    ASSUME LeaderboardTypeOK, CertifiedInv, RunInv, ExportInv, [Next]_vars
    PROVE  LeaderboardTypeOK'
<1>1. CASE CommitMade \/ RefsChange \/ ScopeEdited
  BY <1>1, LeaderboardAssumption
  DEF CommitMade, RefsChange, ScopeEdited, LeaderboardTypeOK, evidence, decision, files, run, aux
<1>2. CASE \E withHub \in BOOLEAN : Start(withHub)
  BY <1>2, LeaderboardAssumption
  DEF Start, LeaderboardTypeOK, checkout, evidence, decision, files, aux, Go, Stages, Maybe
<1>3. CASE Produce
  BY <1>3, ProduceType
<1>4. CASE NoCheckout \/ MountedCheckPasses \/ Fail
  BY <1>4 DEF NoCheckout, MountedCheckPasses, Fail, LeaderboardTypeOK, checkout, evidence,
              decision, files, run, aux, Go, Stages
<1>5. CASE Keep
  <2>1. kept' \in Maybe(Kept)
    BY <1>5 DEF Keep, LeaderboardTypeOK, Kept, Maybe
  <2>. QED
    BY <1>5, <2>1 DEF Keep, LeaderboardTypeOK, checkout, evidence, decision, files, aux, Go,
                      Stages
<1>6. CASE Export
  <2>1. package' \in Packages /\ clock' \in 0..Stamps
    BY <1>6, ExportFacts
  <2>. QED
    BY <1>6, <2>1 DEF Export, LeaderboardTypeOK, checkout, evidence, decision, run, aux, Go,
                      Stages
<1>7. CASE ExportFails
  BY <1>7 DEF ExportFails, LeaderboardTypeOK, checkout, evidence, decision, run, aux, Go, Stages
<1>8. CASE ReplayPasses
  <2>1. package \in Packages
    BY <1>8 DEF ReplayPasses, ExportInv
  <2>. QED
    BY <1>8, <2>1 DEF ReplayPasses, LeaderboardTypeOK, checkout, evidence, decision, files, run,
                      Go, Stages
<1>9. CASE Deliver
  <2>1. package \in Packages
    BY <1>9 DEF Deliver, ExportInv
  <2>. QED
    BY <1>9, <2>1 DEF Deliver, LeaderboardTypeOK, checkout, evidence, decision, run, aux, Go,
                      Stages, Maybe
<1>10. CASE Bind
  <2>1. /\ pc \in FromRelease /\ pc \in FromReceipt /\ pc \in FromCertify
        /\ package \in Packages
    BY <1>10 DEF Bind, ExportInv, FromRelease, FromReceipt, Attempting, FromCertify,
                 FromBaseline, FromCurrent, FromHistory, FromCertificate
  <2>2. release \in Decisions /\ receipt \in Decisions
    BY <2>1, DecidedFacts DEF RunInv
  <2>3. promotion' \in Maybe(Promotions)
    BY <1>10, <2>1, <2>2 DEF Bind, LeaderboardTypeOK, Promotions, Maybe
  <2>. QED
    BY <1>10, <2>3 DEF Bind, LeaderboardTypeOK, checkout, evidence, decision, run, aux, Go,
                       Stages
<1>11. CASE RestorePackage \/ RestoreTarget \/ RestorePromotion
  <2>1. kept \in Kept
    BY <1>11 DEF RestorePackage, RestoreTarget, RestorePromotion, RunInv, Attempting
  <2>2. /\ kept.package \in Packages \cup {None, Torn} /\ kept.target \in Maybe(Packages)
        /\ kept.promotion \in Maybe(Promotions)
    BY <2>1 DEF Kept
  <2>. QED
    BY <1>11, <2>2 DEF RestorePackage, RestoreTarget, RestorePromotion, LeaderboardTypeOK,
                       checkout, evidence, decision, run, aux, Go, Stages
<1>12. CASE End
  BY <1>12, ForgetType
  DEF End, LeaderboardTypeOK, checkout, evidence, decision, files, aux, Go, Stages
<1>13. CASE Crash
  <2>1. package' \in Packages \cup {None, Torn} /\ crashes' \in 0..Crashes
    BY <1>13, LeaderboardAssumption DEF Crash, LeaderboardTypeOK
  <2>. QED
    BY <1>13, <2>1, ForgetType
    DEF Crash, LeaderboardTypeOK, checkout, evidence, decision, Go, Stages
<1>14. CASE UNCHANGED vars
  BY <1>14 DEF vars, LeaderboardTypeOK, checkout, evidence, decision, files, run, aux
<1>. QED
  BY <1>1, <1>2, <1>3, <1>4, <1>5, <1>6, <1>7, <1>8, <1>9, <1>10, <1>11, <1>12, <1>13, <1>14
  DEF Next, Federate

-----------------------------------------------------------------------------
(* The certificate is that of the comparison.                               *)

LEMMA NextCertified ==
    ASSUME LeaderboardTypeOK, CertifiedInv, RunInv, [Next]_vars
    PROVE  CertifiedInv'
<1>1. CASE FreezeCertificate
  <2>1. pc \in FromHistory /\ pc \in {"certify"} \cup FromCertify
    BY <1>1 DEF FreezeCertificate, FromCertify, FromBaseline, FromCurrent, FromHistory
  <2>2. history = Compared /\ Compared # None /\ Current \in Source
    BY <2>1, RunFacts DEF RunInv
  <2>3. history' = history /\ history.refs[2] = Current
    BY <1>1, <2>2 DEF FreezeCertificate, Compared, Current
  <2>4. \A s \in Source : s # Current => certified'[s] = certified[s]
    BY <1>1 DEF FreezeCertificate, LeaderboardTypeOK
  <2>. QED
    BY <2>2, <2>3, <2>4 DEF CertifiedInv
<1>2. CASE FreezeHistory
  <2>1. history # None => history' = history
    BY <1>2, EvidenceStays
  <2>2. certified' = certified
    BY <1>2 DEF FreezeHistory
  <2>. QED
    BY <2>1, <2>2 DEF CertifiedInv
<1>3. CASE \/ FreezeSnapshot(Baseline, "baseline", "current")
           \/ FreezeSnapshot(Current, "current", "history")
  BY <1>3 DEF FreezeSnapshot, CertifiedInv
<1>4. CASE CommitMade \/ RefsChange \/ ScopeEdited \/ (\E withHub \in BOOLEAN : Start(withHub))
           \/ ReuseOrCertify \/ Block \/ WriteRelease \/ WriteReceipt \/ Federate \/ End
           \/ Crash \/ UNCHANGED vars
  <2>1. UNCHANGED <<certified, history>>
    BY <1>4 DEF CommitMade, RefsChange, ScopeEdited, Start, ReuseOrCertify, Block, WriteRelease,
                WriteReceipt, Federate, NoCheckout, Keep, Export, ExportFails, ReplayPasses,
                Deliver, MountedCheckPasses, Fail, Bind, RestorePackage, RestoreTarget,
                RestorePromotion, End, Crash, vars, evidence
  <2>. QED
    BY <2>1 DEF CertifiedInv
<1>. QED
  BY <1>1, <1>2, <1>3, <1>4 DEF Next, Produce

-----------------------------------------------------------------------------
(* What a run has done so far.                                              *)

LEMMA NextRun ==
    ASSUME LeaderboardTypeOK, CertifiedInv, RunInv, [Next]_vars
    PROVE  RunInv'
<1>. USE DEF FromReceipt, FromRelease, FromCertificate, FromHistory, FromCurrent, FromBaseline,
             FromCertify, Attempting
<1>1. CASE CommitMade \/ RefsChange \/ ScopeEdited \/ UNCHANGED vars
  BY <1>1 DEF CommitMade, RefsChange, ScopeEdited, vars, evidence, decision, files, run, RunInv, Baseline,
              Current, Compared, Decided
<1>2. ASSUME NEW withHub \in BOOLEAN, Start(withHub)
      PROVE  RunInv'
  BY <1>2 DEF Start, Go, LeaderboardTypeOK, RunInv
<1>3. CASE End \/ Crash \/ Block
  BY <1>3 DEF End, Crash, Block, Go, RunInv
<1>4. CASE ReuseOrCertify
  <2>1. runtime \in 1..Heads /\ pair \in Pairs /\ Current \in Source
    BY <1>4, RunFacts DEF ReuseOrCertify
  <2>2. certificate' \in Certificates /\ certificate'.runtime = runtime
    <3>1. CASE Reuse
      BY <2>1, <3>1 DEF Reuse, LeaderboardTypeOK, Maybe
    <3>2. CASE Certify
      <4>1. clock' \in 1..Stamps
        BY <3>2, LeaderboardAssumption DEF Certify, LeaderboardTypeOK
      <4>. QED
        BY <2>1, <3>2, <4>1 DEF Certify, Certificates
    <3>. QED
      BY <1>4, <3>1, <3>2 DEF ReuseOrCertify
  <2>3. pc' = "baseline" /\ UNCHANGED <<runtime, pair>> /\ scoped' \in 1..Scopes
    BY <1>4 DEF ReuseOrCertify, Go, LeaderboardTypeOK
  <2>. QED
    BY <2>1, <2>2, <2>3 DEF RunInv
<1>5. CASE FreezeSnapshot(Baseline, "baseline", "current")
  <2>1. Baseline \in Source
    BY <1>5, RunFacts DEF FreezeSnapshot
  <2>. QED
    BY <1>5, <2>1 DEF FreezeSnapshot, Go, LeaderboardTypeOK, RunInv, run, Baseline
<1>6. CASE FreezeSnapshot(Current, "current", "history")
  <2>1. Baseline \in Source /\ Current \in Source /\ snapshots[Baseline] = runtime
    BY <1>6, RunFacts DEF FreezeSnapshot, RunInv
  <2>2. \/ pc' = "exit"
        \/ pc' = "history" /\ snapshots' = [snapshots EXCEPT ![Current] = runtime]
    BY <1>6 DEF FreezeSnapshot, Go
  <2>3. CASE pc' = "exit"
    BY <2>3 DEF RunInv
  <2>4. CASE pc' = "history" /\ snapshots' = [snapshots EXCEPT ![Current] = runtime]
    <3>1. snapshots'[Current] = runtime /\ snapshots'[Baseline] = runtime
      BY <2>1, <2>4 DEF LeaderboardTypeOK
    <3>2. UNCHANGED <<runtime, pair, scoped, certificate>>
      BY <1>6 DEF FreezeSnapshot, run
    <3>3. pc = "current"
      BY <1>6 DEF FreezeSnapshot
    <3>. QED
      BY <2>4, <3>1, <3>2, <3>3 DEF RunInv, Baseline, Current
  <2>. QED
    BY <2>2, <2>3, <2>4
<1>7. CASE FreezeHistory
  BY <1>7 DEF FreezeHistory, Go, RunInv, run, Baseline, Current, Compared
<1>8. CASE FreezeCertificate
  <2>1. Current \in Source
    BY <1>8, RunFacts DEF FreezeCertificate
  <2>. QED
    BY <1>8, <2>1 DEF FreezeCertificate, Go, LeaderboardTypeOK, RunInv, run, Baseline, Current,
                      Compared
<1>9. CASE WriteRelease \/ WriteReceipt
  BY <1>9 DEF WriteRelease, WriteReceipt, Go, RunInv, run, evidence, Baseline, Current, Compared,
              Decided
<1>10. CASE NoCheckout
  BY <1>10 DEF NoCheckout, Go, RunInv
<1>11. CASE Keep
  <2>1. kept' \in Kept
    BY <1>11 DEF Keep, LeaderboardTypeOK, Kept
  <2>. QED
    BY <1>11, <2>1 DEF Keep, Go, RunInv, evidence, decision, Baseline, Current, Compared, Decided
<1>12. CASE Export \/ ExportFails \/ ReplayPasses \/ Deliver \/ MountedCheckPasses \/ Fail
            \/ Bind \/ RestorePackage \/ RestoreTarget \/ RestorePromotion
  <2>1. /\ pc \in Attempting /\ pc' \in Attempting \cup {"exit"}
        /\ UNCHANGED <<snapshots, history, certified, release, receipt, hub, runtime, pair,
                       scoped, certificate, kept>>
    BY <1>12 DEF Export, ExportFails, ReplayPasses, Deliver, MountedCheckPasses, Fail, Bind,
                 RestorePackage, RestoreTarget, RestorePromotion, Go, evidence, decision, run
  <2>. QED
    BY <2>1 DEF RunInv, Baseline, Current, Compared, Decided
<1>. QED
  BY <1>1, <1>2, <1>3, <1>4, <1>5, <1>6, <1>7, <1>8, <1>9, <1>10, <1>11, <1>12
  DEF Next, Produce, Federate

-----------------------------------------------------------------------------
(* What is handed over has been replayed.                                   *)

LEMMA NextExport ==
    ASSUME LeaderboardTypeOK, CertifiedInv, RunInv, ExportInv, [Next]_vars
    PROVE  ExportInv'
<1>. USE DEF Attempting
<1>1. CASE \/ CommitMade \/ RefsChange \/ ScopeEdited \/ (\E withHub \in BOOLEAN : Start(withHub))
           \/ ReuseOrCertify \/ Block
           \/ FreezeSnapshot(Baseline, "baseline", "current")
           \/ FreezeSnapshot(Current, "current", "history")
           \/ FreezeHistory \/ FreezeCertificate \/ WriteRelease \/ WriteReceipt \/ NoCheckout
           \/ End \/ UNCHANGED vars
  <2>1. \/ UNCHANGED <<files, decision, pc, kept, replayed>>
        \/ UNCHANGED <<files, replayed>> /\ pc' \notin Attempting
    BY <1>1 DEF CommitMade, RefsChange, ScopeEdited, Start, ReuseOrCertify, Block, FreezeSnapshot,
                FreezeHistory, FreezeCertificate, WriteRelease, WriteReceipt, NoCheckout, End,
                vars, run, aux, Go
  <2>. QED
    BY <2>1 DEF ExportInv, files, decision
<1>2. CASE Keep
  BY <1>2 DEF Keep, Go, files, aux, ExportInv
<1>3. CASE Export
  <2>1. /\ package' \in Packages
        /\ package'.release = release /\ package'.receipt = receipt
        /\ package'.certificate = certificate /\ release = Decided
    BY <1>3, ExportFacts
  <2>2. release.certificate = certificate
    BY <2>1 DEF Decided
  <2>3. pc' = "replay" /\ pc = "export" /\ UNCHANGED <<release, receipt, target, kept, replayed>>
    BY <1>3 DEF Export, Go, decision, run, aux
  <2>. QED
    BY <2>1, <2>2, <2>3 DEF ExportInv
<1>4. CASE ExportFails \/ RestorePackage
  BY <1>4 DEF ExportFails, RestorePackage, Go, run, aux, ExportInv
<1>5. CASE ReplayPasses \/ Deliver \/ MountedCheckPasses \/ Fail \/ Bind
  BY <1>5 DEF ReplayPasses, Deliver, MountedCheckPasses, Fail, Bind, Go, decision, files, run,
              aux, ExportInv
<1>6. CASE RestoreTarget \/ RestorePromotion
  BY <1>6 DEF RestoreTarget, RestorePromotion, Go, run, aux, ExportInv
<1>7. CASE Crash
  BY <1>7 DEF Crash, Go, ExportInv
<1>. QED
  BY <1>1, <1>2, <1>3, <1>4, <1>5, <1>6, <1>7 DEF Next, Produce, Federate

-----------------------------------------------------------------------------
(* What is decided has its evidence.                                        *)

LEMMA EvidencedStays ==
    ASSUME LeaderboardTypeOK, RunInv, [Next]_vars, NEW decided \in Decisions, Evidenced(decided)
    PROVE  Evidenced(decided)'
<1>1. /\ decided.history \in Comparisons /\ decided.certificate \in Certificates
      /\ decided.history.refs \in Pairs /\ decided.history.runtime \in 1..Heads
  BY DEF Decisions, Comparisons
<1>2. /\ decided.history.refs[1] \in Source /\ decided.history.refs[2] \in Source
      /\ decided.history # None /\ decided.certificate # None /\ decided.history.runtime # 0
  BY <1>1, LeaderboardAssumption
<1>. QED
  BY <1>2, EvidenceStays DEF Evidenced

LEMMA NextEvidenced ==
    ASSUME LeaderboardTypeOK, RunInv, ReleaseEvidenced, [Next]_vars
    PROVE  ReleaseEvidenced'
<1>1. \A decided \in {release, receipt} \ {None} : Evidenced(decided)'
  <2>1. {release, receipt} \ {None} \subseteq Decisions
    BY DEF LeaderboardTypeOK, Maybe
  <2>. QED
    BY <2>1, EvidencedStays DEF ReleaseEvidenced
<1>2. CASE WriteRelease \/ WriteReceipt
  <2>1. pc \in FromCertificate /\ pc \in FromCertify
    BY <1>2 DEF WriteRelease, WriteReceipt, FromCertificate, FromRelease, FromCertify,
                FromBaseline, FromCurrent, FromHistory
  <2>2. /\ snapshots[Baseline] = runtime /\ snapshots[Current] = runtime /\ history = Compared
        /\ certified[Current] = certificate /\ certificate.runtime = runtime
    BY <2>1 DEF RunInv, FromCertify, FromBaseline, FromCurrent, FromHistory
  <2>3. PICK document \in Decisions : document = Decided
    BY <2>1, DecidedFacts
  <2>4. Evidenced(document)'
    <3>1. Evidenced(document)
      BY <2>2, <2>3 DEF Evidenced, Decided, Compared, Baseline, Current
    <3>. QED
      BY <3>1, EvidencedStays
  <2>5. {release', receipt'} \subseteq {release, receipt, document}
    BY <1>2, <2>3 DEF WriteRelease, WriteReceipt
  <2>6. ASSUME NEW decided \in {release', receipt'} \ {None}
        PROVE  Evidenced(decided)'
    BY <1>1, <2>4, <2>5
  <2>. QED
    BY <2>6 DEF ReleaseEvidenced
<1>3. CASE ~(WriteRelease \/ WriteReceipt)
  <2>1. UNCHANGED <<release, receipt>>
    BY <1>3 DEF Next, CommitMade, RefsChange, ScopeEdited, Start, Produce, ReuseOrCertify, Block,
                FreezeSnapshot, FreezeHistory, FreezeCertificate, Federate, NoCheckout, Keep,
                Export, ExportFails, ReplayPasses, Deliver, MountedCheckPasses, Fail, Bind,
                RestorePackage, RestoreTarget, RestorePromotion, End, Crash, vars, decision
  <2>. QED
    BY <1>1, <2>1 DEF ReleaseEvidenced
<1>. QED
  BY <1>2, <1>3

-----------------------------------------------------------------------------
(* Promotions.                                                              *)

\* No step but the last of an attempt touches the promotion.
LEMMA PromotionKept ==
    ASSUME [Next]_vars, ~Bind, ~RestorePromotion
    PROVE  promotion' = promotion
BY DEF Next, CommitMade, RefsChange, ScopeEdited, Start, Produce, ReuseOrCertify, Block,
       FreezeSnapshot, FreezeHistory, FreezeCertificate, WriteRelease, WriteReceipt,
       Federate, NoCheckout, Keep, Export, ExportFails, ReplayPasses, Deliver,
       MountedCheckPasses, Fail, RestorePackage, RestoreTarget, End, Crash, vars, files

LEMMA NextAttempt ==
    ASSUME BaseInv, AttemptInv, [Next]_vars
    PROVE  AttemptInv'
<1>. USE DEF Attempting
<1>1. CASE CommitMade \/ RefsChange \/ ScopeEdited \/ UNCHANGED vars
  BY <1>1 DEF CommitMade, RefsChange, ScopeEdited, vars, files, run, AttemptInv
<1>2. CASE (\E withHub \in BOOLEAN : Start(withHub)) \/ Produce \/ NoCheckout \/ End \/ Crash
           \/ Bind \/ RestorePromotion
  <2>1. pc' \notin Attempting
    BY <1>2 DEF Start, Produce, ReuseOrCertify, Block, FreezeSnapshot, FreezeHistory,
                FreezeCertificate, WriteRelease, WriteReceipt, NoCheckout, End, Crash, Bind,
                RestorePromotion, Go
  <2>. QED
    BY <2>1 DEF AttemptInv
<1>3. CASE Keep
  BY <1>3 DEF Keep, Go, files, AttemptInv
<1>4. CASE Export \/ ExportFails \/ ReplayPasses \/ Deliver \/ MountedCheckPasses \/ Fail
           \/ RestorePackage \/ RestoreTarget
  BY <1>4 DEF Export, ExportFails, ReplayPasses, Deliver, MountedCheckPasses, Fail,
              RestorePackage, RestoreTarget, Go, files, run, AttemptInv
<1>. QED
  BY <1>1, <1>2, <1>3, <1>4 DEF Next, Federate

\* At the end of an attempt all that it binds is of one decision.
LEMMA BindFacts ==
    ASSUME BaseInv, Bind
    PROVE  /\ release = Decided /\ receipt = Decided /\ Decided \in Decisions
           /\ Evidenced(release)
           /\ package \in Packages /\ package # None /\ target = package
           /\ package \in replayed
           /\ package.release = release /\ package.receipt = receipt
           /\ package.certificate = release.certificate
           /\ [release |-> release, receipt |-> receipt, scope |-> scope,
               package |-> package] \in Promotions
<1>1. /\ pc = "bind" /\ pc \in FromReceipt /\ pc \in FromRelease /\ pc \in FromCertify
  BY DEF Bind, FromReceipt, FromRelease, FromCertify, FromBaseline, FromCurrent, FromHistory,
         FromCertificate, Attempting
<1>2. RunInv /\ ExportInv /\ LeaderboardTypeOK /\ ReleaseEvidenced
  BY DEF BaseInv
<1>3. release = Decided /\ receipt = Decided /\ Decided \in Decisions /\ Decided # None
  BY <1>1, <1>2, DecidedFacts DEF RunInv
<1>4. Evidenced(release)
  BY <1>2, <1>3 DEF ReleaseEvidenced
<1>5. /\ package \in Packages /\ target = package /\ package \in replayed
      /\ package.release = release /\ package.receipt = receipt
      /\ package.certificate = release.certificate
  BY <1>1, <1>2 DEF ExportInv
<1>6. package # None
  BY <1>5, LeaderboardAssumption
<1>7. scope \in 1..Scopes
  BY <1>2 DEF LeaderboardTypeOK
<1>8. [release |-> release, receipt |-> receipt, scope |-> scope,
       package |-> package] \in Promotions
  BY <1>3, <1>5, <1>7 DEF Promotions
<1>. QED
  BY <1>3, <1>4, <1>5, <1>6, <1>8

\* What is bound is made of things that do not change.
LEMMA StandsOn ==
    ASSUME BaseInv, PromotionStands, promotion # None, promotion' = promotion, [Next]_vars
    PROVE  PromotionStands'
<1>1. LeaderboardTypeOK /\ RunInv
  BY DEF BaseInv
<1>2. promotion \in Promotions
  BY <1>1 DEF LeaderboardTypeOK, Maybe
<1>3. PICK decided \in Decisions : decided = promotion.release
  BY <1>2 DEF Promotions
<1>4. Evidenced(decided)
  BY <1>3 DEF PromotionStands
<1>5. Evidenced(decided)'
  BY <1>1, <1>4, EvidencedStays
<1>6. replayed \subseteq replayed'
  BY DEF Next, CommitMade, RefsChange, ScopeEdited, Start, Produce, ReuseOrCertify, Block,
         FreezeSnapshot, FreezeHistory, FreezeCertificate, WriteRelease, WriteReceipt,
         Federate, NoCheckout, Keep, Export, ExportFails, ReplayPasses, Deliver,
         MountedCheckPasses, Fail, Bind, RestorePackage, RestoreTarget, RestorePromotion, End,
         Crash, vars, aux
<1>7. /\ promotion.receipt = decided
      /\ promotion.package.release = decided /\ promotion.package.receipt = decided
      /\ promotion.package.certificate = decided.certificate
      /\ promotion.package \in replayed'
  BY <1>3, <1>6 DEF PromotionStands
<1>. QED
  BY <1>3, <1>5, <1>7 DEF PromotionStands

LEMMA NextStands ==
    ASSUME PromotionInv, [Next]_vars
    PROVE  PromotionStands'
<1>0. BaseInv /\ AttemptInv /\ PromotionStands /\ LeaderboardTypeOK /\ RunInv
  BY DEF PromotionInv, BaseInv
<1>1. CASE promotion' = promotion
  <2>1. CASE promotion = None
    BY <1>1, <2>1 DEF PromotionStands
  <2>. QED
    BY <1>0, <1>1, <2>1, StandsOn
<1>2. CASE promotion' # promotion
  <2>1. Bind
    <3>1. ASSUME RestorePromotion
          PROVE  promotion' = promotion
      BY <1>0, <3>1 DEF RestorePromotion, AttemptInv, Attempting
    <3>. QED
      BY <1>2, <3>1, PromotionKept
  <2>2. /\ promotion' = [release |-> release, receipt |-> receipt, scope |-> scope,
                        package |-> package]
        /\ UNCHANGED <<release, receipt, package, replayed>>
    BY <1>2, <2>1 DEF Bind, decision, aux
  <2>3. /\ release = Decided /\ receipt = Decided /\ Decided \in Decisions
        /\ Evidenced(release) /\ package \in replayed
        /\ package.release = release /\ package.receipt = receipt
        /\ package.certificate = release.certificate
    BY <1>0, <2>1, BindFacts
  <2>4. PICK decided \in Decisions : decided = release
    BY <2>3
  <2>5. Evidenced(decided)'
    BY <1>0, <2>3, <2>4, EvidencedStays
  <2>6. /\ promotion'.release = decided /\ promotion'.receipt = decided
        /\ promotion'.package.release = decided /\ promotion'.package.receipt = decided
        /\ promotion'.package.certificate = decided.certificate
        /\ promotion'.package \in replayed'
    BY <2>2, <2>3, <2>4
  <2>. QED
    BY <2>5, <2>6 DEF PromotionStands
<1>. QED
  BY <1>1, <1>2

LEMMA NextRestore ==
    ASSUME RestoreInv, [Next]_vars
    PROVE  RestoreInv'
<1>1. CASE RestorePackage \/ RestoreTarget
  BY <1>1 DEF RestorePackage, RestoreTarget, Go, run, RestoreInv
<1>2. CASE CommitMade \/ RefsChange \/ ScopeEdited \/ UNCHANGED vars
  BY <1>2 DEF CommitMade, RefsChange, ScopeEdited, vars, files, run, RestoreInv
<1>3. CASE ~(RestorePackage \/ RestoreTarget \/ CommitMade \/ RefsChange \/ ScopeEdited \/ UNCHANGED vars)
  <2>1. pc' \notin {"restore_target", "restore_promotion"}
    BY <1>3 DEF Next, Start, Produce, ReuseOrCertify, Block, FreezeSnapshot, FreezeHistory,
                FreezeCertificate, WriteRelease, WriteReceipt, Federate, NoCheckout, Keep,
                Export, ExportFails, ReplayPasses, Deliver, MountedCheckPasses, Fail, Bind,
                RestorePromotion, End, Crash, Go
  <2>. QED
    BY <2>1 DEF RestoreInv
<1>. QED
  BY <1>1, <1>2, <1>3

-----------------------------------------------------------------------------
(* The theorems.                                                            *)

LEMMA BaseInvariant == Spec => []BaseInv
<1>1. Init => BaseInv
  <2>. SUFFICES ASSUME Init
                PROVE  BaseInv
    OBVIOUS
  <2>1. LeaderboardTypeOK
    BY InitType
  <2>2. CertifiedInv /\ ReleaseEvidenced
    BY DEF Init, CertifiedInv, ReleaseEvidenced
  <2>3. RunInv /\ ExportInv
    BY DEF Init, RunInv, ExportInv, FromCertify, FromBaseline, FromCurrent, FromHistory,
           FromCertificate, FromRelease, FromReceipt, Attempting
  <2>. QED
    BY <2>1, <2>2, <2>3 DEF BaseInv
<1>2. BaseInv /\ [Next]_vars => BaseInv'
  BY NextType, NextCertified, NextRun, NextExport, NextEvidenced DEF BaseInv
<1>. QED
  BY <1>1, <1>2, PTL DEF Spec

\* Every file of the release has its type; above all, what the hub holds and
\* what is promoted is a whole package, although the exporter writes in place
\* and may be killed (_run_export and the roll-back of main).
THEOREM LeaderboardTypeCorrect == Spec => []LeaderboardTypeOK
<1>1. BaseInv => LeaderboardTypeOK
  BY DEF BaseInv
<1>. QED
  BY <1>1, BaseInvariant, PTL

\* A release or a receipt has its evidence on disk at every moment, for any
\* commits, source refs and crashes (the order of the writes in main, and
\* _write_immutable).
THEOREM ReleasesEvidenced == Spec => []ReleaseEvidenced
<1>1. BaseInv => ReleaseEvidenced
  BY DEF BaseInv
<1>. QED
  BY <1>1, BaseInvariant, PTL

\* The hub's copy has passed its replay, through every roll-back and crash
\* (main, the order of the attempt).
THEOREM DeliveriesReplayed == Spec => []DeliveredWasReplayed
<1>1. BaseInv => DeliveredWasReplayed
  BY DEF BaseInv, ExportInv, DeliveredWasReplayed
<1>. QED
  BY <1>1, BaseInvariant, PTL

LEMMA PromotionInvariant == Spec => [](PromotionInv /\ RestoreInv)
<1>1. Init => AttemptInv /\ PromotionStands /\ RestoreInv
  BY DEF Init, AttemptInv, PromotionStands, RestoreInv, Attempting
<1>2. /\ BaseInv /\ BaseInv' /\ AttemptInv /\ PromotionStands /\ RestoreInv /\ [Next]_vars
      => AttemptInv' /\ PromotionStands' /\ RestoreInv'
  BY NextAttempt, NextStands, NextRestore DEF PromotionInv
<1>3. BaseInv /\ AttemptInv /\ PromotionStands => PromotionInv
  BY DEF PromotionInv
<1>. QED
  BY <1>1, <1>2, <1>3, BaseInvariant, PTL DEF Spec

\* What a promotion binds is one decision, exported and replayed under it, with
\* its evidence on disk for good, through any later runs, commits and edits
\* (main and _write_immutable).
THEOREM PromotionsStand == Spec => []PromotionStands
<1>1. PromotionInv => PromotionStands
  BY DEF PromotionInv
<1>. QED
  BY <1>1, PromotionInvariant, PTL

\* Every step is a promotion, a later delivery, a crash, or nothing to an onlooker
\* who is shown the kept files while an attempt is under way.
LEMMA StepPromotes ==
    ASSUME PromotionInv, RestoreInv, [Next]_vars
    PROVE  [Promoted!Next]_Promoted!files
<1>. DEFINE Package == IF pc \in Attempting THEN kept.package ELSE package
            Target == IF pc \in Attempting THEN kept.target ELSE target
            Promotion == IF promotion = None THEN None ELSE promotion.package
<1>0. BaseInv /\ AttemptInv /\ LeaderboardTypeOK
  BY DEF PromotionInv, BaseInv
<1>1. ASSUME UNCHANGED <<Package, Target, Promotion, crashes>>
      PROVE  [Promoted!Next]_Promoted!files
  BY <1>1 DEF Promoted!files
<1>2. CASE Crash
  <2>1. crashes' = crashes + 1 /\ promotion' = promotion
    BY <1>2 DEF Crash
  <2>2. Promotion' = Promotion
    BY <2>1
  <2>. QED
    BY <2>1, <2>2 DEF Promoted!Next, Promoted!Break
<1>3. CASE Bind
  <2>1. /\ pc' = "exit" /\ UNCHANGED <<package, target, crashes>>
        /\ package \in Packages /\ package # None /\ target = package
    BY <1>0, <1>3, BindFacts DEF Bind, Go, aux
  <2>2. Package' = package /\ Target' = package
    BY <2>1 DEF Attempting
  <2>3. CASE promotion = None
    <3>1. promotion' = [release |-> release, receipt |-> receipt, scope |-> scope,
                        package |-> package]
      BY <1>3, <2>3 DEF Bind, Frozen
    <3>2. promotion' # None
      BY <1>0, <1>3, <3>1, BindFacts, LeaderboardAssumption
    <3>3. Promotion = None /\ Promotion' = package
      BY <2>3, <3>1, <3>2
    <3>. QED
      BY <2>1, <2>2, <3>3 DEF Promoted!Next, Promoted!Promote
  <2>4. CASE promotion # None
    <3>1. promotion' = promotion
      BY <1>3, <2>4 DEF Bind, Frozen
    <3>2. promotion.package \in Packages
      BY <1>0, <2>4 DEF LeaderboardTypeOK, Maybe, Promotions
    <3>3. Promotion # None /\ Promotion' = Promotion
      BY <2>4, <3>1, <3>2, LeaderboardAssumption
    <3>. QED
      BY <2>1, <2>2, <3>3 DEF Promoted!Next, Promoted!Redeliver
  <2>. QED
    BY <2>3, <2>4
<1>4. CASE RestorePromotion
  <2>1. /\ pc \in Attempting /\ pc' \notin Attempting /\ promotion' = promotion
        /\ package = kept.package /\ target = kept.target
        /\ UNCHANGED <<package, target, crashes>>
    BY <1>0, <1>4 DEF RestorePromotion, Go, RestoreInv, AttemptInv, Attempting, aux
  <2>. QED
    BY <1>1, <2>1
<1>5. CASE Export \/ ExportFails \/ ReplayPasses \/ Deliver \/ MountedCheckPasses \/ Fail
           \/ RestorePackage \/ RestoreTarget
  <2>1. pc \in Attempting /\ pc' \in Attempting /\ UNCHANGED <<kept, promotion, crashes>>
    BY <1>5 DEF Export, ExportFails, ReplayPasses, Deliver, MountedCheckPasses, Fail,
                RestorePackage, RestoreTarget, Go, Attempting, files, run, aux
  <2>. QED
    BY <1>1, <2>1
<1>6. CASE Keep
  <2>1. /\ pc \notin Attempting /\ pc' \in Attempting
        /\ kept'.package = package /\ kept'.target = target
        /\ UNCHANGED <<package, target, promotion, crashes>>
    BY <1>6 DEF Keep, Go, Attempting, files, aux
  <2>. QED
    BY <1>1, <2>1
<1>7. CASE NoCheckout \/ Produce \/ (\E withHub \in BOOLEAN : Start(withHub)) \/ End
  <2>1. /\ pc \notin Attempting /\ pc' \notin Attempting
        /\ UNCHANGED <<package, target, promotion, crashes>>
    BY <1>7 DEF NoCheckout, Produce, ReuseOrCertify, Block, FreezeSnapshot, FreezeHistory,
                FreezeCertificate, WriteRelease, WriteReceipt, Start, End, Go, Attempting,
                files, aux
  <2>. QED
    BY <1>1, <2>1
<1>8. CASE CommitMade \/ RefsChange \/ ScopeEdited \/ UNCHANGED vars
  <2>1. UNCHANGED <<package, target, promotion, crashes, pc, kept>>
    BY <1>8 DEF CommitMade, RefsChange, ScopeEdited, vars, files, run, aux
  <2>. QED
    BY <1>1, <2>1
<1>. QED
  BY <1>2, <1>3, <1>4, <1>5, <1>6, <1>7, <1>8 DEF Next, Federate

\* The finalizer implements Promotion: package, hub copy and promotion receipt
\* change together, what is handed over later leaves the receipt as it is, and
\* an attempt that fails changes none of them (main, lines 440 to 471).
THEOREM FinalizerPromotes == Spec => PromotesAtOnce
<1>1. Init => Promoted!Init
  BY DEF Init, Promoted!Init, Attempting
<1>2. (PromotionInv /\ RestoreInv) /\ [Next]_vars => [Promoted!Next]_Promoted!files
  BY StepPromotes
<1>. QED
  BY <1>1, <1>2, PromotionInvariant, PTL DEF Spec, PromotesAtOnce, Promoted!Spec

=============================================================================
