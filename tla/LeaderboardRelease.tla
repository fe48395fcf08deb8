------------------------- MODULE LeaderboardRelease -------------------------
(***************************************************************************)
(* The finalizer of the leaderboard release                                  *)
(* (scripts/finalize_leaderboard_release.py) and the exporter that it runs    *)
(* (scripts/export_leaderboard_package.py).  A run replays two versions of    *)
(* the debt sources under the checked-out code, freezes the snapshots, their  *)
(* comparison and the certificate, writes the release and the receipt over    *)
(* them and, given a checkout of the hub, exports the package, has the hub     *)
(* replay it, hands it over and binds it in a promotion receipt.  A failure   *)
(* from the export on is rolled back; a run may die at any point.             *)
(***************************************************************************)
EXTENDS Integers, FiniteSets

CONSTANTS
    Source,       \* commits of the debt sources, by the time of the commit
    Pairs,        \* <<baseline, current>>: what the file of source refs may name
    Heads,        \* bound: commits that the producer may have checked out
    Scopes,       \* bound: forms of the scope file
    Stamps,       \* bound: certificates and packages made, each with its time
    Crashes,      \* bound: runs that die
    None,         \* no file, and for the release and the receipt a mere template
    Torn          \* a package written in part

VARIABLES
    head, refs,   \* the producer's checkout: its commit, its source refs
    scope,        \* and its certification scope, in one form or another
    clock,        \* the time, as the number of stamps given out
    snapshots,    \* disk: the commit under which each source was replayed, or 0
    history,      \* disk: the receipt of the comparison
    certified,    \* disk: the certified snapshots
    release,      \* disk: the release contract
    receipt,      \* disk: the producer's certification
    package,      \* disk: the export
    target,       \* hub: its copy of the package
    promotion,    \* disk: the federation-promotion receipt
    pc,           \* process: how far main() is
    hub,          \* process: whether --thehub-root is given
    runtime,      \* process: the commit it runs under
    pair,         \* process: the source refs it has read
    scoped,       \* process: the form of the scope that it has hashed
    certificate,  \* process: the certificate it reuses or has made
    kept,         \* process: the files that a failure restores
    replayed,     \* auxiliary: the packages that have passed the hub's replay
    crashes       \* auxiliary: how many runs have died

checkout == <<head, refs, scope>>
evidence == <<snapshots, history, certified>>
decision == <<release, receipt>>
files == <<package, target, promotion>>
run == <<hub, runtime, pair, scoped, certificate, kept>>
aux == <<replayed, crashes>>
vars == <<checkout, clock, evidence, decision, files, pc, run, aux>>

Certificates == [source : Source, runtime : 1..Heads, stamp : 1..Stamps]
Comparisons == [refs : Pairs, runtime : 1..Heads]
Decisions == [history : Comparisons, certificate : Certificates, scope : 1..Scopes]
Packages == [release : Decisions, receipt : Decisions, certificate : Certificates,
             scope : 1..Scopes, stamp : 1..Stamps]
Promotions == [release : Decisions, receipt : Decisions, scope : 1..Scopes,
               package : Packages]
Maybe(set) == set \cup {None}
Kept == [package : Packages \cup {None, Torn}, target : Maybe(Packages),
         promotion : Maybe(Promotions)]

ASSUME LeaderboardAssumption ==
    /\ Source \subseteq Nat /\ IsFiniteSet(Source)
    /\ Pairs \subseteq Source \X Source /\ Pairs # {}
    /\ Heads \in Nat \ {0} /\ Scopes \in Nat \ {0}
    /\ Stamps \in Nat /\ Crashes \in Nat
    /\ None \notin Pairs \cup Certificates \cup Comparisons \cup Decisions \cup Packages
    /\ None \notin Promotions \cup Kept /\ Torn \notin Maybe(Packages)

Stages == {"idle", "certify", "baseline", "current", "history", "certificate", "release",
           "receipt", "keep", "export", "replay", "deliver", "mounted", "bind",
           "restore_package", "restore_target", "restore_promotion", "exit"}
Attempting == {"export", "replay", "deliver", "mounted", "bind",
               "restore_package", "restore_target", "restore_promotion"}

Go(stage) == pc' = stage

-----------------------------------------------------------------------------
CommitMade ==
    /\ head < Heads
    /\ head' = head + 1
    /\ UNCHANGED <<refs, scope, clock, evidence, decision, files, pc, run, aux>>

RefsChange ==
    /\ refs' \in Pairs \ {refs}
    /\ UNCHANGED <<head, scope, clock, evidence, decision, files, pc, run, aux>>

ScopeEdited ==
    /\ scope' \in (1..Scopes) \ {scope}
    /\ UNCHANGED <<head, refs, clock, evidence, decision, files, pc, run, aux>>

\* A run reads the refs and its commit once.
Start(withHub) ==
    /\ pc = "idle"
    /\ Go("certify")
    /\ hub' = withHub /\ runtime' = head /\ pair' = refs
    /\ UNCHANGED <<checkout, clock, evidence, decision, files, scoped, certificate,
                   kept, aux>>

Baseline == pair[1]
Current == pair[2]
Compared == [refs |-> pair, runtime |-> runtime]
Decided == [history |-> Compared, certificate |-> certificate, scope |-> scoped]

\* _reuse_or_certify: a certificate is reused if it is of this very snapshot.
Reuse ==
    /\ certified[Current] # None
    /\ certified[Current].runtime = runtime
    /\ certificate' = certified[Current]
    /\ clock' = clock

Certify ==
    /\ certified[Current] = None
    /\ clock < Stamps
    /\ clock' = clock + 1
    /\ certificate' = [source |-> Current, runtime |-> runtime, stamp |-> clock']

\* With the certificate there is a decision, under the scope as it is by then.
ReuseOrCertify ==
    /\ pc = "certify"
    /\ Reuse \/ Certify
    /\ scoped' = scope
    /\ Go("baseline")
    /\ UNCHANGED <<checkout, evidence, decision, files, hub, runtime, pair, kept, aux>>

\* SystemExit before anything is written: the replay, the accounting or the
\* expected delta does not close, or the certificate is of another commit.
Block ==
    /\ pc = "certify"
    /\ Go("exit")
    /\ UNCHANGED <<checkout, clock, evidence, decision, files, run, aux>>

-----------------------------------------------------------------------------
SlipFrozen(file, absent, document) == TRUE

\* _write_immutable: what is there must be the same to the byte.
Frozen(file, absent, document) == file = absent \/ file = document

FreezeSnapshot(source, stage, next) ==
    /\ pc = stage
    /\ IF Frozen(snapshots[source], 0, runtime)
       THEN snapshots' = [snapshots EXCEPT ![source] = runtime] /\ Go(next)
       ELSE UNCHANGED snapshots /\ Go("exit")
    /\ UNCHANGED <<checkout, clock, history, certified, decision, files, run, aux>>

FreezeHistory ==
    /\ pc = "history"
    /\ IF Frozen(history, None, Compared)
       THEN history' = Compared /\ Go("certificate")
       ELSE UNCHANGED history /\ Go("exit")
    /\ UNCHANGED <<checkout, clock, snapshots, certified, decision, files, run, aux>>

SlipFreezeCertificate ==              \* written after the decision
    /\ pc = "certificate"
    /\ Go("release")
    /\ UNCHANGED <<checkout, clock, evidence, decision, files, run, aux>>

FreezeCertificate ==
    /\ pc = "certificate"
    /\ IF Frozen(certified[Current], None, certificate)
       THEN certified' = [certified EXCEPT ![Current] = certificate] /\ Go("release")
       ELSE UNCHANGED certified /\ Go("exit")
    /\ UNCHANGED <<checkout, clock, snapshots, history, decision, files, run, aux>>

WriteRelease ==
    /\ pc = "release"
    /\ release' = Decided
    /\ Go("receipt")
    /\ UNCHANGED <<checkout, clock, evidence, receipt, files, run, aux>>

WriteReceipt ==
    /\ pc = "receipt"
    /\ receipt' = Decided
    /\ Go(IF hub THEN "keep" ELSE "exit")
    /\ UNCHANGED <<checkout, clock, evidence, release, files, run, aux>>

NoCheckout ==
    /\ pc = "keep"
    /\ Go("exit")
    /\ UNCHANGED <<checkout, clock, evidence, decision, files, run, aux>>

Keep ==
    /\ pc = "keep"
    /\ kept' = [package |-> package, target |-> target, promotion |-> promotion]
    /\ Go("export")
    /\ UNCHANGED <<checkout, clock, evidence, decision, files, hub, runtime, pair, scoped,
                   certificate, aux>>

-----------------------------------------------------------------------------
\* latest_certified_snapshot: of the certified snapshots, the one of the latest
\* source.
Latest(source) ==
    /\ certified[source] # None
    /\ \A other \in Source : certified[other] # None => other <= source

\* The exporter wants the release, the receipt and the latest certified
\* snapshot, and that to be of the commit it is given.
Export ==
    /\ pc = "export" /\ clock < Stamps
    /\ release # None /\ receipt # None
    /\ clock' = clock + 1
    /\ \E source \in Source :
        /\ Latest(source) /\ certified[source].runtime = runtime
        /\ package' = [release |-> release, receipt |-> receipt,
                       certificate |-> certified[source], scope |-> scope,
                       stamp |-> clock']
    /\ Go("replay")
    /\ UNCHANGED <<checkout, evidence, decision, target, promotion, run, aux>>

SlipExportFails ==                    \* a killed exporter counts as a finished one
    /\ pc = "export"
    /\ package' \in {package, Torn}
    /\ Go(IF package' = Torn THEN "replay" ELSE "restore_package")
    /\ UNCHANGED <<checkout, clock, evidence, decision, target, promotion, run, aux>>

\* The exporter refuses, fails, or is killed at its time limit while it writes.
ExportFails ==
    /\ pc = "export"
    /\ package' \in {package, Torn}
    /\ Go("restore_package")
    /\ UNCHANGED <<checkout, clock, evidence, decision, target, promotion, run, aux>>

ReplayPasses ==
    /\ pc = "replay"
    /\ replayed' = replayed \cup {package}
    /\ Go("deliver")
    /\ UNCHANGED <<checkout, clock, evidence, decision, files, run, crashes>>

SlipDeliver ==                        \* the hub is to replay its own copy
    /\ pc \in {"replay", "deliver"}
    /\ target' = package
    /\ Go("mounted")
    /\ UNCHANGED <<checkout, clock, evidence, decision, package, promotion, run, aux>>

Deliver ==
    /\ pc = "deliver"
    /\ target' = package
    /\ Go("mounted")
    /\ UNCHANGED <<checkout, clock, evidence, decision, package, promotion, run, aux>>

MountedCheckPasses ==
    /\ pc = "mounted"
    /\ Go("bind")
    /\ UNCHANGED <<checkout, clock, evidence, decision, files, run, aux>>

\* A replay, a check or a write that fails or takes too long.
Fail ==
    /\ pc \in {"replay", "deliver", "mounted", "bind"}
    /\ Go("restore_package")
    /\ UNCHANGED <<checkout, clock, evidence, decision, files, run, aux>>

\* The receipt is immutable too, and the SystemExit of _write_immutable is no
\* Exception: nothing is rolled back then.
Bind ==
    /\ pc = "bind"
    /\ LET document == [release |-> release, receipt |-> receipt, scope |-> scope,
                     package |-> package]
       IN promotion' = IF Frozen(promotion, None, document) THEN document ELSE promotion
    /\ Go("exit")
    /\ UNCHANGED <<checkout, clock, evidence, decision, package, target, run, aux>>

RestorePackage ==
    /\ pc = "restore_package"
    /\ package' = kept.package
    /\ Go("restore_target")
    /\ UNCHANGED <<checkout, clock, evidence, decision, target, promotion, run, aux>>

SlipRestoreTarget ==                  \* the hub's copy is forgotten
    /\ pc = "restore_target"
    /\ Go("restore_promotion")
    /\ UNCHANGED <<checkout, clock, evidence, decision, files, run, aux>>

RestoreTarget ==
    /\ pc = "restore_target"
    /\ target' = kept.target
    /\ Go("restore_promotion")
    /\ UNCHANGED <<checkout, clock, evidence, decision, package, promotion, run, aux>>

RestorePromotion ==
    /\ pc = "restore_promotion"
    /\ promotion' = kept.promotion
    /\ Go("exit")
    /\ UNCHANGED <<checkout, clock, evidence, decision, package, target, run, aux>>

Forget ==
    /\ hub' = FALSE /\ runtime' = 0 /\ pair' = None /\ scoped' = 0 /\ certificate' = None
    /\ kept' = None

End ==
    /\ pc = "exit"
    /\ Go("idle")
    /\ Forget
    /\ UNCHANGED <<checkout, clock, evidence, decision, files, aux>>

\* A run dies; if it is exporting, perhaps in the middle of the file.
Crash ==
    /\ pc # "idle" /\ crashes < Crashes
    /\ crashes' = crashes + 1
    /\ package' \in {package} \cup (IF pc = "export" THEN {Torn} ELSE {})
    /\ Go("idle")
    /\ Forget
    /\ UNCHANGED <<checkout, clock, evidence, decision, target, promotion, replayed>>

-----------------------------------------------------------------------------
Init ==
    /\ head = 1 /\ refs \in Pairs /\ scope = 1 /\ clock = 0
    /\ snapshots = [s \in Source |-> 0] /\ history = None
    /\ certified = [s \in Source |-> None]
    /\ release = None /\ receipt = None
    /\ package = None /\ target = None /\ promotion = None
    /\ pc = "idle" /\ hub = FALSE /\ runtime = 0 /\ pair = None /\ scoped = 0
    /\ certificate = None /\ kept = None /\ replayed = {} /\ crashes = 0

Produce ==
    \/ ReuseOrCertify \/ Block
    \/ FreezeSnapshot(Baseline, "baseline", "current")
    \/ FreezeSnapshot(Current, "current", "history")
    \/ FreezeHistory \/ FreezeCertificate \/ WriteRelease \/ WriteReceipt

Federate ==
    \/ NoCheckout \/ Keep
    \/ Export \/ ExportFails \/ ReplayPasses \/ Deliver \/ MountedCheckPasses \/ Fail \/ Bind
    \/ RestorePackage \/ RestoreTarget \/ RestorePromotion

Next ==
    \/ CommitMade \/ RefsChange \/ ScopeEdited
    \/ \E withHub \in BOOLEAN : Start(withHub)
    \/ Produce \/ Federate \/ End
    \/ Crash

Spec == Init /\ [][Next]_vars

-----------------------------------------------------------------------------
(* Properties.                                                              *)

LeaderboardTypeOK ==
    /\ head \in 1..Heads /\ refs \in Pairs /\ scope \in 1..Scopes /\ clock \in 0..Stamps
    /\ snapshots \in [Source -> 0..Heads] /\ history \in Maybe(Comparisons)
    /\ certified \in [Source -> Maybe(Certificates)]
    /\ release \in Maybe(Decisions) /\ receipt \in Maybe(Decisions)
    /\ package \in Packages \cup {None, Torn} /\ target \in Maybe(Packages)
    /\ promotion \in Maybe(Promotions)
    /\ pc \in Stages /\ hub \in BOOLEAN /\ runtime \in 0..Heads /\ pair \in Maybe(Pairs)
    /\ scoped \in 0..Scopes /\ certificate \in Maybe(Certificates) /\ kept \in Maybe(Kept)
    /\ replayed \subseteq Packages /\ crashes \in 0..Crashes

Evidenced(decided) ==
    LET pairOf == decided.history.refs
        runtimeOf == decided.history.runtime
    IN  /\ snapshots[pairOf[1]] = runtimeOf /\ snapshots[pairOf[2]] = runtimeOf
        /\ history = decided.history
        /\ certified[pairOf[2]] = decided.certificate
        /\ decided.certificate.runtime = runtimeOf

\* At every moment, also after a crash, a release or a receipt on disk has its
\* evidence on disk: both snapshots, of one commit, their comparison, and the
\* certificate of the later one.
ReleaseEvidenced == \A decided \in {release, receipt} \ {None} : Evidenced(decided)

\* What is promoted stands: the release and the receipt that it binds are one
\* decision, its package was exported under them with their certificate and has
\* passed the hub's replay, and the evidence of the decision stays on disk,
\* whatever later runs, commits, source refs and edited scopes bring.  (The
\* files it binds may be overwritten by then.)
PromotionStands ==
    promotion # None =>
        LET decided == promotion.release
        IN  /\ promotion.receipt = decided
            /\ promotion.package.release = decided /\ promotion.package.receipt = decided
            /\ promotion.package.certificate = decided.certificate
            /\ promotion.package \in replayed
            /\ Evidenced(decided)

\* The hub's copy is never one that has not passed the hub's replay, whatever
\* was rolled back or broken off.
DeliveredWasReplayed == target # None => target \in replayed

\* The promotion is one step, so is a delivery after it, and a run that fails
\* is none.
Promoted ==
    INSTANCE Promotion WITH
        package <- IF pc \in Attempting THEN kept.package ELSE package,
        target <- IF pc \in Attempting THEN kept.target ELSE target,
        promotion <- IF promotion = None THEN None ELSE promotion.package

PromotesAtOnce == Promoted!Spec
=============================================================================
