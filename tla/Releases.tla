------------------------------ MODULE Releases ------------------------------
(***************************************************************************)
(* Signed releases of the desktop application and of its components, from  *)
(* the administrators' forms and buttons to the desktops that install      *)
(* them.  A change form reads the row, save() reads it again to decide     *)
(* what may change, and the UPDATE that follows writes every column        *)
(* without a lock; Publish locks the row but not the other rows whose      *)
(* builds it compares.                                                     *)
(*                                                                         *)
(* One channel; a release is its build number, the name of its artifact,   *)
(* and what its signature signs.  Versions, metadata, modes, sizes and     *)
(* hashes follow the artifact and are left out.                            *)
(***************************************************************************)
EXTENDS Integers, FiniteSets

CONSTANTS
    Admins,         \* sessions of the Django admin and of the panel
    Desktops,       \* desktops that ask for updates, one in each office
    Resting,        \* desktops that do not, one in each office
    Kinds,          \* tables: "application", "component"
    Releases,       \* primary keys, numbered from one
    Scopes,         \* <<"all">>, <<"office", d>> for the office of d, <<"device", d>>
    MaxReleaseOps   \* bound: forms opened and buttons pressed

ASSUME ReleaseAssumption ==
    /\ Kinds \subseteq {"application", "component"}
    /\ IsFiniteSet(Releases) /\ Releases # {} /\ Releases = 1 .. Cardinality(Releases)
    /\ Scopes \subseteq {<<"all">>} \cup ({"office", "device"} \X (Desktops \cup Resting))
    /\ MaxReleaseOps \in Nat

VARIABLES
    releaseKind,    \* the table: the two follow different rules
    release,        \* the rows
    stored,         \* artifacts in private storage
    editor,         \* what each administrator is doing
    desktop,        \* each desktop's installed build and the offer it follows
    releaseOps

releaseVars == <<releaseKind, release, stored, editor, desktop, releaseOps>>

Builds == 1 .. Cardinality(Releases)
Artifacts == 1 .. 2 * Cardinality(Releases)   \* each release is uploaded twice at most
NoTargets == [offices |-> {}, devices |-> {}]
Targets == [offices : SUBSET (Desktops \cup Resting), devices : SUBSET (Desktops \cup Resting)]

\* "absent": not created yet, or deleted.
ReleaseRow == [status : {"absent", "draft", "published", "revoked"},
               build : Builds, artifact : Artifacts \cup {0},
               signs : (Builds \X Artifacts) \cup {<<>>},
               targets : Targets]

NoRelease == [status |-> "absent", build |-> 1, artifact |-> 0, signs |-> <<>>,
              targets |-> NoTargets]

Editor == [pc : {"idle", "check", "write", "clean", "delete", "publish"},
           row : Releases \cup {0},
           seen : ReleaseRow,            \* the row as it last read it
           new : ReleaseRow,             \* the row it is about to write
           upload : BOOLEAN,             \* its form carries a new file
           live : SUBSET (Releases \X Builds),  \* those no longer drafts as it checked
           panel : BOOLEAN,              \* it publishes from the panel
           garbage : Artifacts \cup {0}] \* file to remove after its commit

IdleEditor == [pc |-> "idle", row |-> 0, seen |-> NoRelease, new |-> NoRelease,
               upload |-> FALSE, live |-> {}, panel |-> FALSE, garbage |-> 0]

ReleaseInit ==
    /\ releaseKind \in Kinds
    /\ release = [r \in Releases |->
           [status |-> "draft", build |-> r, artifact |-> r, signs |-> <<r, r>>,
            targets |-> NoTargets]]
    /\ stored = Releases
    /\ editor = [a \in Admins |-> IdleEditor]
    /\ desktop = [d \in Desktops |-> [installed |-> 0, offer |-> 0]]
    /\ releaseOps = 0

-----------------------------------------------------------------------------
(* Rows, signatures and targets.                                           *)

\* verify_release_signature and verify_component_signature.
Verifies(x) == x.signs = <<x.build, x.artifact>>

NotDraft == {r \in Releases : release[r].status \in {"published", "revoked"}}
LiveBuilds == {<<r, release[r].build>> : r \in NotDraft}

\* release_applies_to_client: both lists must admit the desktop.
AppliesTo(x, d) ==
    /\ x.targets.offices = {} \/ d \in x.targets.offices
    /\ x.targets.devices = {} \/ d \in x.targets.devices

\* The targets a rollout gets from the panel.
WithScope(t, scope) ==
    CASE scope[1] = "all" -> NoTargets
      [] scope[1] = "office" ->
             [t EXCEPT !.offices = @ \cup {scope[2]}]
      [] OTHER -> [t EXCEPT !.devices = @ \cup {scope[2]}]

\* A fault: publication reads the row without locking it.
NeverLocked(a, r) == FALSE

\* The row is locked by the publication of another administrator.
LockedFor(a, r) == \E b \in Admins \ {a} : editor[b].pc = "publish" /\ editor[b].row = r

ReleaseUsed == /\ releaseOps < MaxReleaseOps
               /\ releaseOps' = releaseOps + 1

ReleaseDone(a) == editor' = [editor EXCEPT ![a] = IdleEditor]

-----------------------------------------------------------------------------
(* Change forms.                                                           *)

\* The next upload gets a name nothing else has.
FreeName == {f \in Artifacts : f \notin stored /\ \A a \in Admins : editor[a].new.artifact # f
                 /\ \A r \in Releases : release[r].artifact # f}
Upload == {f \in FreeName : \A g \in FreeName : f <= g}

\* The fields a form may change: those a published release keeps are read-only
\* in it, and a revoked one keeps its targets too.
Edits(x) ==
    IF x.status = "draft"
    THEN {[x EXCEPT !.build = b] : b \in Builds \ {x.build}}
         \cup {[x EXCEPT !.artifact = f] : f \in Upload}
         \cup {[x EXCEPT !.signs = <<x.build, x.artifact>>]}
    ELSE IF x.status = "published"
    THEN {[x EXCEPT !.targets = WithScope(NoTargets, s)] : s \in Scopes}
    ELSE {x}

\* The form is posted: Django reads the row and applies the posted fields.
FormOpen(a, r) ==
    /\ editor[a].pc = "idle" /\ release[r].status # "absent" /\ ReleaseUsed
    /\ \E x \in Edits(release[r]) :
           editor' = [editor EXCEPT ![a] = [IdleEditor EXCEPT
               !.pc = "check", !.row = r, !.new = x,
               !.upload = x.artifact # release[r].artifact]]
    /\ UNCHANGED <<releaseKind, release, stored, desktop>>

\* The add form: a new primary key, an upload, no signature yet.
FormAdd(a, r) ==
    /\ editor[a].pc = "idle" /\ release[r].status = "absent" /\ ReleaseUsed
    /\ \A b \in Admins : editor[b].row # r
    /\ \E b \in Builds, f \in Upload :
           editor' = [editor EXCEPT ![a] = [IdleEditor EXCEPT
               !.pc = "write", !.row = r, !.upload = TRUE,
               !.new = [NoRelease EXCEPT !.status = "draft", !.build = b, !.artifact = f]]]
    /\ UNCHANGED <<releaseKind, release, stored, desktop>>

Identity(x) == <<x.build, x.artifact, x.signs>>

\* A fault: a form may write any state over any other.
AnyTransition(old, new) == TRUE

\* The transitions save() lets through, given the row it reads.
TransitionAllowed(old, new) ==
    CASE old.status = "absent" -> new.status = "draft"
      [] old.status = "draft" -> new.status \in {"draft", "published"}
      [] old.status = "published" -> /\ new.status \in {"published", "revoked"}
                                     /\ Identity(new) = Identity(old)
      [] OTHER -> new.status = "revoked" /\ new.targets = old.targets
                  /\ Identity(new) = Identity(old)

\* A fault: a build below one already out is published.
AnyBuild(x) == TRUE

\* No higher build has left draft: other rows, read without a lock.
NewestBuild(x) == \A q \in NotDraft : release[q].build <= x.build

\* What save() asks of a row that becomes published.
Publishable(x) == NewestBuild(x) /\ x.artifact \in stored /\ Verifies(x)

\* A committed artifact the row no longer names is hashed again.
ArtifactReadable(a, old) ==
    \/ editor[a].upload
    \/ old.artifact = editor[a].new.artifact
    \/ editor[a].new.artifact \in stored

\* save() up to the UPDATE: read the row again, validate, hash.
FormCheck(a) ==
    LET old == release[editor[a].row] IN
    /\ editor[a].pc = "check"
    /\ IF /\ TransitionAllowed(old, editor[a].new) /\ ArtifactReadable(a, old)
          /\ old.status = "draft" /\ editor[a].new.status = "published" =>
                 Publishable(editor[a].new)
       THEN editor' = [editor EXCEPT ![a] = [@ EXCEPT
                !.pc = "write", !.seen = old, !.live = LiveBuilds,
                !.garbage = IF old.status = "draft" /\ old.artifact # editor[a].new.artifact
                            THEN old.artifact ELSE 0]]
       ELSE ReleaseDone(a)
    /\ UNCHANGED <<releaseKind, release, stored, desktop, releaseOps>>

BuildTaken(r, x) ==
    \E q \in Releases \ {r} : release[q].status # "absent" /\ release[q].build = x.build

\* The upload is stored and every column is written; a build number another
\* row has fails the transaction and leaves the file.  A row deleted meanwhile
\* is inserted again.
FormWrite(a) ==
    LET r == editor[a].row
        x == editor[a].new IN
    /\ editor[a].pc = "write" /\ ~LockedFor(a, r)
    /\ stored' = IF editor[a].upload THEN stored \cup {x.artifact} ELSE stored
    /\ IF BuildTaken(r, x)
       THEN UNCHANGED release /\ ReleaseDone(a)
       ELSE /\ release' = [release EXCEPT ![r] = x]
            /\ IF editor[a].garbage # 0
               THEN editor' = [editor EXCEPT ![a] = [IdleEditor EXCEPT
                                  !.pc = "clean", !.garbage = editor[a].garbage]]
               ELSE ReleaseDone(a)
    /\ UNCHANGED <<releaseKind, desktop, releaseOps>>

\* _delete_unreferenced_..._artifact, after the commit.
CleanArtifact(a) ==
    /\ editor[a].pc = "clean"
    /\ stored' = IF \E r \in Releases : release[r].status # "absent"
                                        /\ release[r].artifact = editor[a].garbage
                 THEN stored ELSE stored \ {editor[a].garbage}
    /\ ReleaseDone(a)
    /\ UNCHANGED <<releaseKind, release, desktop, releaseOps>>

\* The delete page is open to drafts: the row is read, then deleted unlocked.
DeleteOpen(a, r) ==
    /\ editor[a].pc = "idle" /\ release[r].status = "draft" /\ ReleaseUsed
    /\ editor' = [editor EXCEPT ![a] = [IdleEditor EXCEPT
                      !.pc = "delete", !.row = r, !.seen = release[r]]]
    /\ UNCHANGED <<releaseKind, release, stored, desktop>>

DeleteWrite(a) ==
    /\ editor[a].pc = "delete" /\ ~LockedFor(a, editor[a].row)
    /\ release' = [release EXCEPT ![editor[a].row] = NoRelease]
    /\ editor' = [editor EXCEPT ![a] = [IdleEditor EXCEPT
                      !.pc = "clean", !.garbage = editor[a].seen.artifact]]
    /\ UNCHANGED <<releaseKind, stored, desktop, releaseOps>>

-----------------------------------------------------------------------------
(* Publish and revoke, in the Django admin and in the panel.               *)

\* The draft is locked and checked; the panel also chooses its targets.
PublishBegin(a, r) ==
    /\ editor[a].pc = "idle" /\ ~LockedFor(a, r) /\ ReleaseUsed
    /\ release[r].status = "draft" /\ Publishable(release[r])
    /\ \E t \in {release[r].targets} \cup {WithScope(NoTargets, s) : s \in Scopes},
          panel \in BOOLEAN :
           /\ panel \/ t = release[r].targets
           /\ editor' = [editor EXCEPT ![a] = [IdleEditor EXCEPT
                  !.pc = "publish", !.row = r, !.seen = release[r], !.live = LiveBuilds,
                  !.panel = panel,
                  !.new = [release[r] EXCEPT !.status = "published", !.targets = t]]]
    /\ UNCHANGED <<releaseKind, release, stored, desktop>>

\* The admin action updates the status alone, the panel the whole row.
PublishCommit(a) ==
    /\ editor[a].pc = "publish"
    /\ release' = [release EXCEPT ![editor[a].row] =
           IF editor[a].panel THEN editor[a].new ELSE [@ EXCEPT !.status = "published"]]
    /\ ReleaseDone(a)
    /\ UNCHANGED <<releaseKind, stored, desktop, releaseOps>>

\* The panel adds an office or a desktop to a rollout, or opens it to all.
ExtendRollout(a, r) ==
    /\ editor[a].pc = "idle" /\ ~LockedFor(a, r) /\ ReleaseUsed
    /\ release[r].status = "published"
    /\ \E s \in Scopes :
           release' = [release EXCEPT ![r].targets = WithScope(@, s)]
    /\ UNCHANGED <<releaseKind, stored, editor, desktop>>

Revoke(a, r) ==
    /\ editor[a].pc = "idle" /\ ~LockedFor(a, r) /\ ReleaseUsed
    /\ release[r].status = "published"
    /\ release' = [release EXCEPT ![r].status = "revoked"]
    /\ UNCHANGED <<releaseKind, stored, editor, desktop>>

-----------------------------------------------------------------------------
(* Desktops.                                                               *)

\* A release the desktop can be given now.
Sendable(r, d) ==
    /\ release[r].status = "published" /\ AppliesTo(release[r], d)
    /\ release[r].artifact \in stored /\ Verifies(release[r])

\* Only the application looks above the installed build.
Above(r, d) == releaseKind = "application" => release[r].build > desktop[d].installed

\* A fault: the newest release decides, even where it does not apply.
NewestOnly(d) ==
    {r \in Releases : /\ Sendable(r, d) /\ Above(r, d)
                      /\ \A q \in Releases :
                             release[q].status = "published" /\ Above(q, d) =>
                                 release[q].build <= release[r].build}

\* select_desktop_update, select_component_updates: the newest that applies.
Selected(d) ==
    {r \in Releases : /\ Sendable(r, d) /\ Above(r, d)
                      /\ \A q \in Releases :
                             Sendable(q, d) /\ Above(q, d) =>
                                 release[q].build <= release[r].build}

\* Bootstrap, or the component manifest.
Offer(d) ==
    /\ desktop[d].offer = 0
    /\ \E r \in Selected(d) :
           /\ release[r].build # desktop[d].installed
           /\ desktop' = [desktop EXCEPT ![d].offer = r]
    /\ UNCHANGED <<releaseKind, release, stored, editor, releaseOps>>

\* The download checks the release again; refused, the desktop asks anew.
Download(d) ==
    LET r == desktop[d].offer IN
    /\ r # 0
    /\ desktop' = [desktop EXCEPT ![d] =
           [installed |-> IF Sendable(r, d) THEN release[r].build ELSE @.installed,
            offer |-> 0]]
    /\ UNCHANGED <<releaseKind, release, stored, editor, releaseOps>>

EditorStep(a) == FormCheck(a) \/ FormWrite(a) \/ CleanArtifact(a) \/ DeleteWrite(a)
                 \/ PublishCommit(a)

DesktopStep(d) == Offer(d) \/ Download(d)

ReleaseNext ==
    \/ \E a \in Admins, r \in Releases :
           \/ FormOpen(a, r) \/ FormAdd(a, r) \/ DeleteOpen(a, r)
           \/ PublishBegin(a, r) \/ ExtendRollout(a, r) \/ Revoke(a, r)
    \/ \E a \in Admins :
           \/ FormCheck(a) \/ FormWrite(a) \/ CleanArtifact(a) \/ DeleteWrite(a)
           \/ PublishCommit(a)
    \/ \E d \in Desktops : Offer(d) \/ Download(d)

ReleaseSpec == ReleaseInit /\ [][ReleaseNext]_releaseVars

-----------------------------------------------------------------------------
(* What the releases must guarantee.                                       *)

ReleaseTypeOK ==
    /\ releaseKind \in Kinds
    /\ release \in [Releases -> ReleaseRow]
    /\ stored \subseteq Artifacts
    /\ editor \in [Admins -> Editor]
    /\ desktop \in [Desktops -> [installed : Builds \cup {0}, offer : Releases \cup {0}]]
    /\ releaseOps \in 0 .. MaxReleaseOps

\* A live release carries a signature of the build and the artifact it has now,
\* whatever forms and buttons overlapped (DesktopRelease.save and the row lock
\* of publish_releases).
PublishedIsSigned ==
    \A r \in Releases : release[r].status = "published" => Verifies(release[r])

LegalTransition(old, new) ==
    \/ new = old
    \/ old.status \in {"absent", "draft"} /\ new.status \in {"absent", "draft"}
    \/ old.status = "draft" /\ new.status = "published"
    \/ /\ old.status = "published" /\ new.status \in {"published", "revoked"}
       /\ Identity(new) = Identity(old)

\* The write of a form or of a deletion whose row changed after it was read.
Overtaken(r) ==
    \E a \in Admins : /\ editor[a].row = r /\ editor[a].pc \in {"write", "delete"}
                      /\ editor'[a].row # r
                      /\ editor[a].seen # release[r]

\* A release goes from draft to published to revoked, its artifact and build
\* fixed from publication on, and only drafts are deleted - unless the row
\* changed between the reading and the writing of a form or of a deletion, the
\* window save() leaves open.
ReleaseLifecycle ==
    [][\A r \in Releases : LegalTransition(release[r], release'[r]) \/ Overtaken(r)]_releaseVars

\* A release is published above every build already published or revoked, unless
\* its own row, or that other one, changed after it was checked.
BuildsInOrder ==
    [][\A a \in Admins, r \in Releases :
           /\ editor[a].pc \in {"publish", "write"} /\ editor[a].row = r
           /\ editor'[a].row # r /\ editor[a].seen = release[r]
           /\ release[r].status = "draft" /\ release'[r].status = "published"
           => \A q \in NotDraft : <<q, release[q].build>> \in editor[a].live =>
                  release[q].build <= release'[r].build]_releaseVars

UpToDate(d) ==
    \A r \in Releases :
        /\ Sendable(r, d)
        /\ \A q \in Releases : Sendable(q, d) => release[q].build <= release[r].build
        => IF releaseKind = "application" THEN desktop[d].installed >= release[r].build
           ELSE desktop[d].installed = release[r].build

\* Once the administrators stop, every desktop that keeps asking comes to run
\* the newest release meant for it, and after a revocation a component falls
\* back to the one before.
DesktopsCatchUp == \A d \in Desktops : <>[]UpToDate(d)
=============================================================================
