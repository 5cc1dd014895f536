-------------------------- MODULE ReleasesProofs --------------------------
(* Proofs about the releases, for every number of administrators, desktops, *)
(* releases and rollouts and every number of forms and buttons.             *)
EXTENDS Releases, FiniteSetTheorems, TLAPS

-----------------------------------------------------------------------------
(* The inductive invariant.                                                 *)

HasFile(x) == x.status # "absent" => x.artifact # 0

\* No build in a set of releases and builds is above that of x.
NoneAbove(live, x) == \A p \in live : p[2] <= x.build

\* What an administrator's session knows of its own work, whatever the others
\* do: which row it is about, what save() let through, what was locked.
EditorSound(e) ==
    /\ e.pc \in {"check", "write", "delete", "publish"} => e.row \in Releases
    /\ HasFile(e.new)
    /\ e.pc = "write" =>
           /\ TransitionAllowed(e.seen, e.new)
           /\ e.new.status = "published" => Verifies(e.new)
           /\ e.seen.status = "draft" /\ e.new.status = "published" =>
                  NoneAbove(e.live, e.new)
    /\ e.pc = "delete" => e.seen.status = "draft"
    /\ e.pc = "publish" =>
           /\ e.seen.status = "draft" /\ Verifies(e.seen) /\ HasFile(e.seen)
           /\ e.new.status = "published" /\ Identity(e.new) = Identity(e.seen)
           /\ NoneAbove(e.live, e.new)

EditorsSound == \A a \in Admins : EditorSound(editor[a])

\* The row lock of a publication: nobody writes its row, nobody else publishes it.
LocksHold ==
    \A a \in Admins : editor[a].pc = "publish" =>
        /\ release[editor[a].row] = editor[a].seen
        /\ ~LockedFor(a, editor[a].row)

RowsSound ==
    \A r \in Releases : /\ HasFile(release[r])
                        /\ release[r].status = "published" => Verifies(release[r])

ReleaseInv == ReleaseTypeOK /\ EditorsSound /\ LocksHold /\ RowsSound

-----------------------------------------------------------------------------
(* Where everything starts.                                                 *)

LEMMA ReleaseCounts ==
  /\ Cardinality(Releases) \in Nat
  /\ Releases = Builds /\ Releases \subseteq Artifacts /\ 0 \notin Releases
  /\ Builds \subseteq Nat \ {0} /\ Artifacts \subseteq Nat \ {0}
  /\ 1 \in Builds
  <1>1. Cardinality(Releases) \in Nat
    BY ReleaseAssumption, FS_CardinalityType
  <1>2. Releases = 1 .. Cardinality(Releases) /\ Releases # {}
    BY ReleaseAssumption
  <1> QED
    BY <1>1, <1>2 DEF Builds, Artifacts

LEMMA ReleaseFirstTypes ==
  /\ NoRelease \in ReleaseRow /\ NoRelease.status = "absent"
  /\ IdleEditor \in Editor /\ EditorSound(IdleEditor)
  /\ IdleEditor.pc = "idle" /\ IdleEditor.row = 0
  <1>1. NoTargets \in Targets
    BY DEF NoTargets, Targets
  <1>2. NoRelease \in ReleaseRow
    BY <1>1, ReleaseCounts DEF NoRelease, ReleaseRow
  <1> QED
    BY <1>2 DEF IdleEditor, Editor, EditorSound, HasFile, NoRelease

LEMMA ReleaseInitInv == ReleaseInit => ReleaseInv
  <1> SUFFICES ASSUME ReleaseInit PROVE ReleaseInv
    OBVIOUS
  <1>1. ASSUME NEW r \in Releases
        PROVE  /\ release[r] \in ReleaseRow /\ HasFile(release[r])
               /\ release[r].status = "draft"
    <2>1. release[r] = [status |-> "draft", build |-> r, artifact |-> r, signs |-> <<r, r>>,
                        targets |-> NoTargets]
      BY DEF ReleaseInit
    <2>2. NoTargets \in Targets
      BY DEF NoTargets, Targets
    <2>3. r \in Builds /\ r \in Artifacts /\ r # 0
      BY ReleaseCounts
    <2> QED
      BY <2>1, <2>2, <2>3 DEF ReleaseRow, HasFile
  <1>2. release \in [Releases -> ReleaseRow]
    BY <1>1 DEF ReleaseInit
  <1>3. desktop \in [Desktops -> [installed : Builds \cup {0}, offer : Releases \cup {0}]]
    BY DEF ReleaseInit
  <1>4. editor \in [Admins -> Editor] /\ \A a \in Admins : editor[a] = IdleEditor
    BY ReleaseFirstTypes DEF ReleaseInit
  <1>5. releaseOps \in 0 .. MaxReleaseOps
    BY ReleaseAssumption DEF ReleaseInit
  <1>6. ReleaseTypeOK
    BY <1>2, <1>3, <1>4, <1>5, ReleaseCounts DEF ReleaseInit, ReleaseTypeOK
  <1>7. EditorsSound /\ LocksHold
    BY <1>4, ReleaseFirstTypes DEF EditorsSound, LocksHold
  <1>8. RowsSound
    BY <1>1 DEF RowsSound
  <1> QED
    BY <1>6, <1>7, <1>8 DEF ReleaseInv

-----------------------------------------------------------------------------
(* The operators the actions are built from.                                *)

LEMMA ScopeTyped ==
  ASSUME NEW t \in Targets, NEW s \in Scopes
  PROVE  WithScope(t, s) \in Targets
  <1>1. NoTargets \in Targets
    BY DEF NoTargets, Targets
  <1>2. \/ s = <<"all">>
        \/ s \in {"office", "device"} \X (Desktops \cup Resting)
    BY ReleaseAssumption
  <1>3. CASE s = <<"all">>
    BY <1>1, <1>3 DEF WithScope
  <1>4. CASE s \in {"office", "device"} \X (Desktops \cup Resting)
    <2>1. PICK k \in {"office", "device"}, d \in Desktops \cup Resting : s = <<k, d>>
      BY <1>4
    <2>2. [t EXCEPT !.offices = @ \cup {d}] \in Targets
          /\ [t EXCEPT !.devices = @ \cup {d}] \in Targets
      BY DEF Targets
    <2> QED
      BY <2>1, <2>2 DEF WithScope
  <1> QED
    BY <1>2, <1>3, <1>4

\* A form leaves a typed row that still names its file and its state.
LEMMA EditsTyped ==
  ASSUME NEW x \in ReleaseRow, x.status # "absent", HasFile(x), NEW y \in Edits(x)
  PROVE  y \in ReleaseRow /\ HasFile(y)
  <1>1. Upload \subseteq Artifacts
    BY DEF Upload, FreeName
  <1>2. NoTargets \in Targets
    BY DEF NoTargets, Targets
  <1>3. \/ \E b \in Builds : y = [x EXCEPT !.build = b]
        \/ \E f \in Artifacts : y = [x EXCEPT !.artifact = f]
        \/ y = [x EXCEPT !.signs = <<x.build, x.artifact>>]
        \/ \E s \in Scopes : y = [x EXCEPT !.targets = WithScope(NoTargets, s)]
        \/ y = x
    BY <1>1 DEF Edits
  <1>4. ASSUME NEW b \in Builds, y = [x EXCEPT !.build = b]
        PROVE  y \in ReleaseRow /\ HasFile(y)
    BY <1>4 DEF ReleaseRow, HasFile
  <1>5. ASSUME NEW f \in Artifacts, y = [x EXCEPT !.artifact = f]
        PROVE  y \in ReleaseRow /\ HasFile(y)
    <2>1. f # 0
      BY ReleaseCounts
    <2> QED
      BY <1>5, <2>1 DEF ReleaseRow, HasFile
  <1>6. CASE y = [x EXCEPT !.signs = <<x.build, x.artifact>>]
    <2>1. x.artifact \in Artifacts /\ x.build \in Builds
      BY DEF ReleaseRow, HasFile
    <2>2. PICK g \in Builds \X Artifacts : g = <<x.build, x.artifact>>
      BY <2>1
    <2> QED
      BY <1>6, <2>2 DEF ReleaseRow, HasFile
  <1>7. ASSUME NEW s \in Scopes, y = [x EXCEPT !.targets = WithScope(NoTargets, s)]
        PROVE  y \in ReleaseRow /\ HasFile(y)
    <2>1. PICK t \in Targets : t = WithScope(NoTargets, s)
      BY <1>2, ScopeTyped
    <2> QED
      BY <1>7, <2>1 DEF ReleaseRow, HasFile
  <1> QED
    BY <1>3, <1>4, <1>5, <1>6, <1>7

LEMMA LiveTyped == ReleaseTypeOK => LiveBuilds \subseteq Releases \X Builds
  BY DEF ReleaseTypeOK, LiveBuilds, NotDraft, ReleaseRow

\* The newest build is above every one that is live.
LEMMA NewestAbove ==
  ASSUME NEW x, NewestBuild(x)
  PROVE  NoneAbove(LiveBuilds, x)
  BY DEF NewestBuild, NoneAbove, LiveBuilds

-----------------------------------------------------------------------------
(* What the steps do to the sessions and the rows.                          *)

\* The session of a goes on with e; what it publishes it has locked.
EditorMoves(a, e) ==
    /\ editor' = [editor EXCEPT ![a] = e] /\ e \in Editor /\ EditorSound(e)
    /\ e.pc = "publish" => ~LockedFor(a, e.row) /\ release'[e.row] = e.seen

\* A row of a is written, which nobody else has locked.
RowWritten(a, r, x) ==
    /\ release' = [release EXCEPT ![r] = x] /\ r \in Releases /\ x \in ReleaseRow
    /\ HasFile(x) /\ (x.status = "published" => Verifies(x))
    /\ ~LockedFor(a, r)

\* The invariant of the sessions and rows after a step of one session.
LEMMA MovesSound ==
  ASSUME ReleaseInv, NEW a \in Admins, NEW e, EditorMoves(a, e),
         release' = release \/ \E r \in Releases, x \in ReleaseRow : RowWritten(a, r, x)
  PROVE  /\ release' \in [Releases -> ReleaseRow] /\ editor' \in [Admins -> Editor]
         /\ EditorsSound' /\ LocksHold' /\ RowsSound'
  <1>1. /\ editor \in [Admins -> Editor] /\ release \in [Releases -> ReleaseRow]
        /\ EditorsSound /\ LocksHold /\ RowsSound
    BY DEF ReleaseInv, ReleaseTypeOK
  <1>2. /\ editor' \in [Admins -> Editor] /\ editor'[a] = e
        /\ \A b \in Admins \ {a} : editor'[b] = editor[b]
    BY <1>1 DEF EditorMoves
  <1>3. EditorsSound'
    BY <1>1, <1>2 DEF EditorMoves, EditorsSound
  <1>4. release' \in [Releases -> ReleaseRow]
    BY <1>1 DEF RowWritten
  <1>5. RowsSound'
    <2>1. CASE release' = release
      BY <1>1, <2>1 DEF RowsSound
    <2>2. ASSUME NEW r \in Releases, NEW x \in ReleaseRow, RowWritten(a, r, x)
          PROVE  RowsSound'
      BY <1>1, <2>2 DEF RowsSound, RowWritten
    <2> QED
      BY <2>1, <2>2
  <1>6. \A b \in Admins \ {a} : editor[b].pc = "publish" =>
            release'[editor[b].row] = editor[b].seen
    <2> SUFFICES ASSUME NEW b \in Admins \ {a}, editor[b].pc = "publish"
                 PROVE  release'[editor[b].row] = editor[b].seen
      OBVIOUS
    <2>1. release[editor[b].row] = editor[b].seen /\ editor[b].row \in Releases
      BY <1>1 DEF LocksHold, EditorsSound, EditorSound
    <2>2. ASSUME NEW r \in Releases, NEW x \in ReleaseRow, RowWritten(a, r, x)
          PROVE  editor[b].row # r
      BY <2>2 DEF RowWritten, LockedFor
    <2> QED
      BY <1>1, <2>1, <2>2 DEF RowWritten
  <1>7. LocksHold'
    <2> SUFFICES ASSUME NEW b \in Admins, editor'[b].pc = "publish"
                 PROVE  /\ release'[editor'[b].row] = editor'[b].seen
                        /\ \A c \in Admins \ {b} :
                              ~(editor'[c].pc = "publish" /\ editor'[c].row = editor'[b].row)
      BY DEF LocksHold, LockedFor
    <2>1. CASE b = a
      BY <1>2, <2>1 DEF EditorMoves, LockedFor
    <2>2. CASE b # a
      <3>1. \A c \in Admins \ {b} :
                ~(editor[c].pc = "publish" /\ editor[c].row = editor[b].row)
        BY <1>1, <1>2, <2>2 DEF LocksHold, LockedFor
      <3>2. e.pc = "publish" => e.row # editor[b].row
        BY <1>2, <2>2 DEF EditorMoves, LockedFor
      <3> QED
        BY <1>2, <1>6, <2>2, <3>1, <3>2
    <2> QED
      BY <2>1, <2>2
  <1> QED
    BY <1>2, <1>3, <1>4, <1>5, <1>7


\* A session that finishes or only clears a file behind it is sound.
LEMMA RestingMoves ==
  ASSUME ReleaseInv, NEW a \in Admins
  PROVE  /\ ReleaseDone(a) => EditorMoves(a, IdleEditor)
         /\ \A f \in Artifacts \cup {0} :
               editor' = [editor EXCEPT ![a] = [IdleEditor EXCEPT !.pc = "clean",
                                                                  !.garbage = f]]
               => \E e : EditorMoves(a, e) /\ e.pc = "clean" /\ e.row = 0
  <1>1. ReleaseDone(a) => EditorMoves(a, IdleEditor)
    BY ReleaseFirstTypes DEF ReleaseDone, EditorMoves
  <1>2. ASSUME NEW f \in Artifacts \cup {0},
               editor' = [editor EXCEPT ![a] = [IdleEditor EXCEPT !.pc = "clean",
                                                                  !.garbage = f]]
        PROVE  \E e : EditorMoves(a, e) /\ e.pc = "clean" /\ e.row = 0
    <2>1. PICK e : e = [IdleEditor EXCEPT !.pc = "clean", !.garbage = f]
      OBVIOUS
    <2>2. /\ e \in Editor /\ e.pc = "clean" /\ e.row = 0 /\ e.new = IdleEditor.new
      BY <2>1, ReleaseFirstTypes DEF Editor
    <2>3. EditorSound(e)
      BY <2>2, ReleaseFirstTypes DEF EditorSound
    <2> QED
      BY <1>2, <2>1, <2>2, <2>3 DEF EditorMoves
  <1> QED
    BY <1>1, <1>2

\* Posting a form, and opening the add form or the delete page.
LEMMA OpeningMoves ==
  ASSUME ReleaseInv, NEW a \in Admins, NEW r \in Releases,
         FormOpen(a, r) \/ FormAdd(a, r) \/ DeleteOpen(a, r)
  PROVE  release' = release /\ \E e : EditorMoves(a, e)
  <1>1. /\ release[r] \in ReleaseRow /\ HasFile(release[r])
    BY DEF ReleaseInv, ReleaseTypeOK, RowsSound
  <1>2. CASE FormOpen(a, r)
    <2>1. PICK x \in Edits(release[r]) :
            editor' = [editor EXCEPT ![a] = [IdleEditor EXCEPT
               !.pc = "check", !.row = r, !.new = x,
               !.upload = x.artifact # release[r].artifact]]
      BY <1>2 DEF FormOpen
    <2>2. x \in ReleaseRow /\ HasFile(x)
      BY <1>1, <1>2, EditsTyped DEF FormOpen
    <2>3. PICK b \in BOOLEAN : b = (x.artifact # release[r].artifact)
      OBVIOUS
    <2>4. PICK e : e = [IdleEditor EXCEPT !.pc = "check", !.row = r, !.new = x, !.upload = b]
      OBVIOUS
    <2>5. e \in Editor /\ e.pc = "check" /\ e.row = r /\ e.new = x
      BY <2>2, <2>4, ReleaseFirstTypes DEF Editor
    <2>6. EditorSound(e)
      BY <2>2, <2>5 DEF EditorSound
    <2>7. editor' = [editor EXCEPT ![a] = e]
      BY <2>1, <2>3, <2>4
    <2> QED
      BY <1>2, <2>5, <2>6, <2>7 DEF FormOpen, EditorMoves
  <1>3. CASE FormAdd(a, r)
    <2>1. Upload \subseteq Artifacts
      BY DEF Upload, FreeName
    <2>2. PICK b \in Builds, f \in Artifacts :
            editor' = [editor EXCEPT ![a] = [IdleEditor EXCEPT
               !.pc = "write", !.row = r, !.upload = TRUE,
               !.new = [NoRelease EXCEPT !.status = "draft", !.build = b, !.artifact = f]]]
      BY <1>3, <2>1 DEF FormAdd
    <2>3. PICK x : x = [NoRelease EXCEPT !.status = "draft", !.build = b, !.artifact = f]
      OBVIOUS
    <2>4. x \in ReleaseRow /\ x.status = "draft" /\ x.artifact = f
      BY <2>3, ReleaseFirstTypes DEF ReleaseRow
    <2>5. PICK e : e = [IdleEditor EXCEPT !.pc = "write", !.row = r, !.upload = TRUE,
                                          !.new = x]
      OBVIOUS
    <2>6. /\ e \in Editor /\ e.pc = "write" /\ e.row = r /\ e.new = x
          /\ e.seen = IdleEditor.seen
      BY <2>4, <2>5, ReleaseFirstTypes DEF Editor
    <2>7. e.seen.status = "absent"
      BY <2>6, ReleaseFirstTypes DEF IdleEditor
    <2>8. EditorSound(e)
      BY <2>4, <2>6, <2>7, ReleaseCounts DEF EditorSound, HasFile, TransitionAllowed
    <2>9. editor' = [editor EXCEPT ![a] = e]
      BY <2>2, <2>3, <2>5
    <2> QED
      BY <1>3, <2>6, <2>8, <2>9 DEF FormAdd, EditorMoves
  <1>4. CASE DeleteOpen(a, r)
    <2>1. PICK x \in ReleaseRow : x = release[r]
      BY <1>1
    <2>2. PICK e : e = [IdleEditor EXCEPT !.pc = "delete", !.row = r, !.seen = x]
      OBVIOUS
    <2>3. e \in Editor /\ e.pc = "delete" /\ e.row = r /\ e.seen = x
          /\ e.new = IdleEditor.new
      BY <2>2, ReleaseFirstTypes DEF Editor
    <2>4. EditorSound(e)
      BY <1>4, <2>1, <2>3, ReleaseFirstTypes DEF DeleteOpen, EditorSound
    <2> QED
      BY <1>4, <2>1, <2>2, <2>3, <2>4 DEF DeleteOpen, EditorMoves
  <1> QED
    BY <1>2, <1>3, <1>4

\* A publication locks a draft that can be published.
LEMMA PublishMoves ==
  ASSUME ReleaseInv, NEW a \in Admins, NEW r \in Releases, PublishBegin(a, r)
  PROVE  release' = release /\ \E e : EditorMoves(a, e)
  <1>1. PICK x \in ReleaseRow : x = release[r] /\ HasFile(x)
    BY DEF ReleaseInv, ReleaseTypeOK, RowsSound
  <1>2. NoTargets \in Targets /\ x.targets \in Targets
    BY DEF NoTargets, Targets, ReleaseRow
  <1>3. PICK t \in Targets, panel \in BOOLEAN :
          editor' = [editor EXCEPT ![a] = [IdleEditor EXCEPT
                  !.pc = "publish", !.row = r, !.seen = release[r], !.live = LiveBuilds,
                  !.panel = panel,
                  !.new = [release[r] EXCEPT !.status = "published", !.targets = t]]]
    <2>1. PICK t \in {release[r].targets} \cup {WithScope(NoTargets, s) : s \in Scopes},
               panel \in BOOLEAN :
            editor' = [editor EXCEPT ![a] = [IdleEditor EXCEPT
                  !.pc = "publish", !.row = r, !.seen = release[r], !.live = LiveBuilds,
                  !.panel = panel,
                  !.new = [release[r] EXCEPT !.status = "published", !.targets = t]]]
      BY DEF PublishBegin
    <2>2. t \in Targets
      BY <1>1, <1>2, ScopeTyped
    <2> QED
      BY <2>1, <2>2
  <1>4. PICK y : y = [x EXCEPT !.status = "published", !.targets = t]
    OBVIOUS
  <1>5. /\ y \in ReleaseRow /\ y.status = "published" /\ y.artifact = x.artifact
        /\ y.build = x.build /\ y.signs = x.signs
    BY <1>4 DEF ReleaseRow
  <1>6. PICK live \in SUBSET (Releases \X Builds) : live = LiveBuilds
    BY LiveTyped DEF ReleaseInv
  <1>7. PICK e : e = [IdleEditor EXCEPT !.pc = "publish", !.row = r, !.seen = x,
                                        !.live = live, !.panel = panel, !.new = y]
    OBVIOUS
  <1>8. /\ e \in Editor /\ e.pc = "publish" /\ e.row = r /\ e.seen = x
        /\ e.live = live /\ e.new = y
    BY <1>5, <1>7, ReleaseFirstTypes DEF Editor
  <1>9. x.status = "draft" /\ Verifies(x) /\ NoneAbove(live, x)
    BY <1>1, <1>6, NewestAbove DEF PublishBegin, Publishable
  <1>10. NoneAbove(live, y) /\ HasFile(y) /\ Identity(y) = Identity(x)
    BY <1>1, <1>5, <1>9 DEF NoneAbove, HasFile, Identity
  <1>11. EditorSound(e)
    BY <1>1, <1>5, <1>8, <1>9, <1>10 DEF EditorSound
  <1>12. editor' = [editor EXCEPT ![a] = e]
    BY <1>1, <1>3, <1>4, <1>6, <1>7
  <1>13. release' = release /\ ~LockedFor(a, r)
    BY DEF PublishBegin
  <1> QED
    BY <1>1, <1>8, <1>11, <1>12, <1>13 DEF EditorMoves

\* save() lets through only what its second reading of the row allows.
LEMMA CheckMoves ==
  ASSUME ReleaseInv, NEW a \in Admins, FormCheck(a)
  PROVE  release' = release /\ \E e : EditorMoves(a, e)
  <1>1. PICK v \in Editor : v = editor[a] /\ EditorSound(v) /\ v.pc = "check"
    BY DEF ReleaseInv, ReleaseTypeOK, EditorsSound, FormCheck
  <1>2. v.row \in Releases /\ HasFile(v.new) /\ v.new \in ReleaseRow
    BY <1>1 DEF EditorSound, Editor
  <1>3. PICK old \in ReleaseRow : /\ old = release[v.row]
                                  /\ old.status = "published" => Verifies(old)
    BY <1>2 DEF ReleaseInv, ReleaseTypeOK, RowsSound
  <1>4. CASE ReleaseDone(a)
    BY <1>4, RestingMoves DEF FormCheck
  <1>5. CASE ~ReleaseDone(a)
    <2>1. PICK g \in Artifacts \cup {0} :
            g = IF old.status = "draft" /\ old.artifact # v.new.artifact
                THEN old.artifact ELSE 0
      BY DEF ReleaseRow
    <2>2. PICK live \in SUBSET (Releases \X Builds) : live = LiveBuilds
      BY LiveTyped DEF ReleaseInv
    <2>3. PICK e : e = [v EXCEPT !.pc = "write", !.seen = old, !.live = live, !.garbage = g]
      OBVIOUS
    <2>4. /\ e \in Editor /\ e.pc = "write" /\ e.row = v.row /\ e.seen = old
          /\ e.live = live /\ e.new = v.new
      BY <2>3 DEF Editor
    <2>5. /\ TransitionAllowed(old, v.new)
          /\ old.status = "draft" /\ v.new.status = "published" => Publishable(v.new)
          /\ editor' = [editor EXCEPT ![a] = e]
      BY <1>1, <1>3, <1>5, <2>1, <2>2, <2>3 DEF FormCheck
    <2>6. v.new.status = "published" => Verifies(v.new)
      BY <1>3, <2>5 DEF TransitionAllowed, Publishable, Identity, Verifies, ReleaseRow
    <2>7. old.status = "draft" /\ v.new.status = "published" => NoneAbove(live, v.new)
      BY <2>2, <2>5, NewestAbove DEF Publishable
    <2>8. EditorSound(e)
      BY <1>2, <2>4, <2>5, <2>6, <2>7 DEF EditorSound
    <2> QED
      BY <2>4, <2>5, <2>8 DEF EditorMoves, FormCheck
  <1> QED
    BY <1>4, <1>5

\* The write of a form.
LEMMA WriteMoves ==
  ASSUME ReleaseInv, NEW a \in Admins, FormWrite(a)
  PROVE  /\ \E e : EditorMoves(a, e) /\ e.row = 0
         /\ \/ release' = release
            \/ RowWritten(a, editor[a].row, editor[a].new)
         /\ stored' \subseteq Artifacts
  <1>1. PICK v \in Editor : v = editor[a] /\ EditorSound(v) /\ v.pc = "write"
    BY DEF ReleaseInv, ReleaseTypeOK, EditorsSound, FormWrite
  <1>2. /\ v.row \in Releases /\ HasFile(v.new) /\ v.new \in ReleaseRow
        /\ v.new.status = "published" => Verifies(v.new)
        /\ v.garbage \in Artifacts \cup {0}
    BY <1>1 DEF EditorSound, Editor
  <1>3. v.new.artifact \in Artifacts
    <2>1. v.new.status # "absent"
      BY <1>1 DEF EditorSound, TransitionAllowed, Editor, ReleaseRow
    <2> QED
      BY <1>2, <2>1 DEF HasFile, ReleaseRow
  <1>4. stored' \subseteq Artifacts
    BY <1>1, <1>3 DEF FormWrite, ReleaseInv, ReleaseTypeOK
  <1>5. \E e : EditorMoves(a, e) /\ e.row = 0
    <2>1. \/ ReleaseDone(a)
          \/ editor' = [editor EXCEPT ![a] = [IdleEditor EXCEPT !.pc = "clean",
                                                                !.garbage = v.garbage]]
      BY <1>1 DEF FormWrite
    <2> QED
      BY <1>2, <2>1, RestingMoves, ReleaseFirstTypes
  <1>6. \/ release' = release
        \/ RowWritten(a, v.row, v.new)
    BY <1>1, <1>2 DEF FormWrite, RowWritten
  <1> QED
    BY <1>1, <1>4, <1>5, <1>6

\* A deletion, and the commit of a publication.
LEMMA DeleteMoves ==
  ASSUME ReleaseInv, NEW a \in Admins, DeleteWrite(a)
  PROVE  /\ \E e : EditorMoves(a, e) /\ e.row = 0
         /\ RowWritten(a, editor[a].row, NoRelease)
  <1>1. PICK v \in Editor : v = editor[a] /\ EditorSound(v) /\ v.pc = "delete"
    BY DEF ReleaseInv, ReleaseTypeOK, EditorsSound, DeleteWrite
  <1>2. v.row \in Releases /\ v.seen.artifact \in Artifacts \cup {0}
    BY <1>1 DEF EditorSound, Editor, ReleaseRow
  <1>3. \E e : EditorMoves(a, e) /\ e.row = 0
    BY <1>1, <1>2, RestingMoves DEF DeleteWrite
  <1>4. RowWritten(a, v.row, NoRelease)
    BY <1>1, <1>2, ReleaseFirstTypes DEF DeleteWrite, RowWritten, HasFile
  <1> QED
    BY <1>1, <1>3, <1>4

LEMMA CommitMoves ==
  ASSUME ReleaseInv, NEW a \in Admins, PublishCommit(a)
  PROVE  /\ EditorMoves(a, IdleEditor)
         /\ release[editor[a].row] = editor[a].seen
         /\ \E x \in ReleaseRow : /\ RowWritten(a, editor[a].row, x)
                                  /\ x.status = "published"
                                  /\ x.build = editor[a].new.build
                                  /\ x.build = editor[a].seen.build
  <1>1. PICK v \in Editor : v = editor[a] /\ EditorSound(v) /\ v.pc = "publish"
    BY DEF ReleaseInv, ReleaseTypeOK, EditorsSound, PublishCommit
  <1>2. PICK old \in ReleaseRow : old = v.seen
    BY <1>1 DEF Editor
  <1>3. /\ v.row \in Releases /\ HasFile(v.new) /\ v.new \in ReleaseRow
        /\ old.status = "draft" /\ Verifies(old) /\ HasFile(old)
        /\ v.new.status = "published" /\ Identity(v.new) = Identity(old)
    BY <1>1, <1>2 DEF EditorSound, Editor
  <1>4. release[v.row] = old /\ ~LockedFor(a, v.row)
    BY <1>1, <1>2 DEF ReleaseInv, LocksHold
  <1>5. PICK x : x = IF v.panel THEN v.new ELSE [old EXCEPT !.status = "published"]
    OBVIOUS
  <1>6. release' = [release EXCEPT ![v.row] = x]
    BY <1>1, <1>4, <1>5 DEF PublishCommit
  <1>7. /\ x \in ReleaseRow /\ HasFile(x) /\ x.status = "published" /\ Verifies(x)
        /\ x.build = v.new.build /\ x.build = old.build
    <2>1. CASE v.panel
      BY <1>3, <1>5, <2>1 DEF Identity, Verifies
    <2>2. CASE ~v.panel
      <3>1. /\ x \in ReleaseRow /\ x.status = "published" /\ x.artifact = old.artifact
            /\ x.build = old.build /\ x.signs = old.signs
        BY <1>5, <2>2 DEF ReleaseRow
      <3> QED
        BY <1>3, <3>1 DEF HasFile, Verifies, Identity
    <2> QED
      BY <2>1, <2>2
  <1>8. EditorMoves(a, IdleEditor)
    BY RestingMoves DEF PublishCommit
  <1> QED
    BY <1>1, <1>2, <1>3, <1>4, <1>6, <1>7, <1>8 DEF RowWritten

\* The panel changes the targets of a live release, or withdraws it.
LEMMA LiveMoves ==
  ASSUME ReleaseInv, NEW a \in Admins, NEW r \in Releases,
         ExtendRollout(a, r) \/ Revoke(a, r)
  PROVE  /\ EditorMoves(a, editor[a])
         /\ \E x \in ReleaseRow : /\ RowWritten(a, r, x)
                                  /\ x.status \in {"published", "revoked"}
                                  /\ Identity(x) = Identity(release[r])
  <1>1. PICK old \in ReleaseRow :
          /\ old = release[r] /\ HasFile(old)
          /\ old.status = "published" /\ Verifies(old)
    BY DEF ReleaseInv, ReleaseTypeOK, RowsSound, ExtendRollout, Revoke
  <1>2. EditorMoves(a, editor[a])
    <2>1. editor[a].pc = "idle" /\ UNCHANGED editor
      BY DEF ExtendRollout, Revoke
    <2> QED
      BY <2>1 DEF EditorMoves, ReleaseInv, ReleaseTypeOK, EditorsSound
  <1>3. CASE ExtendRollout(a, r)
    <2>1. PICK s \in Scopes : release' = [release EXCEPT ![r].targets = WithScope(@, s)]
      BY <1>3 DEF ExtendRollout
    <2>2. PICK t \in Targets : t = WithScope(old.targets, s)
      BY ScopeTyped DEF ReleaseRow
    <2>3. PICK x : x = [old EXCEPT !.targets = t]
      OBVIOUS
    <2>4. /\ x \in ReleaseRow /\ x.status = "published" /\ x.artifact = old.artifact
          /\ x.build = old.build /\ x.signs = old.signs
      BY <1>1, <2>3 DEF ReleaseRow
    <2>5. release' = [release EXCEPT ![r] = x]
      BY <1>1, <2>1, <2>2, <2>3
    <2> QED
      BY <1>1, <1>2, <1>3, <2>4, <2>5
         DEF ExtendRollout, RowWritten, HasFile, Verifies, Identity
  <1>4. CASE Revoke(a, r)
    <2>1. PICK x : x = [old EXCEPT !.status = "revoked"]
      OBVIOUS
    <2>2. /\ x \in ReleaseRow /\ x.status = "revoked" /\ x.artifact = old.artifact
          /\ x.build = old.build /\ x.signs = old.signs
      BY <2>1 DEF ReleaseRow
    <2>3. release' = [release EXCEPT ![r] = x]
      BY <1>1, <1>4, <2>1 DEF Revoke
    <2> QED
      BY <1>1, <1>2, <1>4, <2>2, <2>3 DEF Revoke, RowWritten, HasFile, Identity
  <1> QED
    BY <1>3, <1>4

-----------------------------------------------------------------------------
(* The theorems.                                                            *)

LEMMA ReleaseStepInv == ReleaseInv /\ [ReleaseNext]_releaseVars => ReleaseInv'
  <1> SUFFICES ASSUME ReleaseInv, [ReleaseNext]_releaseVars PROVE ReleaseInv'
    OBVIOUS
  <1>1. /\ ReleaseTypeOK /\ releaseOps \in Nat /\ stored \subseteq Artifacts
        /\ desktop \in [Desktops -> [installed : Builds \cup {0}, offer : Releases \cup {0}]]
    BY ReleaseAssumption DEF ReleaseInv, ReleaseTypeOK
  <1>2. ReleaseUsed => releaseOps' \in 0 .. MaxReleaseOps
    BY <1>1, ReleaseAssumption DEF ReleaseTypeOK, ReleaseUsed
  <1>3. ASSUME NEW a \in Admins, NEW e, EditorMoves(a, e),
               release' = release \/ \E r \in Releases, x \in ReleaseRow : RowWritten(a, r, x),
               ReleaseUsed \/ UNCHANGED releaseOps,
               UNCHANGED <<releaseKind, desktop>>, stored' \subseteq Artifacts
        PROVE  ReleaseInv'
    <2>1. /\ release' \in [Releases -> ReleaseRow] /\ editor' \in [Admins -> Editor]
          /\ EditorsSound' /\ LocksHold' /\ RowsSound'
      BY <1>3, MovesSound
    <2>2. ReleaseTypeOK'
      BY <1>1, <1>2, <1>3, <2>1 DEF ReleaseTypeOK
    <2> QED
      BY <2>1, <2>2 DEF ReleaseInv
  <1>4. ASSUME NEW a \in Admins, NEW r \in Releases,
               FormOpen(a, r) \/ FormAdd(a, r) \/ DeleteOpen(a, r)
        PROVE  ReleaseInv'
    <2>1. release' = release /\ \E e : EditorMoves(a, e)
      BY <1>4, OpeningMoves
    <2>2. ReleaseUsed /\ UNCHANGED <<releaseKind, stored, desktop>>
      BY <1>4 DEF FormOpen, FormAdd, DeleteOpen
    <2> QED
      BY <1>1, <1>3, <2>1, <2>2
  <1>5. ASSUME NEW a \in Admins, NEW r \in Releases, PublishBegin(a, r)
        PROVE  ReleaseInv'
    <2>1. ReleaseUsed /\ UNCHANGED <<releaseKind, stored, desktop>>
      BY <1>5 DEF PublishBegin
    <2> QED
      BY <1>1, <1>3, <1>5, <2>1, PublishMoves
  <1>6. ASSUME NEW a \in Admins, NEW r \in Releases, ExtendRollout(a, r) \/ Revoke(a, r)
        PROVE  ReleaseInv'
    <2>1. ReleaseUsed /\ UNCHANGED <<releaseKind, stored, desktop>>
      BY <1>6 DEF ExtendRollout, Revoke
    <2>2. EditorMoves(a, editor[a]) /\ \E x \in ReleaseRow : RowWritten(a, r, x)
      BY <1>6, LiveMoves
    <2> QED
      BY <1>1, <1>3, <2>1, <2>2
  <1>7. ASSUME NEW a \in Admins, FormCheck(a) PROVE ReleaseInv'
    <2>1. UNCHANGED <<releaseKind, stored, desktop, releaseOps>>
      BY <1>7 DEF FormCheck
    <2> QED
      BY <1>1, <1>3, <1>7, <2>1, CheckMoves
  <1>8. ASSUME NEW a \in Admins, FormWrite(a) PROVE ReleaseInv'
    <2>1. UNCHANGED <<releaseKind, desktop, releaseOps>>
      BY <1>8 DEF FormWrite
    <2>2. editor[a].row \in Releases /\ editor[a].new \in ReleaseRow
      BY <1>8 DEF FormWrite, ReleaseInv, ReleaseTypeOK, EditorsSound, EditorSound, Editor
    <2> QED
      BY <1>3, <1>8, <2>1, <2>2, WriteMoves
  <1>9. ASSUME NEW a \in Admins, DeleteWrite(a) PROVE ReleaseInv'
    <2>1. UNCHANGED <<releaseKind, stored, desktop, releaseOps>>
      BY <1>9 DEF DeleteWrite
    <2>2. editor[a].row \in Releases
      BY <1>9 DEF DeleteWrite, ReleaseInv, EditorsSound, EditorSound
    <2> QED
      BY <1>1, <1>3, <1>9, <2>1, <2>2, DeleteMoves, ReleaseFirstTypes
  <1>10. ASSUME NEW a \in Admins, PublishCommit(a) PROVE ReleaseInv'
    <2>1. UNCHANGED <<releaseKind, stored, desktop, releaseOps>>
      BY <1>10 DEF PublishCommit
    <2>2. editor[a].row \in Releases
      BY <1>10 DEF PublishCommit, ReleaseInv, EditorsSound, EditorSound
    <2> QED
      BY <1>1, <1>3, <1>10, <2>1, <2>2, CommitMoves
  <1>11. ASSUME NEW a \in Admins, CleanArtifact(a) PROVE ReleaseInv'
    <2>1. UNCHANGED <<releaseKind, release, desktop, releaseOps>> /\ ReleaseDone(a)
      BY <1>11 DEF CleanArtifact
    <2>2. stored' \subseteq Artifacts
      BY <1>1, <1>11 DEF CleanArtifact
    <2>3. EditorMoves(a, IdleEditor)
      BY <2>1, RestingMoves
    <2> QED
      BY <1>3, <2>1, <2>2, <2>3
  <1>12. ASSUME desktop' \in [Desktops -> [installed : Builds \cup {0},
                                           offer : Releases \cup {0}]],
                UNCHANGED <<releaseKind, release, stored, editor, releaseOps>>
         PROVE  ReleaseInv'
    BY <1>1, <1>12
       DEF ReleaseInv, ReleaseTypeOK, EditorsSound, LocksHold, LockedFor, RowsSound
  <1>13. ASSUME NEW d \in Desktops, Offer(d) PROVE ReleaseInv'
    <2>1. PICK r \in Releases : desktop' = [desktop EXCEPT ![d].offer = r]
      BY <1>13 DEF Offer, Selected
    <2>2. [desktop[d] EXCEPT !.offer = r]
            \in [installed : Builds \cup {0}, offer : Releases \cup {0}]
      BY <1>1
    <2> QED
      BY <1>1, <1>12, <1>13, <2>1, <2>2 DEF Offer
  <1>14. ASSUME NEW d \in Desktops, Download(d) PROVE ReleaseInv'
    <2>1. PICK r \in Releases : r = desktop[d].offer
      BY <1>1, <1>14 DEF Download
    <2>2. release[r].build \in Builds
      BY <1>1 DEF ReleaseTypeOK, ReleaseRow
    <2>3. PICK b \in Builds \cup {0} :
            b = IF Sendable(r, d) THEN release[r].build ELSE desktop[d].installed
      BY <1>1, <2>2
    <2>4. desktop' = [desktop EXCEPT ![d] = [installed |-> b, offer |-> 0]]
      BY <1>1, <1>14, <2>1, <2>3 DEF Download
    <2> QED
      BY <1>1, <1>12, <1>14, <2>4 DEF Download
  <1>15. CASE UNCHANGED releaseVars
    BY <1>1, <1>12, <1>15 DEF releaseVars
  <1> QED
    BY <1>4, <1>5, <1>6, <1>7, <1>8, <1>9, <1>10, <1>11, <1>13, <1>14, <1>15
       DEF ReleaseNext

LEMMA ReleaseInvHolds == ReleaseSpec => []ReleaseInv
  BY ReleaseInitInv, ReleaseStepInv, PTL DEF ReleaseSpec

\* Every row, session and desktop always has its type.
THEOREM ReleasesAreTyped == ReleaseSpec => []ReleaseTypeOK
  <1>1. ReleaseInv => ReleaseTypeOK
    BY DEF ReleaseInv
  <1> QED
    BY <1>1, ReleaseInvHolds, PTL

\* A live release carries a signature of the build and the artifact it has now,
\* whatever forms and buttons overlapped (DesktopRelease.save and the row lock
\* of publish_releases).
THEOREM ReleasesAreSigned == ReleaseSpec => []PublishedIsSigned
  <1>1. ReleaseInv => PublishedIsSigned
    BY DEF ReleaseInv, RowsSound, PublishedIsSigned
  <1> QED
    BY <1>1, ReleaseInvHolds, PTL

\* What save() lets through is a legal transition of the row it has read.
LEMMA AllowedIsLegal ==
  ASSUME NEW old \in ReleaseRow, NEW new \in ReleaseRow, TransitionAllowed(old, new)
  PROVE  LegalTransition(old, new)
  <1>1. CASE old.status = "revoked"
    <2>1. /\ new.status = old.status /\ new.targets = old.targets
          /\ new.build = old.build /\ new.artifact = old.artifact /\ new.signs = old.signs
      BY <1>1 DEF TransitionAllowed, Identity
    <2>2. new = old
      BY <2>1 DEF ReleaseRow
    <2> QED
      BY <2>2 DEF LegalTransition
  <1>2. CASE old.status # "revoked"
    BY <1>2 DEF TransitionAllowed, LegalTransition, ReleaseRow
  <1> QED
    BY <1>1, <1>2

LEMMA LifecycleStep ==
  ASSUME ReleaseInv, [ReleaseNext]_releaseVars
  PROVE  \A r \in Releases : LegalTransition(release[r], release'[r]) \/ Overtaken(r)
  <1>1. release \in [Releases -> ReleaseRow] /\ editor \in [Admins -> Editor]
    BY DEF ReleaseInv, ReleaseTypeOK
  <1>2. ASSUME release' = release
        PROVE  \A r \in Releases : LegalTransition(release[r], release'[r])
    BY <1>2 DEF LegalTransition
  \* The step writes one row: the others keep theirs.
  <1>3. ASSUME NEW q \in Releases, NEW x, release' = [release EXCEPT ![q] = x],
               LegalTransition(release[q], x) \/ Overtaken(q)
        PROVE  \A r \in Releases : LegalTransition(release[r], release'[r]) \/ Overtaken(r)
    <2> SUFFICES ASSUME NEW r \in Releases
                 PROVE  LegalTransition(release[r], release'[r]) \/ Overtaken(r)
      OBVIOUS
    <2>1. CASE r = q
      BY <1>1, <1>3, <2>1
    <2>2. CASE r # q
      BY <1>1, <1>3, <2>2 DEF LegalTransition
    <2> QED
      BY <2>1, <2>2
  <1>4. ASSUME NEW a \in Admins, editor[a].row \in Releases,
               editor[a].pc \in {"write", "delete"}, editor[a].seen # release[editor[a].row],
               NEW e, EditorMoves(a, e), e.row = 0
        PROVE  Overtaken(editor[a].row)
    <2>1. editor'[a].row # editor[a].row
      BY <1>1, <1>4, ReleaseCounts DEF EditorMoves
    <2> QED
      BY <1>4, <2>1 DEF Overtaken
  <1>5. ASSUME NEW a \in Admins, FormWrite(a)
        PROVE  \A r \in Releases : LegalTransition(release[r], release'[r]) \/ Overtaken(r)
    <2>1. PICK q \in Releases, new \in ReleaseRow :
            /\ q = editor[a].row /\ new = editor[a].new
            /\ TransitionAllowed(editor[a].seen, new)
      BY <1>1, <1>5 DEF ReleaseInv, EditorsSound, EditorSound, FormWrite, Editor
    <2>2. PICK e : EditorMoves(a, e) /\ e.row = 0
      BY <1>5, WriteMoves
    <2>3. CASE release' = [release EXCEPT ![q] = new]
      <3>1. CASE editor[a].seen # release[q]
        BY <1>3, <1>4, <1>5, <2>1, <2>2, <2>3, <3>1 DEF FormWrite
      <3>2. CASE editor[a].seen = release[q]
        <4>1. LegalTransition(release[q], new)
          BY <1>1, <2>1, <3>2, AllowedIsLegal
        <4> QED
          BY <1>3, <2>3, <4>1
      <3> QED
        BY <3>1, <3>2
    <2> QED
      BY <1>2, <1>5, <2>1, <2>3 DEF FormWrite
  <1>6. ASSUME NEW a \in Admins, DeleteWrite(a)
        PROVE  \A r \in Releases : LegalTransition(release[r], release'[r]) \/ Overtaken(r)
    <2>1. PICK q \in Releases : q = editor[a].row /\ editor[a].seen.status = "draft"
      BY <1>6 DEF ReleaseInv, EditorsSound, EditorSound, DeleteWrite
    <2>2. PICK e : EditorMoves(a, e) /\ e.row = 0
      BY <1>6, DeleteMoves
    <2>3. release' = [release EXCEPT ![q] = NoRelease]
      BY <1>6, <2>1 DEF DeleteWrite
    <2>4. CASE editor[a].seen # release[q]
      BY <1>3, <1>4, <1>6, <2>1, <2>2, <2>3, <2>4 DEF DeleteWrite
    <2>5. CASE editor[a].seen = release[q]
      <3>1. LegalTransition(release[q], NoRelease)
        BY <2>1, <2>5, ReleaseFirstTypes DEF LegalTransition
      <3> QED
        BY <1>3, <2>3, <3>1
    <2> QED
      BY <2>4, <2>5
  <1>7. ASSUME NEW a \in Admins, PublishCommit(a)
        PROVE  \A r \in Releases : LegalTransition(release[r], release'[r]) \/ Overtaken(r)
    <2>1. PICK x \in ReleaseRow : RowWritten(a, editor[a].row, x) /\ x.status = "published"
      BY <1>7, CommitMoves
    <2>2. release[editor[a].row].status = "draft"
      BY <1>7, CommitMoves DEF ReleaseInv, EditorsSound, EditorSound, PublishCommit
    <2>3. LegalTransition(release[editor[a].row], x)
      BY <2>1, <2>2 DEF LegalTransition
    <2> QED
      BY <1>3, <2>1, <2>3 DEF RowWritten
  <1>8. ASSUME NEW a \in Admins, NEW r \in Releases, ExtendRollout(a, r) \/ Revoke(a, r)
        PROVE  \A q \in Releases : LegalTransition(release[q], release'[q]) \/ Overtaken(q)
    <2>1. PICK x \in ReleaseRow : /\ RowWritten(a, r, x)
                                  /\ x.status \in {"published", "revoked"}
                                  /\ Identity(x) = Identity(release[r])
      BY <1>8, LiveMoves
    <2>2. LegalTransition(release[r], x)
      BY <1>8, <2>1 DEF LegalTransition, ExtendRollout, Revoke
    <2> QED
      BY <1>3, <2>1, <2>2 DEF RowWritten
  <1> QED
    BY <1>2, <1>5, <1>6, <1>7, <1>8
       DEF ReleaseNext, releaseVars, FormOpen, FormAdd, DeleteOpen, PublishBegin,
           FormCheck, CleanArtifact, Offer, Download

\* A session that was about to write or publish a row and is not any more has
\* just done it.
LEMMA OnlyItsOwnWrite ==
  ASSUME ReleaseInv, [ReleaseNext]_releaseVars, NEW a \in Admins,
         editor[a].pc \in {"publish", "write"}, editor'[a].row # editor[a].row
  PROVE  FormWrite(a) \/ PublishCommit(a)
  <1>1. editor \in [Admins -> Editor]
    BY DEF ReleaseInv, ReleaseTypeOK
  <1>2. ASSUME NEW b \in Admins, NEW e, editor' = [editor EXCEPT ![b] = e]
        PROVE  b = a
    BY <1>1, <1>2
  <1>3. ASSUME NEW b \in Admins, NEW r \in Releases,
               FormOpen(b, r) \/ FormAdd(b, r) \/ DeleteOpen(b, r) \/ PublishBegin(b, r)
        PROVE  FALSE
    BY <1>2, <1>3 DEF FormOpen, FormAdd, DeleteOpen, PublishBegin
  <1>4. ASSUME NEW b \in Admins, FormCheck(b) \/ CleanArtifact(b) \/ DeleteWrite(b)
        PROVE  FALSE
    <2>1. \E e : editor' = [editor EXCEPT ![b] = e]
      BY <1>4 DEF FormCheck, CleanArtifact, DeleteWrite, ReleaseDone
    <2> QED
      BY <1>2, <1>4, <2>1 DEF FormCheck, CleanArtifact, DeleteWrite
  <1>5. ASSUME NEW b \in Admins, FormWrite(b) \/ PublishCommit(b)
        PROVE  b = a
    <2>1. \E e : editor' = [editor EXCEPT ![b] = e]
      BY <1>5 DEF FormWrite, PublishCommit, ReleaseDone
    <2> QED
      BY <1>2, <2>1
  <1> QED
    BY <1>3, <1>4, <1>5
       DEF ReleaseNext, releaseVars, ExtendRollout, Revoke, Offer, Download

LEMMA BuildsStep ==
  ASSUME ReleaseInv, [ReleaseNext]_releaseVars, NEW a \in Admins, NEW r \in Releases,
         editor[a].pc \in {"publish", "write"}, editor[a].row = r,
         editor'[a].row # r, editor[a].seen = release[r],
         release[r].status = "draft", release'[r].status = "published",
         NEW q \in NotDraft, <<q, release[q].build>> \in editor[a].live
  PROVE  release[q].build <= release'[r].build
  <1>1. /\ release \in [Releases -> ReleaseRow] /\ editor \in [Admins -> Editor]
        /\ EditorSound(editor[a])
    BY DEF ReleaseInv, ReleaseTypeOK, EditorsSound
  <1>2. ASSUME release'[r].build = editor[a].new.build, NoneAbove(editor[a].live, editor[a].new)
        PROVE  release[q].build <= release'[r].build
    BY <1>2 DEF NoneAbove
  <1>3. CASE FormWrite(a)
    <2>1. release' = [release EXCEPT ![r] = editor[a].new]
      BY <1>3 DEF FormWrite
    <2>2. release'[r] = editor[a].new
      BY <1>1, <2>1
    <2>3. NoneAbove(editor[a].live, editor[a].new)
      BY <1>1, <1>3, <2>2 DEF EditorSound, FormWrite
    <2> QED
      BY <1>2, <2>2, <2>3
  <1>4. CASE PublishCommit(a)
    <2>1. PICK x \in ReleaseRow : RowWritten(a, r, x) /\ x.build = editor[a].new.build
      BY <1>4, CommitMoves
    <2>2. release'[r] = x
      BY <1>1, <2>1 DEF RowWritten
    <2>3. NoneAbove(editor[a].live, editor[a].new)
      BY <1>1, <1>4 DEF EditorSound, PublishCommit
    <2> QED
      BY <1>2, <2>1, <2>2, <2>3
  <1> QED
    BY <1>3, <1>4, OnlyItsOwnWrite

\* A release goes from draft to published to revoked, its artifact and build
\* fixed from publication on, and only drafts are deleted, unless the row
\* changed between the reading and the writing of a form or of a deletion
\* (DesktopRelease.save).
THEOREM ReleasesLiveOnce == ReleaseSpec => ReleaseLifecycle
  <1>1. ReleaseInv /\ [ReleaseNext]_releaseVars
        => [\A r \in Releases :
              LegalTransition(release[r], release'[r]) \/ Overtaken(r)]_releaseVars
    BY LifecycleStep
  <1> QED
    BY <1>1, ReleaseInvHolds, PTL DEF ReleaseSpec, ReleaseLifecycle

\* A release is published above every build already published or revoked, unless
\* its own row, or that other one, changed after it was checked.
THEOREM BuildsGoUp == ReleaseSpec => BuildsInOrder
  <1>1. ReleaseInv /\ [ReleaseNext]_releaseVars
        => [\A a \in Admins, r \in Releases :
              /\ editor[a].pc \in {"publish", "write"} /\ editor[a].row = r
              /\ editor'[a].row # r /\ editor[a].seen = release[r]
              /\ release[r].status = "draft" /\ release'[r].status = "published"
              => \A q \in NotDraft : <<q, release[q].build>> \in editor[a].live =>
                     release[q].build <= release'[r].build]_releaseVars
    BY BuildsStep
  <1> QED
    BY <1>1, ReleaseInvHolds, PTL DEF ReleaseSpec, BuildsInOrder
=============================================================================
