----------------------------- MODULE ViewerProofs -----------------------------
(***************************************************************************)
(* Theorems about the terminal viewer, for any number of dumps of any      *)
(* contents and any number of commands under way: keys, answers and the    *)
(* daemon's writing and removing in every order.                           *)
(***************************************************************************)
EXTENDS Viewer, FiniteSetTheorems, SequenceTheorems, TLAPS

\* What adding one command or answer puts into a bag, and taking one out.
LEMMA AddedTo ==
    ASSUME NEW B, NEW x
    PROVE  BagToSet(B (+) SetToBag({x})) = BagToSet(B) \union {x}
  BY SMT DEF BagToSet, SetToBag, (+)

LEMMA TakenFrom ==
    ASSUME NEW B, NEW x
    PROVE  BagToSet(B (-) SetToBag({x})) \subseteq BagToSet(B)
  BY SMT DEF BagToSet, SetToBag, (-)

-------------------------------------------------------------------------------
(* The dialog.                                                              *)

LEMMA InitDialog == Init => DialogIsAboutTheSelection
  BY DEF Init, DialogIsAboutTheSelection, Closed

LEMMA StepDialog == DialogIsAboutTheSelection /\ [Next]_vars => DialogIsAboutTheSelection'
<1> SUFFICES ASSUME DialogIsAboutTheSelection, [Next]_vars
             PROVE  DialogIsAboutTheSelection'
  OBVIOUS
<1> USE DEF DialogIsAboutTheSelection, Selected, explorer
<1>1. CASE DaemonWrites \/ DaemonCleansUp
  BY <1>1 DEF DaemonWrites, DaemonCleansUp
<1>2. ASSUME NEW k \in Kind, Perform(k) PROVE DialogIsAboutTheSelection'
  BY <1>2 DEF Perform
<1>3. ASSUME NEW k \in Kind, Deliver(k) PROVE DialogIsAboutTheSelection'
  <2>1. CASE dialog.action = "none"
    BY <1>3, <2>1 DEF Deliver
  <2>2. CASE dialog.action # "none"
    BY <1>3, <2>2 DEF Deliver, Receive, Discard
  <2> QED BY <2>1, <2>2
<1>4. CASE Quit \/ Panic
  BY <1>4 DEF Quit, Panic, Key, End
<1>5. CASE Focus \/ Reload \/ Enter \/ TriggerKey \/ ViewerKey
  BY <1>5 DEF Focus, Reload, Enter, TriggerKey, ViewerKey
<1>6. CASE Delete
  BY <1>6 DEF Delete
<1>7. CASE Confirm \/ Cancel
  BY <1>7 DEF Confirm, Cancel, Closed
<1>8. CASE ExplorerKey
  BY <1>8 DEF ExplorerKey, Key
<1>9. CASE UNCHANGED vars
  BY <1>9 DEF vars
<1> QED BY <1>1, <1>2, <1>3, <1>4, <1>5, <1>6, <1>7, <1>8, <1>9 DEF Next

\* Nothing that arrives while the dialog is open moves the selection under its
\* question (app.go:90-111): who confirms deletes what was asked about.
THEOREM DialogStaysTrue == Spec => []DialogIsAboutTheSelection
  BY InitDialog, StepDialog, PTL DEF Spec

-------------------------------------------------------------------------------
(* The panels.                                                              *)

Shown == Path \union {None}

PanelTypes ==
    /\ disk \subseteq Path
    /\ \A m \in BagToSet(answers) : m.kind = "load" /\ m.ok => m.path \in Path
    /\ currentFile \in Shown
    /\ trigger \in [dump : Shown, idx : Int]
    /\ trigger.dump # None => trigger.idx \in 0..(Snapshots(trigger.dump) - 1)
    /\ viewer \in [dump : Shown, idx : Int, snapshot : Shown, at : Int, row : Int,
                   activeList : {"cpu", "rss"}]
    /\ detail.dump \in Shown

\* The panels' own part of PanelsAgree; the file named on top is the explorer's.
Aligned ==
    /\ viewer.dump = trigger.dump /\ viewer.idx = trigger.idx
    /\ viewer.snapshot = trigger.dump
    /\ viewer.snapshot # None => viewer.at = trigger.idx
    /\ currentFile = trigger.dump
    /\ detail # NoDetail => detail.row = viewer.row /\ detail.activeList = viewer.activeList

\* The second list is only entered from a snapshot, which only a deletion
\* takes away.
EmptiedByDeletion ==
    viewer.snapshot = None /\ viewer.activeList = "rss" => cleared

PanelInv ==
    PanelTypes /\ Aligned /\ EmptiedByDeletion /\ PanicFollowsDeletion

\* All that PanelInv speaks of, but for the answers and the disk.
inPanels == <<trigger, viewer, detail, currentFile, cleared, status>>

\* A path is never taken for no path.
LEMMA PathsShown == Path \subseteq Nat \ {0} /\ None \notin Path /\ Path \subseteq Shown
<1> DEFINE n == Cardinality(Path)
<1>1. n \in Nat
  BY PathAssumption, FS_CardinalityType
<1>2. Path = 1..n
  BY PathAssumption
<1> HIDE DEF n
<1>3. Path \subseteq Nat \ {0} /\ None \notin Path
  BY <1>1, <1>2, SMT DEF None
<1> QED BY <1>3 DEF Shown

LEMMA SnapshotsOf == \A p \in Path : Snapshots(p) = Dump[p].snapshots /\ Snapshots(p) \in Nat \ {0}
  BY PathsShown, DumpAssumption DEF Snapshots

\* SetState with an index of the dump, or with no dump, shows it.
LEMMA StateSetShows ==
    ASSUME PanelTypes, NEW d \in Shown, NEW i \in Int,
           d # None => i \in 0..(Snapshots(d) - 1)
    PROVE  LET v == StateSet(d, i)
           IN  /\ v \in [dump : Shown, idx : Int, snapshot : Shown, at : Int, row : Int,
                         activeList : {"cpu", "rss"}]
               /\ v.dump = d /\ v.idx = i /\ v.snapshot = d
               /\ d # None => v.at = i
               /\ v.row = viewer.row /\ v.activeList = viewer.activeList
<1>1. d # None => Snapshots(d) \in Nat /\ i < Snapshots(d)
  BY SnapshotsOf DEF Shown
<1> QED BY <1>1 DEF StateSet, PanelTypes

\* What the panels are not part of: the disk and the answers under way.
Around ==
    /\ disk' \subseteq Path
    /\ \A m \in BagToSet(answers') : m.kind = "load" /\ m.ok => m.path \in Path

\* A step that touches no panel.
LEMMA KeepInv == PanelInv /\ Around /\ UNCHANGED inPanels => PanelInv'
  BY DEF PanelInv, PanelTypes, Aligned, EmptiedByDeletion, PanicFollowsDeletion,
         Around, inPanels, Snapshots

\* Whenever the panels are given a document, or none, together.
LEMMA ShowInv ==
    ASSUME PanelInv, Around, NEW d \in Shown, NEW i \in Int,
           d # None => i \in 0..(Snapshots(d) - 1),
           trigger' = [dump |-> d, idx |-> i], SetState(d, i), currentFile' = d,
           status' = "up",
           d = None /\ viewer.activeList = "rss" => cleared'
    PROVE  PanelInv'
<1> DEFINE v == StateSet(d, i)
<1>1. /\ v \in [dump : Shown, idx : Int, snapshot : Shown, at : Int, row : Int,
                activeList : {"cpu", "rss"}]
      /\ v.dump = d /\ v.idx = i /\ v.snapshot = d
      /\ d # None => v.at = i
      /\ v.row = viewer.row /\ v.activeList = viewer.activeList
  BY StateSetShows DEF PanelInv
<1>2. viewer' = v /\ detail' = detail
  BY DEF SetState
<1> HIDE DEF v
<1>3. trigger'.dump = d /\ trigger'.idx = i /\ trigger' \in [dump : Shown, idx : Int]
  OBVIOUS
<1>4. PanelTypes'
  <2>1. trigger'.dump # None => trigger'.idx \in 0..(Snapshots(trigger.dump)' - 1)
    BY <1>3 DEF Snapshots
  <2>2. detail'.dump \in Shown
    BY <1>2 DEF PanelInv, PanelTypes
  <2> QED BY <1>1, <1>2, <1>3, <2>1, <2>2 DEF PanelTypes, Around
<1>5. Aligned'
  <2>1. detail' # NoDetail
        => detail'.row = viewer'.row /\ detail'.activeList = viewer'.activeList
    BY <1>1, <1>2 DEF PanelInv, Aligned
  <2> QED BY <1>1, <1>2, <1>3, <2>1 DEF Aligned
<1>6. EmptiedByDeletion' /\ PanicFollowsDeletion'
  BY <1>1, <1>2 DEF EmptiedByDeletion, PanicFollowsDeletion
<1> QED BY <1>4, <1>5, <1>6 DEF PanelInv

\* Nothing is shown once the process has ended.
LEMMA EndInv == ASSUME PanelInv, NEW how, End(how), how = "panicked" => cleared PROVE PanelInv'
<1>1. Around
  BY DEF End, Around, PanelInv, PanelTypes, BagToSet, EmptyBag, SetToBag
<1>2. /\ viewer' = NewViewer /\ trigger' = NewTrigger /\ currentFile' = None
      /\ status' = how /\ cleared' = cleared /\ detail' = NoDetail
  BY DEF End
<1>3. PanelTypes'
  BY <1>1, <1>2 DEF PanelTypes, Around, NewViewer, NewTrigger, NoDetail, Shown, None
<1>4. Aligned' /\ EmptiedByDeletion' /\ PanicFollowsDeletion'
  BY <1>2 DEF Aligned, EmptiedByDeletion, PanicFollowsDeletion, NewViewer, NewTrigger
<1> QED BY <1>3, <1>4 DEF PanelInv

LEMMA InitInv == Init => PanelInv
<1> SUFFICES ASSUME Init PROVE PanelInv
  OBVIOUS
<1>1. PanelTypes
  BY DEF Init, PanelTypes, NewViewer, NewTrigger, NoDetail, Shown, None, BagToSet, EmptyBag,
         SetToBag
<1>2. Aligned /\ EmptiedByDeletion /\ PanicFollowsDeletion
  BY DEF Init, Aligned, EmptiedByDeletion, PanicFollowsDeletion, NewViewer, NewTrigger
<1> QED BY <1>1, <1>2 DEF PanelInv

\* What a command leaves of the disk and lists of it.
LEMMA OutcomeOf ==
    ASSUME NEW k \in Kind, NEW c, c.kind = k, NEW o \in Outcomes(c)
    PROVE  /\ o.disk \subseteq disk
           /\ k = "load" /\ o.ok => c.path \in disk
           /\ o.files \in {<< >>} \cup Found(disk)
<1>1. CASE k = "refresh"
  <2>1. Outcomes(c) = {[ok |-> TRUE, files |-> found, disk |-> disk] : found \in Found(disk)}
    BY <1>1, Zenon DEF Outcomes
  <2> QED BY <1>1, <2>1
<1>2. CASE k = "load"
  <2>1. Outcomes(c) = {[ok |-> ok, files |-> << >>, disk |-> disk] :
                         ok \in {FALSE, c.path \in disk}}
    BY <1>2, Zenon DEF Outcomes
  <2>2. PICK ok \in {FALSE, c.path \in disk} :
          o = [ok |-> ok, files |-> << >>, disk |-> disk]
    BY <2>1, Zenon
  <2>3. o.disk = disk /\ o.ok = ok /\ o.files = << >>
    BY <2>2, Zenon
  <2>4. o.ok => c.path \in disk
    BY <2>2, <2>3, Zenon
  <2> QED BY <2>3, <2>4
<1>3. CASE k = "delete"
  <2>1. Outcomes(c) =
          {[ok |-> FALSE, files |-> << >>, disk |-> disk]} \cup
          (IF c.path \in disk
           THEN {[ok |-> TRUE, files |-> << >>, disk |-> disk \ {c.path}]} ELSE {})
    BY <1>3, Zenon DEF Outcomes
  <2> QED BY <1>3, <2>1
<1>4. CASE k = "deleteAll"
  <2>1. Outcomes(c) = {[ok |-> TRUE, files |-> << >>, disk |-> stuck] : stuck \in SUBSET disk}
    BY <1>4, Zenon DEF Outcomes
  <2> QED BY <1>4, <2>1
<1> QED BY <1>1, <1>2, <1>3, <1>4 DEF Kind

\* A load can only have succeeded for a path that was on the disk.
LEMMA PerformInv == ASSUME PanelInv, NEW k \in Kind, Perform(k) PROVE PanelInv'
<1>1. PICK c \in BagToSet(running) :
        c.kind = k /\ \E o \in Outcomes(c) :
            disk' = o.disk /\ answers' = answers (+) SetToBag({Answer(c, o)})
  BY DEF Perform
<1>2. PICK o \in Outcomes(c) :
        disk' = o.disk /\ answers' = answers (+) SetToBag({Answer(c, o)})
  BY <1>1
<1> DEFINE m == Answer(c, o)
<1>3. /\ m.kind = k /\ m.ok = o.ok /\ m.files = o.files
      /\ o.ok => m.path = c.path
  BY <1>1 DEF Answer
<1> HIDE DEF m
<1>4. o.disk \subseteq disk /\ (k = "load" /\ o.ok => c.path \in disk)
  BY <1>1, OutcomeOf
<1>5. BagToSet(answers') = BagToSet(answers) \union {m}
  BY <1>2, AddedTo DEF m
<1>6. disk \subseteq Path /\ (\A x \in BagToSet(answers) : x.kind = "load" /\ x.ok => x.path \in Path)
  BY DEF PanelInv, PanelTypes
<1>7. m.kind = "load" /\ m.ok => m.path \in Path
  BY <1>3, <1>4, <1>6
<1>8. Around
  BY <1>2, <1>4, <1>5, <1>6, <1>7 DEF Around
<1>9. UNCHANGED inPanels
  BY DEF Perform, panels, inPanels
<1> QED BY <1>8, <1>9, KeepInv

\* An answer gives all the panels a document, empties all, or touches none.
LEMMA DeliverInv == ASSUME PanelInv, NEW k \in Kind, Deliver(k) PROVE PanelInv'
<1>1. PICK m \in BagToSet(answers) :
        m.kind = k /\ answers' = answers (-) SetToBag({m}) /\ Receive(m)
  BY DEF Deliver
<1>2. status' = "up" /\ UNCHANGED <<status, disk>>
  BY DEF Deliver
<1>3. Around
  BY <1>1, <1>2, TakenFrom DEF Around, PanelInv, PanelTypes
<1>4. CASE UNCHANGED <<trigger, viewer, detail, currentFile, cleared>>
  BY <1>2, <1>3, <1>4, KeepInv DEF inPanels
<1>5. CASE ClearPanels /\ cleared'
  <2>1. None \in Shown
    BY DEF Shown
  <2> QED BY <1>2, <1>3, <1>5, <2>1, ShowInv DEF ClearPanels, SetDump
<1>6. CASE /\ m.kind = "load" /\ m.ok
           /\ currentFile' = m.path /\ SetDump(m.path) /\ SetState(m.path, 0)
  <2>1. m.path \in Path
    BY <1>1, <1>6 DEF PanelInv, PanelTypes
  <2>2. m.path \in Shown /\ m.path # None /\ 0 \in 0..(Snapshots(m.path) - 1)
    <3>1. Snapshots(m.path) \in Nat \ {0}
      BY <2>1, SnapshotsOf
    <3>2. 0 \in 0..(Snapshots(m.path) - 1)
      BY <3>1
    <3>3. m.path \in Shown /\ m.path # None
      BY <2>1, PathsShown, Zenon
    <3> QED BY <3>2, <3>3
  <2> QED BY <1>2, <1>3, <1>6, <2>2, ShowInv DEF SetDump
<1> QED BY <1>1, <1>4, <1>5, <1>6 DEF Receive, Handle, Discard, Loaded, panels

\* The timeline stays on the dump it shows; without one nothing moves.
LEMMA TriggerKeyInv == ASSUME PanelInv, TriggerKey PROVE PanelInv'
<1>1. PICK i \in (IF trigger.dump = None THEN {trigger.idx} ELSE Moves) :
        trigger' = [trigger EXCEPT !.idx = i] /\ SetState(trigger.dump, i)
  BY DEF TriggerKey
<1>2. Around
  BY DEF Around, TriggerKey, PanelInv, PanelTypes
<1>3. trigger.dump \in Shown /\ i \in Int
      /\ (trigger.dump # None => i \in 0..(Snapshots(trigger.dump) - 1))
  <2>1. CASE trigger.dump = None
    BY <1>1, <2>1 DEF PanelInv, PanelTypes
  <2>2. CASE trigger.dump # None
    <3>1. trigger.dump \in Path
      BY <2>2 DEF PanelInv, PanelTypes, Shown
    <3>2. Snapshots(trigger.dump) \in Nat \ {0} /\ Dump[trigger.dump].trigger \in 0..(Snapshots(trigger.dump) - 1)
      BY <3>1, SnapshotsOf, DumpAssumption
    <3>3. i \in 0..(Snapshots(trigger.dump) - 1)
      BY <1>1, <2>2, <3>2 DEF Moves
    <3> QED BY <3>1, <3>3 DEF Shown
  <2> QED BY <2>1, <2>2
<1>4. trigger' = [dump |-> trigger.dump, idx |-> i]
  BY <1>1 DEF PanelInv, PanelTypes
<1>5. currentFile' = trigger.dump /\ status' = "up" /\ cleared' = cleared
  BY DEF TriggerKey, Key, PanelInv, Aligned
<1>6. trigger.dump = None /\ viewer.activeList = "rss" => cleared'
  BY <1>5 DEF PanelInv, Aligned, EmptiedByDeletion
<1> QED BY <1>1, <1>2, <1>3, <1>4, <1>5, <1>6, ShowInv

\* What a move between the two process lists leaves and sets.
LEMMA ListSwitch ==
    ASSUME NEW v \in [dump : Shown, idx : Int, snapshot : Shown, at : Int, row : Int,
                      activeList : {"cpu", "rss"}],
           NEW list \in {"cpu", "rss"}, NEW r \in Int
    PROVE  LET w == [v EXCEPT !.activeList = list, !.row = r]
           IN  /\ w \in [dump : Shown, idx : Int, snapshot : Shown, at : Int, row : Int,
                         activeList : {"cpu", "rss"}]
               /\ w.dump = v.dump /\ w.idx = v.idx /\ w.snapshot = v.snapshot
               /\ w.at = v.at /\ w.activeList = list
<1> DEFINE u == [v EXCEPT !.activeList = list]
<1> DEFINE w == [u EXCEPT !.row = r]
<1>1. /\ u \in [dump : Shown, idx : Int, snapshot : Shown, at : Int, row : Int,
                activeList : {"cpu", "rss"}]
      /\ u.dump = v.dump /\ u.idx = v.idx /\ u.snapshot = v.snapshot
      /\ u.at = v.at /\ u.activeList = list
  OBVIOUS
<1> HIDE DEF u
<1>2. /\ w \in [dump : Shown, idx : Int, snapshot : Shown, at : Int, row : Int,
                activeList : {"cpu", "rss"}]
      /\ w.dump = u.dump /\ w.idx = u.idx /\ w.snapshot = u.snapshot
      /\ w.at = u.at /\ w.activeList = u.activeList
  BY <1>1
<1>3. w = [v EXCEPT !.activeList = list, !.row = r]
  BY DEF u
<1> HIDE DEF w
<1> QED BY <1>1, <1>2, <1>3

\* The second list is entered only where a snapshot is shown.
LEMMA ListMoves ==
    ASSUME PanelInv, ListUp \/ ListDown
    PROVE  /\ viewer' \in [dump : Shown, idx : Int, snapshot : Shown, at : Int, row : Int,
                            activeList : {"cpu", "rss"}]
           /\ viewer'.dump = viewer.dump /\ viewer'.idx = viewer.idx
           /\ viewer'.snapshot = viewer.snapshot /\ viewer'.at = viewer.at
           /\ viewer'.activeList = "rss" => viewer.activeList = "rss" \/ viewer.snapshot # None
<1>1. viewer \in [dump : Shown, idx : Int, snapshot : Shown, at : Int, row : Int,
                  activeList : {"cpu", "rss"}]
  BY DEF PanelInv, PanelTypes
<1>2. viewer.snapshot # None => Dump[viewer.snapshot].cpu \in Int
  BY <1>1, DumpAssumption DEF Shown
<1>3. CASE ListUp
  <2>1. CASE viewer' = [viewer EXCEPT !.row = @ - 1]
    BY <1>1, <2>1
  <2>2. CASE /\ viewer.row = 0 /\ viewer.activeList = "rss" /\ viewer.snapshot # None
             /\ LET cpu == Dump[viewer.snapshot].cpu
                IN  viewer' = [viewer EXCEPT !.activeList = "cpu",
                                             !.row = IF cpu > 0 THEN cpu - 1 ELSE @]
    <3> DEFINE r == IF Dump[viewer.snapshot].cpu > 0 THEN Dump[viewer.snapshot].cpu - 1
                    ELSE viewer.row
    <3>1. r \in Int
      BY <1>1, <1>2, <2>2
    <3>2. viewer' = [viewer EXCEPT !.activeList = "cpu", !.row = r]
      BY <2>2, Zenon
    <3> HIDE DEF r
    <3> QED BY <1>1, <3>1, <3>2, ListSwitch
  <2> QED BY <1>3, <2>1, <2>2 DEF ListUp
<1>4. CASE ListDown
  <2>1. CASE viewer' = [viewer EXCEPT !.row = @ + 1]
    BY <1>1, <2>1
  <2>2. CASE viewer.snapshot # None /\ viewer' = [viewer EXCEPT !.activeList = "rss", !.row = 0]
    <3> DEFINE r == 0
    <3>1. r \in Int
      OBVIOUS
    <3>2. viewer' = [viewer EXCEPT !.activeList = "rss", !.row = r]
      BY <2>2, Zenon
    <3>3. viewer.snapshot # None
      BY <2>2
    <3> HIDE DEF r
    <3> QED BY <1>1, <3>1, <3>2, <3>3, ListSwitch
  <2> QED BY <1>4, <2>1, <2>2 DEF ListDown
<1> QED BY <1>3, <1>4

\* The list under the overlay does not move, and the overlay is opened on the
\* cursor's row.
LEMMA ViewerKeyInv == ASSUME PanelInv, ViewerKey PROVE PanelInv'
<1>1. Around
  BY DEF Around, ViewerKey, PanelInv, PanelTypes
<1>2. UNCHANGED <<trigger, currentFile, cleared, status>>
  BY DEF ViewerKey
<1>3. CASE detail = NoDetail /\ (ListUp \/ ListDown) /\ UNCHANGED detail
  <2>1. /\ viewer' \in [dump : Shown, idx : Int, snapshot : Shown, at : Int, row : Int,
                        activeList : {"cpu", "rss"}]
        /\ viewer'.dump = viewer.dump /\ viewer'.idx = viewer.idx
        /\ viewer'.snapshot = viewer.snapshot /\ viewer'.at = viewer.at
        /\ viewer'.activeList = "rss" => viewer.activeList = "rss" \/ viewer.snapshot # None
    BY <1>3, ListMoves
  <2> QED BY <1>1, <1>2, <1>3, <2>1 DEF PanelInv, PanelTypes, Aligned, EmptiedByDeletion,
            PanicFollowsDeletion, Around, Snapshots
<1>4. CASE Inspect /\ UNCHANGED viewer
  <2>1. /\ detail'.dump = viewer.snapshot
        /\ detail'.row = viewer.row /\ detail'.activeList = viewer.activeList
    BY <1>4 DEF Inspect
  <2>2. viewer.snapshot \in Shown
    BY DEF PanelInv, PanelTypes
  <2> QED BY <1>1, <1>2, <1>4, <2>1, <2>2 DEF PanelInv, PanelTypes, Aligned, EmptiedByDeletion,
            PanicFollowsDeletion, Around, Snapshots
<1>5. CASE detail' = NoDetail /\ UNCHANGED viewer
  <2>1. detail'.dump \in Shown
    BY <1>5 DEF NoDetail, Shown
  <2> QED BY <1>1, <1>2, <1>5, <2>1 DEF PanelInv, PanelTypes, Aligned, EmptiedByDeletion,
            PanicFollowsDeletion, Around, Snapshots
<1> QED BY <1>3, <1>4, <1>5 DEF ViewerKey

LEMMA StepInv == PanelInv /\ [Next]_vars => PanelInv'
<1> SUFFICES ASSUME PanelInv, [Next]_vars PROVE PanelInv'
  OBVIOUS
<1>1. CASE DaemonWrites \/ DaemonCleansUp
  <2>1. Around /\ UNCHANGED inPanels
    BY <1>1 DEF DaemonWrites, DaemonCleansUp, Around, inPanels, panels, PanelInv, PanelTypes
  <2> QED BY <2>1, KeepInv
<1>2. ASSUME NEW k \in Kind, Perform(k) PROVE PanelInv'
  BY <1>2, PerformInv
<1>3. ASSUME NEW k \in Kind, Deliver(k) PROVE PanelInv'
  BY <1>3, DeliverInv
<1>4. CASE Quit
  BY <1>4, EndInv DEF Quit
<1>5. CASE Panic
  <2>1. cleared
    BY <1>5 DEF Panic, PanelInv, EmptiedByDeletion
  <2> QED BY <1>5, <2>1, EndInv DEF Panic
<1>6. CASE Focus \/ Reload \/ Enter \/ Delete \/ Confirm \/ Cancel \/ ExplorerKey
  <2>1. UNCHANGED <<disk, answers, inPanels>>
    BY <1>6 DEF Focus, Reload, Enter, Delete, Confirm, Cancel, ExplorerKey, inPanels, panels
  <2>2. Around
    BY <2>1 DEF Around, PanelInv, PanelTypes
  <2> QED BY <2>1, <2>2, KeepInv
<1>7. CASE TriggerKey
  BY <1>7, TriggerKeyInv
<1>8. CASE ViewerKey
  BY <1>8, ViewerKeyInv
<1>9. CASE UNCHANGED vars
  <2>1. Around /\ UNCHANGED inPanels
    BY <1>9 DEF vars, Around, inPanels, panels, PanelInv, PanelTypes
  <2> QED BY <2>1, KeepInv
<1> QED BY <1>1, <1>2, <1>3, <1>4, <1>5, <1>6, <1>7, <1>8, <1>9 DEF Next

LEMMA PanelInvHolds == Spec => []PanelInv
  BY InitInv, StepInv, PTL DEF Spec

\* The file named on top is the one under the explorer's cursor.
Named == selectedFile = Selected

LEMMA InitNamed == Init => Named
  BY DEF Init, Named, Selected

LEMMA StepNamed == Named /\ [Next]_vars => Named'
<1> SUFFICES ASSUME Named, [Next]_vars PROVE Named'
  OBVIOUS
<1> USE DEF Named
<1>1. UNCHANGED explorer => Named'
  BY DEF explorer, Selected
<1>2. CASE DaemonWrites \/ DaemonCleansUp
  BY <1>1, <1>2 DEF DaemonWrites, DaemonCleansUp
<1>3. ASSUME NEW k \in Kind, Perform(k) PROVE Named'
  BY <1>1, <1>3 DEF Perform
<1>4. ASSUME NEW k \in Kind, Deliver(k) PROVE Named'
  BY <1>1, <1>4 DEF Deliver, Receive, Handle, Discard, Loaded
<1>5. CASE Quit \/ Panic
  BY <1>5 DEF Quit, Panic, End, Selected
<1>6. CASE Focus \/ Reload \/ Enter \/ Delete \/ Confirm \/ Cancel \/ TriggerKey \/ ViewerKey
  BY <1>1, <1>6 DEF Focus, Reload, Enter, Delete, Confirm, Cancel, TriggerKey, ViewerKey
<1>7. CASE ExplorerKey
  BY <1>7 DEF ExplorerKey
<1>8. CASE UNCHANGED vars
  BY <1>1, <1>8 DEF vars
<1> QED BY <1>2, <1>3, <1>4, <1>5, <1>6, <1>7, <1>8 DEF Next

\* The timeline and the process lists are of one snapshot of one dump, the one
\* that deletions are compared with; the file named above them is the
\* explorer's selection, and the overlay stays on the row it was opened from
\* (app.go:252, 258-259, 274, 283-285, 295-299; viewer.go:62-64, 127-158).
THEOREM PanelsAlwaysAgree == Spec => []PanelsAgree
<1>1. Spec => []Named
  BY InitNamed, StepNamed, PTL DEF Spec
<1>2. PanelInv /\ Named => PanelsAgree
  BY DEF PanelInv, Aligned, Named, PanelsAgree
<1> QED BY <1>1, <1>2, PanelInvHolds, PTL

\* The nil dereference of viewer.go:104 happens only after a deletion has
\* emptied the panels and nothing was loaded since.
THEOREM PanicOnlyFollowsDeletion == Spec => []PanicFollowsDeletion
<1>1. PanelInv => PanicFollowsDeletion
  BY DEF PanelInv
<1> QED BY <1>1, PanelInvHolds, PTL
-------------------------------------------------------------------------------
(* Types.                                                                   *)

\* What arrives in a listing was written, and the rest of what TypeOK says
\* of the explorer and of what surrounds it.
ListTypes ==
    /\ status \in {"up", "quit", "panicked"}
    /\ written \in 0..Cardinality(Path) /\ disk \subseteq 1..written
    /\ files \in Seq(1..written) /\ cursor \in 0..Len(files)
    /\ cursor < Len(files) \/ files = << >>
    /\ activePanel \in DOMAIN NextPanel
    /\ {loading, lost, cleared} \subseteq BOOLEAN
    /\ dialog \in [action : {"none", "single", "all"}, path : Path \cup {None}]
    /\ \A m \in BagToSet(answers) : m.files \in Seq(1..written)

\* The rest of what it says of the panels.
RowTypes == trigger.idx \in Nat /\ viewer.row \in Nat

TypeInv == PanelInv /\ ListTypes /\ RowTypes

LEMMA PathsCounted ==
    /\ Cardinality(Path) \in Nat
    /\ \A w \in 0..Cardinality(Path) : 1..w \subseteq Path
<1> DEFINE n == Cardinality(Path)
<1>1. n \in Nat /\ Path = 1..n
  BY PathAssumption, FS_CardinalityType
<1> HIDE DEF n
<1>2. \A w \in 0..n : 1..w \subseteq Path
  BY <1>1, SMT
<1> QED BY <1>1, <1>2 DEF n

LEMMA SelectedWritten ==
    ASSUME NEW w \in Nat, files \in Seq(1..w), cursor \in 0..Len(files)
    PROVE  /\ Selected \in 1..w \cup {None}
           /\ Selected # None <=> cursor < Len(files)
<1>1. CASE cursor < Len(files)
  <2>1. cursor + 1 \in 1..Len(files)
    BY <1>1
  <2>2. files[cursor + 1] \in 1..w
    BY <2>1
  <2> QED BY <1>1, <2>2 DEF Selected, None
<1>2. CASE ~(cursor < Len(files))
  BY <1>2 DEF Selected
<1> QED BY <1>1, <1>2

\* A longer history has room for every list of a shorter one.
LEMMA WrittenGrows ==
    ASSUME NEW w \in Nat, NEW list \in Seq(1..w) PROVE list \in Seq(1..(w + 1))
<1>1. 1..w \subseteq 1..(w + 1)
  BY SMT
<1> QED BY <1>1

LEMMA ListingTyped ==
    ASSUME NEW w \in 0..Cardinality(Path), NEW d, d \subseteq 1..w, NEW list \in Listings(d)
    PROVE  list \in Seq(1..w)
<1>1. CASE list = << >>
  BY <1>1
<1>2. CASE list \in [1..Cardinality(d) -> d]
  <2>1. Cardinality(d) \in Nat
    <3>1. IsFiniteSet(1..w)
      <4>1. 1 \in Int /\ w \in Int
        BY PathsCounted
      <4> QED BY <4>1, FS_Interval, Zenon
    <3>2. IsFiniteSet(d)
      BY <3>1, FS_Subset
    <3> QED BY <3>2, FS_CardinalityType
  <2> DEFINE n == Cardinality(d)
  <2> HIDE DEF n
  <2>2. n \in Nat /\ list \in [1..n -> 1..w]
    BY <1>2, <2>1 DEF n
  <2> QED BY <2>2
<1> QED BY <1>1, <1>2 DEF Listings

\* The directories' lists, one after the other.
LEMMA JoinedTyped ==
    ASSUME NEW S, NEW A, NEW B, A \subseteq Seq(S), B \subseteq Seq(S)
    PROVE  {lists[1] \o lists[2] : lists \in A \X B} \subseteq Seq(S)
<1>1. ASSUME NEW lists \in A \X B PROVE lists[1] \o lists[2] \in Seq(S)
  <2>1. lists[1] \in Seq(S) /\ lists[2] \in Seq(S)
    OBVIOUS
  <2> QED BY <2>1, ConcatProperties
<1> QED BY <1>1

LEMMA FoundTyped ==
    ASSUME NEW w \in 0..Cardinality(Path), NEW d, d \subseteq 1..w,
           NEW list \in {<< >>} \cup Found(d)
    PROVE  list \in Seq(1..w)
<1>1. Found(d) \subseteq Seq(1..w)
  <2> DEFINE A == Listings(d \cap Home)
             B == Listings(d \ Home)
  <2>1. A \subseteq Seq(1..w) /\ B \subseteq Seq(1..w)
    <3>1. d \cap Home \subseteq 1..w /\ d \ Home \subseteq 1..w
      OBVIOUS
    <3>2. ASSUME NEW e, e \subseteq 1..w PROVE Listings(e) \subseteq Seq(1..w)
      <4>1. ASSUME NEW listing \in Listings(e) PROVE listing \in Seq(1..w)
        BY <3>2, ListingTyped, Zenon
      <4> HIDE DEF Listings
      <4> QED BY <4>1, Zenon
    <3> QED BY <3>1, <3>2
  <2>2. Found(d) = {lists[1] \o lists[2] : lists \in A \X B}
    BY DEF Found
  <2> HIDE DEF A, B
  <2> QED BY <2>1, <2>2, JoinedTyped
<1>2. << >> \in Seq(1..w)
  BY EmptySeq
<1> QED BY <1>1, <1>2, Zenon

LEMMA InitTypes == Init => ListTypes /\ RowTypes
<1> SUFFICES ASSUME Init PROVE ListTypes /\ RowTypes
  OBVIOUS
<1>1. BagToSet(answers) = {}
  BY DEF Init, BagToSet, EmptyBag, SetToBag
<1>2. 0 \in 0..Cardinality(Path)
  BY PathsCounted
<1>3. RowTypes
  BY DEF Init, RowTypes, NewTrigger, NewViewer
<1>4. /\ files \in Seq(1..written) /\ cursor \in 0..Len(files)
      /\ cursor < Len(files) \/ files = << >>
  BY DEF Init
<1>5. "explorer" \in DOMAIN NextPanel
  BY DEF NextPanel
<1>6. dialog \in [action : {"none", "single", "all"}, path : Path \cup {None}]
  BY DEF Init, Closed
<1> QED BY <1>1, <1>2, <1>3, <1>4, <1>5, <1>6 DEF Init, ListTypes

LEMMA EndTypes == ASSUME TypeInv, NEW how \in {"quit", "panicked"}, End(how)
                  PROVE (ListTypes /\ RowTypes)'
<1>1. BagToSet(answers') = {}
  BY DEF End, BagToSet, EmptyBag, SetToBag
<1>2. RowTypes'
  BY DEF End, RowTypes, NewTrigger, NewViewer
<1>3. /\ files' \in Seq(1..written') /\ cursor' \in 0..Len(files')
      /\ cursor' < Len(files') \/ files' = << >>
  BY DEF End
<1>4. "explorer" \in DOMAIN NextPanel
  BY DEF NextPanel
<1> QED BY <1>1, <1>2, <1>3, <1>4 DEF TypeInv, ListTypes, End

LEMMA PerformTypes == ASSUME TypeInv, NEW k \in Kind, Perform(k)
                      PROVE (ListTypes /\ RowTypes)'
<1>1. PICK c \in BagToSet(running) :
        c.kind = k /\ \E o \in Outcomes(c) :
            disk' = o.disk /\ answers' = answers (+) SetToBag({Answer(c, o)})
  BY DEF Perform
<1>2. PICK o \in Outcomes(c) :
        disk' = o.disk /\ answers' = answers (+) SetToBag({Answer(c, o)})
  BY <1>1
<1>3. o.disk \subseteq disk /\ o.files \in {<< >>} \cup Found(disk)
  BY <1>1, OutcomeOf
<1> DEFINE m == Answer(c, o)
<1>4. m.files = o.files
  BY DEF Answer
<1> HIDE DEF m
<1>5. BagToSet(answers') = BagToSet(answers) \union {m}
  BY <1>2, AddedTo DEF m
<1>6. written' = written /\ written \in 0..Cardinality(Path) /\ disk \subseteq 1..written
  BY DEF Perform, TypeInv, ListTypes
<1>7. o.files \in Seq(1..written)
  BY <1>3, <1>6, FoundTyped
<1>8. \A x \in BagToSet(answers') : x.files \in Seq(1..written)
  BY <1>4, <1>5, <1>7 DEF TypeInv, ListTypes
<1>9. disk' \subseteq 1..written
  BY <1>2, <1>3, <1>6
<1>10. UNCHANGED <<status, files, cursor, activePanel, loading, dialog, trigger, viewer,
                   lost, cleared>>
  BY DEF Perform, explorer, panels
<1> QED BY <1>6, <1>8, <1>9, <1>10 DEF TypeInv, ListTypes, RowTypes

LEMMA DeliverTypes == ASSUME TypeInv, NEW k \in Kind, Deliver(k)
                      PROVE (ListTypes /\ RowTypes)'
<1>1. PICK m \in BagToSet(answers) :
        m.kind = k /\ answers' = answers (-) SetToBag({m}) /\ Receive(m)
  BY DEF Deliver
<1>2. UNCHANGED <<status, written, disk, activePanel, dialog>>
  BY DEF Deliver
<1>3. \A x \in BagToSet(answers') : x.files \in Seq(1..written)
  BY <1>1, TakenFrom DEF TypeInv, ListTypes
<1>4. m.files \in Seq(1..written)
  BY <1>1 DEF TypeInv, ListTypes
<1>5. /\ files' \in Seq(1..written) /\ cursor' \in 0..Len(files')
      /\ cursor' < Len(files') \/ files' = << >>
  <2>1. CASE UNCHANGED <<files, cursor>>
    BY <2>1 DEF TypeInv, ListTypes
  <2>2. CASE /\ files' = m.files
             /\ cursor' = IF cursor >= Len(m.files)
                          THEN IF m.files = << >> THEN 0 ELSE Len(m.files) - 1
                          ELSE cursor
    <3>1. Len(m.files) \in Nat /\ (m.files # << >> => Len(m.files) > 0) /\ Len(<< >>) = 0
      BY <1>4
    <3>2. cursor \in Nat
      BY DEF TypeInv, ListTypes
    <3> QED BY <1>4, <2>2, <3>1, <3>2
  <2> QED BY <1>1, <2>1, <2>2 DEF Receive, Handle, Discard, Loaded, explorer
<1>6. {loading', lost', cleared'} \subseteq BOOLEAN
  <2>1. loading' \in {loading, FALSE} /\ cleared' \in {cleared, TRUE, FALSE}
    BY <1>1 DEF Receive, Handle, Discard, Loaded
  <2>2. lost' \in BOOLEAN
    <3>1. lost \in BOOLEAN
      BY DEF TypeInv, ListTypes
    <3>2. lost' \in {TRUE, lost, lost /\ loading'}
      BY <1>1 DEF Receive, Discard
    <3> QED BY <3>1, <3>2
  <2> QED BY <2>1, <2>2 DEF TypeInv, ListTypes
<1>7. trigger'.idx \in Nat /\ viewer'.row = viewer.row
  <2>1. CASE UNCHANGED panels
    BY <2>1 DEF panels, TypeInv, RowTypes
  <2>2. ASSUME NEW d, SetDump(d), SetState(d, 0)
        PROVE  trigger'.idx \in Nat /\ viewer'.row = viewer.row
    <3>1. trigger'.idx = 0
      BY <2>2 DEF SetDump
    <3>2. viewer'.row = viewer.row
      BY <2>2 DEF SetState, StateSet, TypeInv, PanelInv, PanelTypes
    <3> QED BY <3>1, <3>2
  <2> QED BY <1>1, <2>1, <2>2 DEF Receive, Handle, Discard, Loaded, ClearPanels
<1> QED BY <1>2, <1>3, <1>5, <1>6, <1>7 DEF TypeInv, ListTypes, RowTypes

LEMMA ViewerKeyTypes == ASSUME TypeInv, ViewerKey PROVE (ListTypes /\ RowTypes)'
<1>1. viewer \in [dump : Shown, idx : Int, snapshot : Shown, at : Int, row : Int,
                  activeList : {"cpu", "rss"}]
      /\ viewer.row \in Nat
  BY DEF TypeInv, PanelInv, PanelTypes, RowTypes
<1>2. viewer'.row \in Nat
  <2>1. CASE viewer.row > 0 /\ viewer' = [viewer EXCEPT !.row = @ - 1]
    BY <1>1, <2>1
  <2>2. CASE /\ viewer.snapshot # None
             /\ LET cpu == Dump[viewer.snapshot].cpu
                IN  viewer' = [viewer EXCEPT !.activeList = "cpu",
                                             !.row = IF cpu > 0 THEN cpu - 1 ELSE @]
    <3> DEFINE r == IF Dump[viewer.snapshot].cpu > 0 THEN Dump[viewer.snapshot].cpu - 1
                    ELSE viewer.row
    <3>1. Dump[viewer.snapshot].cpu \in Nat
      BY <1>1, <2>2, DumpAssumption DEF Shown
    <3>2. r \in Nat
      BY <1>1, <3>1
    <3>3. viewer' = [viewer EXCEPT !.activeList = "cpu", !.row = r]
      BY <2>2, Zenon
    <3> HIDE DEF r
    <3> QED BY <1>1, <3>2, <3>3
  <2>3. CASE viewer' = [viewer EXCEPT !.row = @ + 1]
    BY <1>1, <2>3
  <2>4. CASE viewer' = [viewer EXCEPT !.activeList = "rss", !.row = 0]
    BY <1>1, <2>4
  <2>5. CASE UNCHANGED viewer
    BY <1>1, <2>5
  <2> QED BY <2>1, <2>2, <2>3, <2>4, <2>5 DEF ViewerKey, ListUp, ListDown
<1> QED BY <1>2 DEF ViewerKey, explorer, TypeInv, ListTypes, RowTypes

LEMMA TriggerKeyTypes == ASSUME TypeInv, TriggerKey PROVE (ListTypes /\ RowTypes)'
<1>1. PICK i \in (IF trigger.dump = None THEN {trigger.idx} ELSE Moves) :
        trigger' = [trigger EXCEPT !.idx = i] /\ SetState(trigger.dump, i)
  BY DEF TriggerKey
<1>2. i \in Nat
  <2>1. CASE trigger.dump = None
    BY <1>1, <2>1 DEF TypeInv, RowTypes
  <2>2. CASE trigger.dump # None
    <3>1. trigger.dump \in Path
      BY <2>2 DEF TypeInv, PanelInv, PanelTypes, Shown
    <3>2. /\ Snapshots(trigger.dump) \in Nat \ {0}
          /\ Dump[trigger.dump].trigger \in 0..(Snapshots(trigger.dump) - 1)
      BY <3>1, SnapshotsOf, DumpAssumption
    <3> QED BY <1>1, <2>2, <3>2 DEF Moves
  <2> QED BY <2>1, <2>2
<1>3. trigger'.idx = i /\ viewer'.row = viewer.row
  BY <1>1 DEF SetState, StateSet, TypeInv, PanelInv, PanelTypes
<1> QED BY <1>2, <1>3 DEF TriggerKey, explorer, TypeInv, ListTypes, RowTypes

LEMMA StepTypes == ASSUME TypeInv, [Next]_vars PROVE (ListTypes /\ RowTypes)'
<1> USE DEF TypeInv
<1>1. CASE DaemonWrites
  <2>1. written \in Nat
    BY PathsCounted DEF ListTypes
  <2>2. written' = written + 1 /\ written' \in 0..Cardinality(Path)
    <3>1. written + 1 \in 1..Cardinality(Path)
      BY <1>1, PathAssumption DEF DaemonWrites
    <3> QED BY <1>1, <2>1, <3>1, PathsCounted DEF DaemonWrites
  <2>3. disk' \subseteq 1..written'
    BY <1>1, <2>1, <2>2 DEF DaemonWrites, ListTypes
  <2>4. files' \in Seq(1..written') /\ \A m \in BagToSet(answers') : m.files \in Seq(1..written')
    BY <1>1, <2>1, <2>2, WrittenGrows DEF DaemonWrites, ListTypes, explorer
  <2> QED BY <1>1, <2>2, <2>3, <2>4 DEF DaemonWrites, ListTypes, RowTypes, explorer, panels
<1>2. CASE DaemonCleansUp
  BY <1>2 DEF DaemonCleansUp, ListTypes, RowTypes, explorer, panels
<1>3. ASSUME NEW k \in Kind, Perform(k) PROVE (ListTypes /\ RowTypes)'
  BY <1>3, PerformTypes
<1>4. ASSUME NEW k \in Kind, Deliver(k) PROVE (ListTypes /\ RowTypes)'
  BY <1>4, DeliverTypes
<1>5. CASE Quit \/ Panic
  BY <1>5, EndTypes DEF Quit, Panic
<1>6. CASE Focus \/ Reload \/ Enter \/ Confirm \/ Cancel
  <2>1. activePanel' \in DOMAIN NextPanel
    BY <1>6 DEF Focus, Reload, Enter, Confirm, Cancel, ListTypes, NextPanel
  <2>2. dialog' \in [action : {"none", "single", "all"}, path : Path \cup {None}]
    BY <1>6 DEF Focus, Reload, Enter, Confirm, Cancel, Closed, ListTypes
  <2>3. {loading', lost', cleared'} \subseteq BOOLEAN
    BY <1>6 DEF Focus, Reload, Enter, Confirm, Cancel, ListTypes
  <2>4. UNCHANGED <<status, written, disk, files, cursor, trigger, viewer, answers>>
    BY <1>6 DEF Focus, Reload, Enter, Confirm, Cancel, explorer, panels
  <2> QED BY <2>1, <2>2, <2>3, <2>4 DEF ListTypes, RowTypes
<1>7. CASE Delete
  <2>1. Selected \in Path \cup {None}
    <3>1. Selected \in 1..written \cup {None}
      <4>1. written \in Nat /\ files \in Seq(1..written) /\ cursor \in 0..Len(files)
        BY PathsCounted DEF ListTypes
      <4> QED BY <4>1, SelectedWritten
    <3>2. 1..written \subseteq Path
      BY PathsCounted DEF ListTypes
    <3> QED BY <3>1, <3>2
  <2>2. dialog' \in [action : {"none", "single", "all"}, path : Path \cup {None}]
    BY <1>7, <2>1 DEF Delete
  <2> QED BY <1>7, <2>2 DEF Delete, ListTypes, RowTypes, explorer, panels
<1>8. CASE ExplorerKey
  <2>1. cursor' \in 0..Len(files) /\ (cursor' < Len(files) \/ files = << >>)
    <3>1. cursor \in Nat /\ Len(files) \in Nat /\ cursor <= Len(files)
      BY DEF ListTypes
    <3>2. cursor < Len(files) \/ files = << >>
      BY DEF ListTypes
    <3> QED BY <1>8, <3>1, <3>2 DEF ExplorerKey
  <2> QED BY <1>8, <2>1 DEF ExplorerKey, ListTypes, RowTypes, panels
<1>9. CASE TriggerKey
  BY <1>9, TriggerKeyTypes
<1>10. CASE ViewerKey
  BY <1>10, ViewerKeyTypes
<1>11. CASE UNCHANGED vars
  BY <1>11 DEF vars, explorer, panels, ListTypes, RowTypes
<1> QED BY <1>1, <1>2, <1>3, <1>4, <1>5, <1>6, <1>7, <1>8, <1>9, <1>10, <1>11 DEF Next

\* The lists hold dumps that were written, the explorer's cursor is on one of
\* them, whatever lists arrive and whichever is shorter than the one before
\* (explorer.go:57-63), and the timeline's index on a snapshot of its dump.
THEOREM TypeCorrect == Spec => []TypeOK
<1>1. Init => TypeInv
  BY InitInv, InitTypes DEF TypeInv
<1>2. TypeInv /\ [Next]_vars => TypeInv'
  BY StepInv, StepTypes DEF TypeInv
<1>3. TypeInv => TypeOK
  <2> SUFFICES ASSUME TypeInv PROVE TypeOK
    OBVIOUS
  <2>1. Selected # None \/ files = << >>
    <3>1. written \in Nat /\ files \in Seq(1..written) /\ cursor \in 0..Len(files)
      BY PathsCounted DEF TypeInv, ListTypes
    <3> QED BY <3>1, SelectedWritten DEF TypeInv, ListTypes
  <2>2. /\ trigger.dump \in Path \cup {None} /\ trigger.idx \in Nat
        /\ trigger.dump # None => trigger.idx < Snapshots(trigger.dump)
        /\ viewer.activeList \in {"cpu", "rss"} /\ viewer.row \in Nat
        /\ detail.dump \in Path \cup {None}
    <3>1. trigger.dump # None => trigger.idx \in 0..(Snapshots(trigger.dump) - 1)
      BY DEF TypeInv, PanelInv, PanelTypes
    <3>2. trigger.dump # None => Snapshots(trigger.dump) \in Nat
      BY SnapshotsOf DEF TypeInv, PanelInv, PanelTypes, Shown
    <3>3. trigger.dump # None => trigger.idx < Snapshots(trigger.dump)
      BY <3>1, <3>2
    <3> QED BY <3>3 DEF TypeInv, RowTypes, PanelInv, PanelTypes, Shown
  <2> QED BY <2>1, <2>2 DEF TypeInv, ListTypes, TypeOK
<1> QED BY <1>1, <1>2, <1>3, PTL DEF Spec
===============================================================================
