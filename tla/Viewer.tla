-------------------------------- MODULE Viewer --------------------------------
(***************************************************************************)
(* The terminal viewer (src/internal/ui/bubbletea/app.go and the panels    *)
(* under src/internal/ui/components).  Update is the only writer of its    *)
(* state and takes one message at a time: keys, mouse clicks, and the      *)
(* answers of commands, which run on their own while more keys arrive and  *)
(* answer in any order.                                                    *)
(*                                                                         *)
(* Paths are numbered as the daemon writes them.  Sizes, colours, status   *)
(* lines and the dragging of borders are left out.                         *)
(***************************************************************************)
EXTENDS Bags, Integers, Sequences, FiniteSets

CONSTANTS
    Dump,       \* what each path holds: the number of snapshots, the index
                \* the timeline takes for the trigger, the one recorded as
                \* origin, and the lengths of the two process lists
    Home,       \* the paths in the directory of GetDataPaths that comes first
    MaxPending  \* bound: commands and answers under way at once

Path == DOMAIN Dump
None == 0

ASSUME PathAssumption == IsFiniteSet(Path) /\ Path = 1..Cardinality(Path)
ASSUME DumpAssumption ==
    \A p \in Path : /\ Dump[p].snapshots \in Nat \ {0}
                    /\ Dump[p].trigger \in 0..Dump[p].snapshots - 1
                    /\ {Dump[p].origin, Dump[p].cpu, Dump[p].rss} \subseteq Nat
ASSUME HomeAssumption == Home \subseteq Path

VARIABLES
    status,         \* "up", "quit" or "panicked"
    written, disk,  \* dumps ever written, and those still there
    files, cursor,  \* explorer
    selectedFile,   \* the trigger panel's: the file it names on top
    activePanel, loading,
    currentFile,    \* what was loaded last; never displayed
    dialog,         \* confirmDialog: its action and data
    trigger,        \* trigger panel: dump, snapshotIdx
    viewer,         \* process panel
    detail,         \* the process panel's overlay: detailProc, by its place
    running,        \* bag of commands started
    answers,        \* bag of messages on their way to Update
    lost,           \* history: Update discarded an answer that "loading"
                    \* waited for, and nothing was asked or answered since
    cleared         \* history: a deletion emptied the panels, and nothing
                    \* was loaded since

explorer == <<files, cursor, selectedFile>>
panels == <<trigger, viewer, detail, currentFile>>
vars == <<status, written, disk, explorer, activePanel, loading, dialog,
          panels, running, answers, lost, cleared>>

Closed == [action |-> "none", path |-> None]

Selected == IF cursor < Len(files) THEN files[cursor + 1] ELSE None

Snapshots(d) == IF d = None THEN 0 ELSE Dump[d].snapshots

ActiveProcs ==
    IF viewer.snapshot = None THEN 0
    ELSE IF viewer.activeList = "rss" THEN Dump[viewer.snapshot].rss
    ELSE Dump[viewer.snapshot].cpu

Command(kind, path) == [kind |-> kind, path |-> path]
Under == BagCardinality(running) + BagCardinality(answers)
Start(c) == running' = running (+) SetToBag({c})

NewTrigger == [dump |-> None, idx |-> 0]
NewViewer == [dump |-> None, idx |-> 0, snapshot |-> None, at |-> 0,
              row |-> 0, activeList |-> "cpu"]
NoDetail == [dump |-> None, at |-> 0, activeList |-> "cpu", row |-> 0]

Init ==
    /\ status = "up"
    /\ written = 0 /\ disk = {}
    /\ files = << >> /\ cursor = 0 /\ selectedFile = None
    /\ activePanel = "explorer" /\ loading = FALSE /\ currentFile = None
    /\ dialog = Closed
    /\ trigger = NewTrigger /\ viewer = NewViewer /\ detail = NoDetail
    /\ running = SetToBag({Command("refresh", None)})
    /\ answers = EmptyBag
    /\ lost = FALSE /\ cleared = FALSE

\* The process ends, and all it held with it.
End(how) ==
    /\ status' = how
    /\ files' = << >> /\ cursor' = 0 /\ selectedFile' = None
    /\ activePanel' = "explorer" /\ loading' = FALSE /\ currentFile' = None
    /\ trigger' = NewTrigger /\ viewer' = NewViewer /\ detail' = NoDetail
    /\ running' = EmptyBag /\ answers' = EmptyBag
    /\ UNCHANGED <<written, disk, dialog, lost, cleared>>

-------------------------------------------------------------------------------
(* The daemon. *)

DaemonWrites ==
    /\ status = "up" /\ written + 1 \in Path
    /\ written' = written + 1
    /\ disk' = disk \cup {written'}
    /\ UNCHANGED <<status, explorer, activePanel, loading, dialog, panels,
                   running, answers, lost, cleared>>

DaemonCleansUp ==
    /\ status = "up"
    /\ \E p \in disk : disk' = disk \ {p}
    /\ UNCHANGED <<status, written, explorer, activePanel, loading, dialog,
                   panels, running, answers, lost, cleared>>

-------------------------------------------------------------------------------
(* Commands.  The answer holds what the command saw when it ran; a read or  *)
(* a removal may fail of itself.                                            *)

\* Each dump of a directory once, newest first, or nothing where the directory
\* cannot be read.
Listings(d) ==
    {<< >>} \cup
    {list \in [1..Cardinality(d) -> d] : \A i, j \in DOMAIN list : i < j => list[i] > list[j]}

\* One directory after the other, each sorted by itself.
Found(d) ==
    {lists[1] \o lists[2] : lists \in Listings(d \cap Home) \X Listings(d \ Home)}

Outcomes(c) ==
    CASE c.kind = "refresh" ->
            {[ok |-> TRUE, files |-> found, disk |-> disk] :
                found \in Found(disk)}
      [] c.kind = "load" ->
            {[ok |-> ok, files |-> << >>, disk |-> disk] : ok \in {FALSE, c.path \in disk}}
      [] c.kind = "delete" ->
            {[ok |-> FALSE, files |-> << >>, disk |-> disk]} \cup
            (IF c.path \in disk
             THEN {[ok |-> TRUE, files |-> << >>, disk |-> disk \ {c.path}]} ELSE {})
      [] c.kind = "deleteAll" ->
            {[ok |-> TRUE, files |-> << >>, disk |-> stuck] : stuck \in SUBSET disk}

\* Update reads the path of a success only.
Answer(c, o) ==
    [kind |-> c.kind, path |-> IF o.ok THEN c.path ELSE None, ok |-> o.ok, files |-> o.files]

Perform(kind) ==
    /\ status = "up"
    /\ \E c \in {x \in BagToSet(running) : x.kind = kind} : \E o \in Outcomes(c) :
        /\ running' = running (-) SetToBag({c})
        /\ disk' = o.disk
        /\ answers' = answers (+) SetToBag({Answer(c, o)})
    /\ UNCHANGED <<status, written, explorer, activePanel, loading, dialog,
                   panels, lost, cleared>>

-------------------------------------------------------------------------------
(* Update, on answers. *)

SetDump(d) == trigger' = [dump |-> d, idx |-> 0]

\* Viewer.SetState.  Row, list and overlay stay; so does the snapshot of an
\* index out of range.
StateSet(d, i) ==
    [viewer EXCEPT !.dump = d, !.idx = i,
                   !.snapshot = IF d = None \/ i < Snapshots(d) THEN d ELSE @,
                   !.at = IF d # None /\ i < Snapshots(d) THEN i ELSE @]
SetState(d, i) == viewer' = StateSet(d, i) /\ UNCHANGED detail

ClearPanels == currentFile' = None /\ SetDump(None) /\ SetState(None, 0)

\* Mutant: a load that fails empties the panels.
LoadedClearing(m) ==
    /\ loading' = FALSE
    /\ IF m.ok
       THEN /\ currentFile' = m.path /\ SetDump(m.path) /\ SetState(m.path, 0)
            /\ cleared' = FALSE
       ELSE ClearPanels /\ UNCHANGED cleared
    /\ UNCHANGED <<explorer, running>>

\* Mutant: "Loading" is left to the load that succeeds.
LoadedWaiting(m) ==
    /\ IF m.ok
       THEN /\ currentFile' = m.path /\ SetDump(m.path) /\ SetState(m.path, 0)
            /\ loading' = FALSE /\ cleared' = FALSE
       ELSE UNCHANGED <<loading, panels, cleared>>
    /\ UNCHANGED <<explorer, running>>

Loaded(m) ==
    /\ loading' = FALSE
    /\ IF m.ok
       THEN /\ currentFile' = m.path /\ SetDump(m.path) /\ SetState(m.path, 0)
            /\ cleared' = FALSE
       ELSE UNCHANGED <<panels, cleared>>
    /\ UNCHANGED <<explorer, running>>

Handle(m) ==
    \/ /\ m.kind = "refresh"
       /\ loading' = FALSE
       /\ files' = m.files
       /\ cursor' = IF cursor >= Len(m.files) THEN IF m.files = << >> THEN 0 ELSE Len(m.files) - 1
                    ELSE cursor
       /\ selectedFile' = Selected'
       /\ UNCHANGED <<panels, running, cleared>>
    \/ m.kind = "load" /\ Loaded(m)
    \/ /\ m.kind = "delete" /\ m.ok
       /\ IF currentFile = m.path THEN ClearPanels /\ cleared' = TRUE
          ELSE UNCHANGED <<panels, cleared>>
       /\ Start(Command("refresh", None))
       /\ UNCHANGED <<explorer, loading>>
    \/ /\ m.kind = "delete" /\ ~m.ok
       /\ UNCHANGED <<explorer, loading, panels, running, cleared>>
    \/ /\ m.kind = "deleteAll"
       /\ ClearPanels /\ cleared' = TRUE
       /\ Start(Command("refresh", None))
       /\ UNCHANGED <<explorer, loading>>

Discard(m) ==
    /\ lost' = IF m.kind \in {"refresh", "load"} /\ loading THEN TRUE ELSE lost
    /\ UNCHANGED <<explorer, loading, panels, running, cleared>>

\* Mutant: only keys are kept from Update while the dialog is open.
ReceiveAlways(m) == Handle(m) /\ lost' = (lost /\ loading')

\* The dialog sees every message first, and Update returns whatever it was.
Receive(m) ==
    IF dialog.action = "none" THEN Handle(m) /\ lost' = (lost /\ loading')
    ELSE Discard(m)

Deliver(kind) ==
    /\ status = "up"
    /\ \E m \in BagToSet(answers) :
        /\ m.kind = kind
        /\ answers' = answers (-) SetToBag({m})
        /\ Receive(m)
    /\ UNCHANGED <<status, written, disk, activePanel, dialog>>

-------------------------------------------------------------------------------
(* Update, on keys and clicks. *)

Key == status = "up" /\ dialog.action = "none"

Quit == Key /\ End("quit")

NextPanel == [explorer |-> "trigger", trigger |-> "viewer", viewer |-> "explorer"]

\* Tab, or a click in a panel.
Focus ==
    /\ Key
    /\ \/ activePanel' = NextPanel[activePanel]
       \/ activePanel' \in DOMAIN NextPanel
    /\ UNCHANGED <<status, written, disk, explorer, loading, dialog, panels,
                   running, answers, lost, cleared>>

Reload ==
    /\ Key /\ Under < MaxPending
    /\ loading' = TRUE /\ lost' = FALSE
    /\ Start(Command("refresh", None))
    /\ UNCHANGED <<status, written, disk, explorer, activePanel, dialog,
                   panels, answers, cleared>>

Enter ==
    /\ Key /\ Under < MaxPending
    /\ activePanel \in {"explorer", "trigger"}
    /\ Selected # None
    /\ loading' = TRUE /\ lost' = FALSE
    /\ Start(Command("load", Selected))
    /\ UNCHANGED <<status, written, disk, explorer, activePanel, dialog,
                   panels, answers, cleared>>

Delete ==
    /\ Key /\ activePanel = "explorer"
    /\ \/ Selected # None /\ dialog' = [action |-> "single", path |-> Selected]
       \/ files # << >> /\ dialog' = [action |-> "all", path |-> None]
    /\ UNCHANGED <<status, written, disk, explorer, activePanel, loading,
                   panels, running, answers, lost, cleared>>

Confirm ==
    /\ status = "up" /\ dialog.action # "none"
    /\ Under < MaxPending
    /\ dialog' = Closed
    /\ Start(IF dialog.action = "single" THEN Command("delete", dialog.path)
             ELSE Command("deleteAll", None))
    /\ UNCHANGED <<status, written, disk, explorer, activePanel, loading,
                   panels, answers, lost, cleared>>

Cancel ==
    /\ status = "up" /\ dialog.action # "none"
    /\ dialog' = Closed
    /\ UNCHANGED <<status, written, disk, explorer, activePanel, loading,
                   panels, running, answers, lost, cleared>>

ExplorerKey ==
    /\ Key /\ activePanel = "explorer"
    /\ \/ cursor > 0 /\ cursor' = cursor - 1
       \/ cursor + 1 < Len(files) /\ cursor' = cursor + 1
    /\ UNCHANGED <<status, written, disk, files, activePanel, loading, dialog,
                   panels, running, answers, lost, cleared>>
    /\ selectedFile' = Selected'

\* Mutant: the jump to the origin is not checked against the dump.
MovesUnchecked ==
    LET n == Snapshots(trigger.dump)
    IN  {0, n - 1, Dump[trigger.dump].trigger, Dump[trigger.dump].origin}
            \cup ({trigger.idx - 1, trigger.idx + 1} \cap 0..n - 1)

\* The indices the trigger panel's keys move to: one newer, one older, the
\* oldest, the newest, the trigger, and the origin if the dump has it.
Moves ==
    LET n == Snapshots(trigger.dump)
        steps == {trigger.idx - 1, trigger.idx + 1, Dump[trigger.dump].origin}
    IN  {0, n - 1, Dump[trigger.dump].trigger} \cup (steps \cap 0..n - 1)

\* Mutant: the process panel keeps the index it was loaded with.
TriggerKeyAlone ==
    /\ Key /\ activePanel = "trigger"
    /\ \E i \in IF trigger.dump = None THEN {trigger.idx} ELSE Moves :
        trigger' = [trigger EXCEPT !.idx = i]
    /\ UNCHANGED <<status, written, disk, explorer, activePanel, loading,
                   dialog, viewer, detail, currentFile, running, answers, lost, cleared>>

TriggerKey ==
    /\ Key /\ activePanel = "trigger"
    /\ \E i \in IF trigger.dump = None THEN {trigger.idx} ELSE Moves :
        /\ trigger' = [trigger EXCEPT !.idx = i]
        /\ SetState(trigger.dump, i)
    /\ UNCHANGED <<status, written, disk, explorer, activePanel, loading,
                   dialog, currentFile, running, answers, lost, cleared>>

ListUp ==
    \/ /\ viewer.row > 0
       /\ viewer' = [viewer EXCEPT !.row = @ - 1]
    \/ /\ viewer.row = 0 /\ viewer.activeList = "rss" /\ viewer.snapshot # None
       /\ LET cpu == Dump[viewer.snapshot].cpu
          IN  viewer' = [viewer EXCEPT !.activeList = "cpu",
                                       !.row = IF cpu > 0 THEN cpu - 1 ELSE @]

ListDown ==
    \/ /\ viewer.row + 1 < ActiveProcs
       /\ viewer' = [viewer EXCEPT !.row = @ + 1]
    \/ /\ viewer.row + 1 >= ActiveProcs
       /\ viewer.activeList = "cpu" /\ viewer.snapshot # None
       /\ Dump[viewer.snapshot].rss > 0
       /\ viewer' = [viewer EXCEPT !.activeList = "rss", !.row = 0]

\* i, on a row of the list.
Inspect ==
    /\ viewer.row < ActiveProcs
    /\ detail' = [dump |-> viewer.snapshot, at |-> viewer.at,
                  activeList |-> viewer.activeList, row |-> viewer.row]

\* The overlay keeps every key but Esc from the list.
ViewerKey ==
    /\ Key /\ activePanel = "viewer"
    /\ \/ detail = NoDetail /\ (ListUp \/ ListDown) /\ UNCHANGED detail
       \/ detail = NoDetail /\ Inspect /\ UNCHANGED viewer
       \/ detail # NoDetail /\ detail' = NoDetail /\ UNCHANGED viewer
    /\ UNCHANGED <<status, written, disk, explorer, activePanel, loading,
                   dialog, trigger, currentFile, running, answers, lost, cleared>>

\* Up at the top of the second list takes the first from v.snapshot, which
\* may be nil.
Panic ==
    /\ Key /\ activePanel = "viewer" /\ detail = NoDetail
    /\ viewer.row = 0 /\ viewer.activeList = "rss" /\ viewer.snapshot = None
    /\ End("panicked")

Kind == {"refresh", "load", "delete", "deleteAll"}

Next ==
    \/ DaemonWrites \/ DaemonCleansUp
    \/ \E k \in Kind : Perform(k) \/ Deliver(k)
    \/ Quit \/ Focus \/ Reload \/ Enter \/ Delete \/ Confirm \/ Cancel
    \/ ExplorerKey \/ TriggerKey \/ ViewerKey \/ Panic

\* A command runs on a goroutine of its own and its message is read by the
\* event loop; nobody need press a key.  No more is asked than that, of the
\* commands that "loading" waits for, one is run and one answered.
Awaited == {"refresh", "load"}
Fairness ==
    /\ WF_vars(\E k \in Awaited : Perform(k))
    /\ WF_vars(\E k \in Awaited : Deliver(k))

Spec == Init /\ [][Next]_vars /\ Fairness

-------------------------------------------------------------------------------
\* The lists hold dumps that were written, the explorer's cursor is on one of
\* them, and the timeline's index on a snapshot of the dump it shows, which
\* trigger.go's keys compute from the dump's own numbers.
TypeOK ==
    /\ status \in {"up", "quit", "panicked"}
    /\ written \in 0..Cardinality(Path) /\ disk \subseteq 1..written
    /\ files \in Seq(1..written) /\ cursor \in 0..Len(files)
    /\ Selected # None \/ files = << >>
    /\ activePanel \in DOMAIN NextPanel
    /\ {loading, lost, cleared} \subseteq BOOLEAN
    /\ dialog \in [action : {"none", "single", "all"}, path : Path \cup {None}]
    /\ trigger.dump \in Path \cup {None}
    /\ trigger.idx \in Nat
    /\ trigger.dump # None => trigger.idx < Snapshots(trigger.dump)
    /\ viewer.activeList \in {"cpu", "rss"} /\ viewer.row \in Nat
    /\ detail.dump \in Path \cup {None}

\* The timeline's position and the process lists are of one snapshot of one
\* dump, the one a deletion is compared with, whatever was loaded, deleted or
\* moved in between (app.go:258-259, 283-285, 295-299).  The file named above
\* them is the explorer's selection, which need not be the dump.  The overlay
\* stays on the process it was opened on, which need not be of that snapshot
\* or dump; closed, it leaves the cursor on the row it was opened from.
PanelsAgree ==
    /\ viewer.dump = trigger.dump /\ viewer.idx = trigger.idx
    /\ viewer.snapshot = trigger.dump
    /\ viewer.snapshot # None => viewer.at = trigger.idx
    /\ currentFile = trigger.dump
    /\ selectedFile = Selected
    /\ detail # NoDetail => detail.row = viewer.row /\ detail.activeList = viewer.activeList

\* What the dialog asks about is what the explorer shows: no list that arrives
\* meanwhile moves the selection under the question (app.go:90-111, 219-240).
DialogIsAboutTheSelection ==
    /\ dialog.action = "single" => dialog.path = Selected /\ Selected # None
    /\ dialog.action = "all" => files # << >>

\* The process list is only without a snapshot under the cursor of its second
\* half once a deletion has emptied the panels: no other sequence of keys and
\* answers makes Up dereference it (viewer.go:99-104).
PanicFollowsDeletion == status = "panicked" => cleared

\* "Loading" always ends, unless the answer came while a dialog was open and
\* Update discarded it (app.go:205-217, 265-278, 110).
LoadingEnds == []<>(~loading \/ lost \/ status # "up")
===============================================================================
