---------------------------- MODULE BundleGraph ----------------------------
(***************************************************************************)
(* One bundle: the row that names its loop, orchestration and roles, the   *)
(* ownership of these assets, their rows, and the managed directory with   *)
(* spec.md and bundle.yml.  An import builds a new graph of assets over    *)
(* many transactions and file writes and then puts it in the place of the  *)
(* old one; a delete looks first and erases later; an edit writes a graph  *)
(* it read before.  Callers are threads of the web server and CLI          *)
(* commands; nothing serializes them.                                      *)
(***************************************************************************)
EXTENDS Naturals

CONSTANTS Callers,   \* threads that serve one operation at a time
          Users,     \* runs of a graph's loop, and loops elsewhere that take its orchestration
          Runs,      \* the users that are runs
          MaxIds,    \* bound: graphs imported and texts edited
          LastFault  \* bound: a process dies or a cleanup fails, one of them, while no more
                     \* than these are given

ASSUME BundleAssumption == MaxIds \in Nat /\ LastFault \in Nat /\ Runs \subseteq Users

VARIABLES row,      \* the graph the bundle's row names, None without a row
          owned,    \* the graphs bundle_asset_ownership gives to the bundle
          asset,    \* the rows of each graph: which there are, and what they say
          disk,     \* the managed directory
          use,      \* what each user refers to
          call,     \* the operation each caller is serving
          made,     \* identities given out
          past      \* what happened that no operation puts right

\* past.  crossed: an edit and an import or a delete overlapped; overlap: any two operations
\* did; died: nobody finished one; kept: a rollback could not delete an asset; undone: one
\* took back an import that had been committed; torn: a directory was not removed or restored.

vars == <<row, owned, asset, disk, use, call, made, past>>

\* A graph is known by the identity of the import that made it, a text by that of the
\* import or the edit that brought it.
None == 0
Ids == 1 .. MaxIds
Texts == Ids \cup {None}
Kinds == {"role", "orchestration", "loop"}

\* role: the role definition's text; told: the copy the orchestration keeps of it;
\* spec, snap: the loop's contract, its spec and its own copy of the role's text.
Asset == [has : SUBSET Kinds, role : Texts, told : Texts, spec : Texts, snap : Texts]
Gone == [has |-> {}, role |-> None, told |-> None, spec |-> None, snap |-> None]

\* What bundle.yml tells: the loop it was derived from and that loop's contract.
Export == [loop : Texts, spec : Texts, snap : Texts]
NoExport == [loop |-> None, spec |-> None, snap |-> None]
ExportOf(g) == [loop |-> g, spec |-> asset[g].spec, snap |-> asset[g].snap]

Disk == [there : BOOLEAN, spec : Texts, yaml : Export]
NoDisk == [there |-> FALSE, spec |-> None, yaml |-> NoExport]

\* late: it began while an operation that builds or removes a graph was at work.
Use == [of : Texts, late : BOOLEAN]
NoUse == [of |-> None, late |-> FALSE]

\* old: the graph the operation read; new: the one it makes; text, role: what its snapshot
\* of the loop holds; stale: whether the orchestration told another role text; prior,
\* saved: what a failure puts back; undoing: on the way back.
Call == [op : {"none", "import", "delete", "update", "role"},
         pc : {"idle", "spec", "role", "orchestration", "loop", "yaml", "commit", "confirm",
               "restore", "look", "undo_loop", "undo_orchestration", "undo_role", "undo_dir", "erase",
               "clear", "set", "touch", "refresh", "files", "contract", "save", "sync",
               "revert", "resync"},
         old : Texts, new : Texts, text : Texts, role : Texts, stale : BOOLEAN,
         prior : Texts, saved : Disk, undoing : BOOLEAN]
IdleCall == [op |-> "none", pc |-> "idle", old |-> None, new |-> None, text |-> None,
             role |-> None, stale |-> FALSE, prior |-> None, saved |-> NoDisk,
             undoing |-> FALSE]

Past == [crossed : BOOLEAN, overlap : BOOLEAN, died : BOOLEAN, kept : BOOLEAN,
         undone : BOOLEAN, torn : BOOLEAN]

TypeOK ==
  /\ row \in Texts
  /\ owned \subseteq Ids
  /\ asset \in [Ids -> Asset]
  /\ disk \in Disk
  /\ use \in [Users -> Use]
  /\ call \in [Callers -> Call]
  /\ made \in Texts
  /\ past \in Past

Init ==
  /\ row = None
  /\ owned = {}
  /\ asset = [g \in Ids |-> Gone]
  /\ disk = NoDisk
  /\ use = [u \in Users |-> NoUse]
  /\ call = [c \in Callers |-> IdleCall]
  /\ made = 0
  /\ past = [crossed |-> FALSE, overlap |-> FALSE, died |-> FALSE, kept |-> FALSE,
             undone |-> FALSE, torn |-> FALSE]

-----------------------------------------------------------------------------
(* Steps of an operation                                                   *)

Busy(c) == call[c].pc # "idle"
At(c, pc) == call[c].pc = pc
Go(c, pc) == call' = [call EXCEPT ![c].pc = pc]
Return(c) == call' = [call EXCEPT ![c] = IdleCall]
Whole(g) == asset[g].has = Kinds
Edits(op) == op \in {"update", "role"}

\* An operation begins.
Begin(c, new) ==
  /\ ~Busy(c)
  /\ call' = [call EXCEPT ![c] = new]
  /\ past' = [past EXCEPT
       !.overlap = @ \/ \E d \in Callers : Busy(d),
       !.crossed = @ \/ \E d \in Callers : Busy(d) /\ Edits(call[d].op) # Edits(new.op)]

Fresh == made + 1
Faulty == made <= LastFault /\ ~past.died /\ ~past.kept /\ ~past.torn

\* Fault: the preflight checks the assets and not who uses them.
Sound == row \in owned /\ Whole(row)

\* preflight_bundle_graph_delete: every linked asset is there and owned, no run of the loop
\* is active, no loop or orchestration elsewhere refers to the graph.
Deletable == row \in owned /\ Whole(row) /\ \A u \in Users : use[u].of # row

\* A run needs the graph's loop, a loop elsewhere the orchestration it takes.
Needs(u) == IF u \in Runs THEN "loop" ELSE "orchestration"

\* Assets are deleted, the runs of a loop with it; a reference to them points nowhere.
Become(new) ==
  /\ asset' = new
  /\ use' = [u \in Users |-> IF use[u] # NoUse /\ Needs(u) \notin new[use[u].of].has
                             THEN NoUse ELSE use[u]]

\* The rows of the graphs gs are deleted.
Erase(gs) == Become([g \in Ids |-> IF g \in gs THEN Gone ELSE asset[g]])

-----------------------------------------------------------------------------
(* Import, as a new bundle or over an existing one                         *)

\* An existing bundle is replaced only when it could be deleted; its directory is saved.
Import(c) ==
  /\ made < MaxIds
  /\ row # None => Deletable
  /\ Begin(c, [IdleCall EXCEPT !.op = "import", !.pc = "spec", !.old = row, !.new = Fresh,
                               !.text = Fresh,
                               !.saved = IF row = None THEN NoDisk ELSE disk])
  /\ made' = Fresh
  /\ UNCHANGED <<row, owned, asset, disk, use>>

WriteSpec(c) ==
  /\ At(c, "spec")
  /\ disk' = [disk EXCEPT !.there = TRUE, !.spec = call[c].text]
  /\ Go(c, "role")
  /\ UNCHANGED <<row, owned, asset, use, made, past>>

CreateRole(c) ==
  /\ At(c, "role")
  /\ asset' = [asset EXCEPT ![call[c].new].has = @ \cup {"role"},
                            ![call[c].new].role = call[c].text]
  /\ Go(c, "orchestration")
  /\ UNCHANGED <<row, owned, disk, use, made, past>>

CreateOrchestration(c) ==
  /\ At(c, "orchestration")
  /\ asset' = [asset EXCEPT ![call[c].new].has = @ \cup {"orchestration"},
                            ![call[c].new].told = asset[call[c].new].role]
  /\ Go(c, "loop")
  /\ UNCHANGED <<row, owned, disk, use, made, past>>

\* create_loop reads the spec from the managed directory, whoever wrote it last.
CreateLoop(c) ==
  LET g == call[c].new
  IN  /\ At(c, "loop")
      /\ disk.spec # None
      /\ asset' = [asset EXCEPT ![g].has = @ \cup {"loop"}, ![g].spec = disk.spec,
                                ![g].snap = asset[g].told]
      /\ Go(c, "yaml")
      /\ UNCHANGED <<row, owned, disk, use, made, past>>

\* bundle.yml is derived from the new loop before the row names it.
WriteYaml(c) ==
  /\ At(c, "yaml")
  /\ disk.there /\ "loop" \in asset[call[c].new].has
  /\ disk' = [disk EXCEPT !.yaml = ExportOf(call[c].new)]
  /\ Go(c, "commit")
  /\ UNCHANGED <<row, owned, asset, use, made, past>>

\* create_bundle, which fails when the row is there; replace_bundle_graph, which needs the
\* row and the ownership of what it links, and erases what the bundle owns by now.
Acceptable(c) == IF call[c].old = None THEN row = None ELSE row \in owned

\* Fault: the graph the import read is erased, whoever owns it by now.
GraphRead(c) == {call[c].old} \ {None}

\* The graphs a replacing import erases.
Replaced(c) == owned

\* Fault: the row is moved and its ownership stays.
OwnershipForgotten(c) == owned

\* The graphs the bundle owns once the row names the new one.
OwnedAfter(c) == {call[c].new}

CommitImport(c) ==
  /\ At(c, "commit")
  /\ Acceptable(c)
  /\ Erase(Replaced(c))
  /\ row' = call[c].new
  /\ owned' = OwnedAfter(c)
  /\ Go(c, "confirm")
  /\ UNCHANGED <<disk, made, past>>

\* The import reads its row back and answers.
ConfirmImport(c) ==
  /\ At(c, "confirm")
  /\ row # None
  /\ Return(c)
  /\ UNCHANGED <<row, owned, asset, disk, use, made, past>>

\* A step before the commit raises: a fault of the disk or the database, a text that does
\* not validate, a spec or a directory that another operation removed, a commit refused.
\* Or the row is gone again when it is read back.
FailImport(c) ==
  /\ \/ call[c].op = "import"
        /\ call[c].pc \in {"spec", "role", "orchestration", "loop", "yaml", "commit"}
     \/ At(c, "confirm") /\ row = None
  /\ Go(c, "look")
  /\ UNCHANGED <<row, owned, asset, disk, use, made, past>>

\* The commit holds and reading the row back raises: the import is taken for failed.  What a
\* new bundle was given is deleted under its row.
FailAfterCommit(c) ==
  /\ At(c, "confirm") /\ row # None
  /\ IF call[c].old = None
     THEN Go(c, "look") /\ past' = [past EXCEPT !.undone = TRUE]
     ELSE Go(c, "restore") /\ UNCHANGED past
  /\ UNCHANGED <<row, owned, asset, disk, use, made>>

-----------------------------------------------------------------------------
(* Rollback of a failed import: what it made, and the directory            *)

\* update_bundle with the links of the bundle that was replaced, whose assets are erased.  It
\* may raise as well: then nothing is rolled back and the new graph stays.
RestoreRow(c) ==
  /\ At(c, "restore")
  /\ \/ /\ row # None
        /\ row' = call[c].old /\ owned' = {call[c].old}
        /\ Go(c, "look")
        /\ past' = [past EXCEPT !.undone = TRUE]
     \/ row = None /\ Go(c, "look") /\ UNCHANGED <<row, owned, past>>
     \/ Return(c) /\ UNCHANGED <<row, owned, past>>
  /\ UNCHANGED <<asset, disk, use, made>>

ActiveRun(g) == \E u \in Runs : use[u].of = g

\* delete_loop looks for active runs before it deletes; a refusal is swallowed.
LookForRuns(c) ==
  LET g == call[c].new
  IN  /\ At(c, "look")
      /\ Go(c, IF "loop" \in asset[g].has /\ ~ActiveRun(g) THEN "undo_loop"
               ELSE "undo_orchestration")
      /\ past' = [past EXCEPT !.kept = @ \/ ("loop" \in asset[g].has /\ ActiveRun(g))]
      /\ UNCHANGED <<row, owned, asset, disk, use, made>>

\* One asset is deleted in a transaction of its own; a failure is swallowed.
Undo(c, pc, kind, next) ==
  LET g == call[c].new
  IN  /\ At(c, pc)
      /\ \/ /\ Become([asset EXCEPT ![g] = IF asset[g].has \subseteq {kind} THEN Gone
                                           ELSE [asset[g] EXCEPT !.has = @ \ {kind}]])
            /\ UNCHANGED past
         \/ Faulty /\ past' = [past EXCEPT !.kept = TRUE] /\ UNCHANGED <<asset, use>>
      /\ Go(c, next)
      /\ UNCHANGED <<row, owned, disk, made>>

UndoLoop(c) == Undo(c, "undo_loop", "loop", "undo_orchestration")
UndoOrchestration(c) == Undo(c, "undo_orchestration", "orchestration", "undo_role")
UndoRole(c) == Undo(c, "undo_role", "role", "undo_dir")

\* Fault: only the directory of a bundle that was new is put right.
DirLeft(c) == IF call[c].old = None THEN NoDisk ELSE disk

\* The directory of a new bundle is removed, that of an existing one restored.
DirRestored(c) == IF call[c].old = None THEN NoDisk
                  ELSE IF call[c].saved.there THEN call[c].saved ELSE disk

\* A fault of the disk is recorded and no more.
Torn == Faulty /\ past' = [past EXCEPT !.torn = TRUE]

UndoDir(c) ==
  /\ At(c, "undo_dir")
  /\ \/ disk' = DirRestored(c) /\ UNCHANGED past
     \/ disk' \in {disk, NoDisk} /\ Torn
  /\ Return(c)
  /\ UNCHANGED <<row, owned, asset, use, made>>

-----------------------------------------------------------------------------
(* Delete                                                                  *)

Delete(c) ==
  /\ row # None
  /\ Deletable
  /\ Begin(c, [IdleCall EXCEPT !.op = "delete", !.pc = "erase", !.old = row])
  /\ UNCHANGED <<row, owned, asset, disk, use, made>>

\* delete_bundle_graph: whatever the bundle owns by now goes, with the row.
EraseGraph(c) ==
  /\ At(c, "erase")
  /\ IF row = None
     THEN Return(c) /\ UNCHANGED <<row, owned, asset, use>>
     ELSE Erase(owned) /\ row' = None /\ owned' = {} /\ Go(c, "clear")
  /\ UNCHANGED <<disk, made, past>>

ClearDir(c) ==
  /\ At(c, "clear")
  /\ \/ disk' = NoDisk /\ UNCHANGED past
     \/ UNCHANGED disk /\ Torn
  /\ Return(c)
  /\ UNCHANGED <<row, owned, asset, use, made>>

-----------------------------------------------------------------------------
(* Edits: a new spec, a new role text, or neither                          *)

\* _build_bundle_loop_snapshot: the row, its loop, orchestration and role are read.
Readable == row # None /\ Whole(row)
Snapshot(new, text) == [new EXCEPT !.pc = "refresh", !.old = row, !.text = text,
                                   !.role = asset[row].role,
                                   !.stale = asset[row].role # asset[row].told]

Update(c) ==
  /\ Readable
  /\ \E text \in {disk.spec, Fresh} \ {None} :
       /\ text \in Ids
       /\ Begin(c, Snapshot([IdleCall EXCEPT !.op = "update"], text))
       /\ made' = IF text = Fresh THEN Fresh ELSE made
  /\ UNCHANGED <<row, owned, asset, disk, use>>

\* update_role_definition of a role the bundle's row names.
UpdateRole(c) ==
  /\ row # None /\ "role" \in asset[row].has
  /\ made < MaxIds
  /\ Begin(c, [IdleCall EXCEPT !.op = "role", !.pc = "set", !.old = row, !.text = Fresh,
                               !.prior = asset[row].role])
  /\ made' = Fresh
  /\ UNCHANGED <<row, owned, asset, disk, use>>

SetRole(c) ==
  /\ At(c, "set")
  /\ IF "role" \in asset[call[c].old].has
     THEN asset' = [asset EXCEPT ![call[c].old].role = call[c].text] /\ Go(c, "touch")
     ELSE Return(c) /\ UNCHANGED asset
  /\ UNCHANGED <<row, owned, disk, use, made, past>>

\* A failed edit of a role sets the role back; any other just fails.
AfterError(c) == IF call[c].op = "role" /\ ~call[c].undoing THEN "revert" ELSE "idle"
Raise(c) == IF AfterError(c) = "idle" THEN Return(c) ELSE Go(c, AfterError(c))

\* The bundle that names the role is updated, unless none does any more.
Touch(c) ==
  /\ At(c, "touch")
  /\ \/ row # call[c].old /\ Return(c)
     \/ row = call[c].old /\ Readable /\ disk.spec # None
        /\ call' = [call EXCEPT ![c] = Snapshot(@, disk.spec)]
     \/ row = call[c].old /\ Raise(c)    \* what the edit makes does not validate
  /\ UNCHANGED <<row, owned, asset, disk, use, made, past>>

\* The orchestration takes the role's text when it tells another one; a role edited since
\* the snapshot conflicts with it.
RefreshOrchestration(c) ==
  LET g == call[c].old
  IN  /\ At(c, "refresh")
      /\ IF ~call[c].stale
         THEN UNCHANGED asset /\ Go(c, "files")
         ELSE IF {"role", "orchestration"} \subseteq asset[g].has /\ asset[g].role = call[c].role
         THEN asset' = [asset EXCEPT ![g].told = call[c].role] /\ Go(c, "files")
         ELSE UNCHANGED asset /\ Raise(c)
      /\ UNCHANGED <<row, owned, disk, use, made, past>>

WriteFiles(c) ==
  /\ At(c, "files")
  /\ disk' = [disk EXCEPT !.there = TRUE, !.spec = call[c].text]
  /\ Go(c, "contract")
  /\ UNCHANGED <<row, owned, asset, use, made, past>>

\* update_loop_contract.
UpdateContract(c) ==
  LET g == call[c].old
  IN  /\ At(c, "contract")
      /\ IF "loop" \in asset[g].has
         THEN /\ asset' = [asset EXCEPT ![g].spec = call[c].text, ![g].snap = call[c].role]
              /\ IF call[c].undoing THEN Return(c)
                 ELSE call' = [call EXCEPT ![c] = [@ EXCEPT !.pc = "save", !.text = None,
                                                            !.role = None, !.stale = FALSE]]
         ELSE UNCHANGED asset /\ Raise(c)
      /\ UNCHANGED <<row, owned, disk, use, made, past>>

\* update_bundle: the row and the ownership are written as they were read.
SaveRow(c) ==
  /\ At(c, "save")
  /\ IF row = None
     THEN Raise(c) /\ UNCHANGED <<row, owned>>
     ELSE row' = call[c].old /\ owned' = {call[c].old} /\ Go(c, "sync")
  /\ UNCHANGED <<asset, disk, use, made, past>>

LoopNamed == row # None /\ "loop" \in asset[row].has

\* _sync_bundle_yaml: the row is read again; what a role's edit made may not validate.
SyncYaml(c) ==
  /\ At(c, "sync")
  /\ \/ /\ LoopNamed
        /\ disk' = [disk EXCEPT !.there = TRUE, !.yaml = ExportOf(row)]
        /\ Return(c)
     \/ /\ ~(LoopNamed /\ call[c].op = "update")
        /\ Raise(c)
        /\ UNCHANGED disk
  /\ UNCHANGED <<row, owned, asset, use, made, past>>

Revert(c) ==
  /\ At(c, "revert")
  /\ asset' = [asset EXCEPT ![call[c].old] =
                 IF "role" \in @.has THEN [@ EXCEPT !.role = call[c].prior] ELSE @]
  /\ Go(c, "resync")
  /\ UNCHANGED <<row, owned, disk, use, made, past>>

\* _sync_bundle_loop_snapshot on the way back; a failure of its own is swallowed.
Resync(c) ==
  /\ At(c, "resync")
  /\ IF Readable /\ disk.spec # None
     THEN call' = [call EXCEPT ![c] = Snapshot([@ EXCEPT !.undoing = TRUE], disk.spec)]
     ELSE Return(c)
  /\ UNCHANGED <<row, owned, asset, disk, use, made, past>>

-----------------------------------------------------------------------------
(* The world around                                                        *)

\* start_run, whose insert fails without the loop; create_loop with the orchestration.
TakeUp(u) ==
  \E g \in Ids :
    /\ use[u] = NoUse
    /\ Needs(u) \in asset[g].has
    /\ use' = [use EXCEPT ![u] =
         [of |-> g, late |-> \E c \in Callers : Busy(c) /\ ~Edits(call[c].op)]]
    /\ UNCHANGED <<row, owned, asset, disk, call, made, past>>

\* The run ends, the reference is removed.
GiveUp(u) ==
  /\ use[u] # NoUse
  /\ use' = [use EXCEPT ![u] = NoUse]
  /\ UNCHANGED <<row, owned, asset, disk, call, made, past>>

\* The process dies, or an edit meets a fault that is no LooporaError: nobody finishes.
Die(c) ==
  /\ Busy(c) /\ Faulty
  /\ Return(c)
  /\ past' = [past EXCEPT !.died = TRUE]
  /\ UNCHANGED <<row, owned, asset, disk, use, made>>

ImportStep(c) ==
  \/ Import(c) \/ WriteSpec(c) \/ CreateRole(c) \/ CreateOrchestration(c) \/ CreateLoop(c)
  \/ WriteYaml(c) \/ CommitImport(c) \/ ConfirmImport(c) \/ FailImport(c)
  \/ FailAfterCommit(c)
RollbackStep(c) ==
  \/ RestoreRow(c) \/ LookForRuns(c) \/ UndoLoop(c) \/ UndoOrchestration(c) \/ UndoRole(c) \/ UndoDir(c)
DeleteStep(c) == Delete(c) \/ EraseGraph(c) \/ ClearDir(c)
EditStep(c) ==
  \/ Update(c) \/ UpdateRole(c) \/ SetRole(c) \/ Touch(c) \/ RefreshOrchestration(c)
  \/ WriteFiles(c) \/ UpdateContract(c) \/ SaveRow(c) \/ SyncYaml(c) \/ Revert(c)
  \/ Resync(c)

Next ==
  \/ \E c \in Callers :
       ImportStep(c) \/ RollbackStep(c) \/ DeleteStep(c) \/ EditStep(c) \/ Die(c)
  \/ \E u \in Users : TakeUp(u) \/ GiveUp(u)

Spec == Init /\ [][Next]_vars

-----------------------------------------------------------------------------
(* Properties                                                              *)

Quiet == \A c \in Callers : ~Busy(c)

\* The row names a graph that the bundle owns and, unless one of two things happened, is
\* whole: imports and deletes may cross as they like, fail before their commit and die
\* half-way; an edit that crosses one of them can break it, and so does the rollback of an
\* import that failed after its commit.
RowNamesItsGraph ==
  row # None => row \in owned /\ (past.crossed \/ past.undone \/ Whole(row))

\* With no operation at work no asset is left over: a failed import, one that lost to
\* another, a graph that was replaced leave nothing behind, unless the rollback was refused a
\* deletion.  An import undone after its commit leaves nothing either, on its own; the old
\* row it writes back can be the loss of a graph committed meanwhile.
NothingLeftOver ==
  Quiet /\ ~past.crossed /\ ~past.died /\ ~past.kept /\ ~(past.undone /\ past.overlap)
    => \A g \in Ids : asset[g].has # {} => g = row

\* What was in use before an import or a delete began is never deleted under its user:
\* an active run keeps its loop, a loop elsewhere the orchestration it takes.  (Two edits
\* that cross imports can bring the row back to a graph taken up meanwhile.)
UsedGraphStays ==
  [][\A u \in Users : use[u].of # None /\ ~use[u].late /\ ~past.crossed
       => Needs(u) \in asset'[use[u].of].has]_vars

\* Between operations that did not overlap, spec.md, bundle.yml, the loop's contract, the
\* orchestration's copy and the role definition agree, whichever step of an edit, or of an
\* import before its commit, failed; without a row there is no directory.
FilesFollowTheRow ==
  Quiet /\ ~past.overlap /\ ~past.died /\ ~past.undone /\ ~past.torn =>
    IF row = None THEN disk = NoDisk
    ELSE /\ disk = [there |-> TRUE, spec |-> asset[row].spec, yaml |-> ExportOf(row)]
         /\ asset[row].snap = asset[row].role
         /\ asset[row].told = asset[row].role
=============================================================================
