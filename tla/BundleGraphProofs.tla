-------------------------- MODULE BundleGraphProofs ---------------------------
(***************************************************************************)
(* Proofs about one bundle, for any number of callers, users and graphs.   *)
(* Whatever crosses, the row owns the one graph it names, a graph being    *)
(* built is nobody else's, and no reference points nowhere.  As long as no *)
(* edit crosses an import or a delete, what an import or a delete takes    *)
(* away has no user that was there before it, and the row's graph is whole *)
(* unless an import was undone after its commit.  An operation on its own  *)
(* leaves assets and files as it found them or brings all of them to the   *)
(* new text; undone after its commit it leaves no assets at all.           *)
(***************************************************************************)
EXTENDS BundleGraph, TLAPS

-----------------------------------------------------------------------------
(* The inductive invariant: what holds whatever crosses.                   *)

Building == {"spec", "role", "orchestration", "loop", "yaml", "commit"}
Undoing == {"look", "undo_loop", "undo_orchestration", "undo_role", "undo_dir"}
Committed == {"confirm", "restore"}
Importing == Building \cup Undoing \cup Committed
Deleting == {"erase", "clear"}
Reading == {"refresh", "files", "contract", "save", "sync"}
OfRoles == {"set", "touch", "revert", "resync"}
Editing == Reading \cup OfRoles

\* The operation a call serves, told by the place it has reached, and what it works on.
CallFits(me) ==
  /\ me.pc = "idle" => me = IdleCall
  /\ me.pc \in Importing => me.op = "import" /\ me.new \in Ids /\ me.old # me.new
  /\ me.pc = "restore" => me.old # None
  /\ me.pc \in Deleting => me.op = "delete"
  /\ me.pc \in Editing => me.old \in Ids /\ me.op \in {"update", "role"}
  /\ me.pc \in OfRoles => me.op = "role" /\ ~me.undoing
  /\ me.undoing => me.op = "role"

\* How far an import has come with its graph.
KindsAt(pc) ==
  CASE pc \in {"spec", "role"} -> {}
    [] pc = "orchestration" -> {"role"}
    [] pc = "loop" -> {"role", "orchestration"}
    [] OTHER -> Kinds

Owns == owned = {row} \ {None}

\* Every identity in use has been given out.
Given ==
  /\ row <= made
  /\ \A g \in Ids : asset[g].has # {} => g <= made
  /\ \A c \in Callers : call[c].old <= made /\ call[c].new <= made

\* A graph being built is its import's alone.
OwnGraphs ==
  /\ \A c, d \in Callers :
       call[c].pc \in Importing /\ call[d].pc \in Importing /\ call[c].new = call[d].new => c = d
  /\ \A c \in Callers : call[c].pc \in Building =>
       /\ asset[call[c].new].has = KindsAt(call[c].pc)
       /\ call[c].new # row
       /\ \A d \in Callers : call[d].old # call[c].new

NoDangling ==
  \A u \in Users : use[u] # NoUse => use[u].of \in Ids /\ Needs(u) \in asset[use[u].of].has

Basics ==
  /\ TypeOK
  /\ \A c \in Callers : CallFits(call[c])
  /\ Owns
  /\ Given
  /\ OwnGraphs
  /\ NoDangling
  /\ past.crossed => past.overlap

-----------------------------------------------------------------------------
(* As long as no edit crosses an import or a delete.                       *)

Kin == \A c, d \in Callers : Busy(c) /\ Busy(d) => Edits(call[c].op) = Edits(call[d].op)

RowWhole == row # None => Whole(row)

\* An edit still edits the row's graph.
EditsTheRow == \A c \in Callers : call[c].pc \in Editing => row = call[c].old

\* A graph committed is the row's, or gone; one that failed is not the row's.
AfterCommit ==
  \A c \in Callers :
    /\ call[c].pc \in Committed => call[c].new = row \/ asset[call[c].new].has = {}
    /\ call[c].pc \in Undoing => call[c].new # row

\* Who takes up a graph while an import or a delete is at work is late.
Spared ==
  \A c \in Callers, u \in Users :
    call[c].pc \in Importing \cup Deleting /\ use[u].of # None /\ ~use[u].late =>
      /\ use[u].of # row
      /\ call[c].pc \in Importing => use[u].of # call[c].old /\ use[u].of # call[c].new

Undone(pc) ==
  CASE pc \in {"look", "undo_loop"} -> Kinds
    [] pc = "undo_orchestration" -> {"role", "orchestration"}
    [] pc = "undo_role" -> {"role"}
    [] OTHER -> {}

\* Assets belong to the row or to an import at work.
Accounted ==
  /\ \A g \in Ids : asset[g].has # {} =>
       g = row \/ \E c \in Callers : call[c].pc \in Importing /\ call[c].new = g
  /\ \A c \in Callers : call[c].pc \in Undoing =>
       asset[call[c].new].has \subseteq Undone(call[c].pc)

Parted == Kin /\ Spared

\* ... and no import has been undone after its commit.
Apart ==
  /\ Parted
  /\ RowWhole
  /\ EditsTheRow
  /\ AfterCommit
  /\ ~past.died /\ ~past.kept => Accounted

-----------------------------------------------------------------------------
(* An operation on its own.                                                *)

\* The directory d says of the graph a, g what its rows say.
Tells(d, g, a) ==
  /\ d = [there |-> TRUE, spec |-> a.spec, yaml |-> [loop |-> g, spec |-> a.spec, snap |-> a.snap]]
  /\ a.spec # None
  /\ a.snap = a.role /\ a.told = a.role

Agreed(d) == IF row = None THEN d = NoDisk ELSE Tells(d, row, asset[row])

\* An import finds the row as it read it, and can put back the directory; its graph and
\* what it wrote carry its text.
ImportAlone(me) ==
  LET a == asset[me.new] IN
  /\ me.pc \in Building \cup Undoing =>
       row = me.old /\ Agreed(IF me.old = None THEN NoDisk ELSE me.saved)
  /\ me.pc \in Building =>
       /\ me.text # None
       /\ me.pc # "spec" => disk.there /\ disk.spec = me.text
       /\ me.pc \in {"orchestration", "loop", "yaml", "commit"} => a.role = me.text
       /\ me.pc \in {"loop", "yaml", "commit"} => a.told = me.text
       /\ me.pc \in {"yaml", "commit"} => a.spec = me.text /\ a.snap = me.text
       /\ me.pc = "commit" => disk.yaml = ExportOf(me.new)
  /\ me.pc \in Committed => row = me.new /\ Agreed(disk)

DeleteAlone(me) ==
  /\ me.pc = "erase" => row # None
  /\ me.pc = "clear" => row = None

\* An edit of the spec.
UpdateAlone(me) ==
  LET a == asset[row] IN
  me.op = "update" =>
    /\ disk.there
    /\ me.pc = "refresh" => ~me.stale
    /\ me.pc \in {"refresh", "files", "contract"} =>
         me.role = a.role /\ a.told = a.role /\ me.text # None
    /\ me.pc = "contract" => disk.spec = me.text
    /\ me.pc \in {"save", "sync"} =>
         disk.spec = a.spec /\ a.spec # None /\ a.snap = a.role /\ a.told = a.role

\* An edit of a role's text: until its end the directory tells the prior text.
RoleAlone(me) ==
  LET a == asset[row] IN
  me.op = "role" =>
    /\ disk = [there |-> TRUE, spec |-> a.spec,
               yaml |-> [loop |-> row, spec |-> a.spec, snap |-> me.prior]]
    /\ a.spec # None
    /\ me.pc = "set" => a.role = me.prior /\ a.told = a.role /\ a.snap = a.role
    /\ me.pc \in {"refresh", "files", "contract"} => me.role = a.role /\ me.text = a.spec
    /\ me.pc = "refresh" => (me.stale <=> a.role # a.told)
    /\ me.pc \in {"files", "contract"} => a.told = a.role
    /\ me.pc \in {"save", "sync"} => a.snap = a.role /\ a.told = a.role
    /\ me.pc = "resync" \/ me.undoing => a.role = me.prior

Alone ==
  /\ \A c, d \in Callers : Busy(c) /\ Busy(d) => c = d
  /\ Quiet => Agreed(disk)
  /\ \A c \in Callers :
       /\ call[c].pc \in Importing => ImportAlone(call[c])
       /\ call[c].pc \in Deleting => DeleteAlone(call[c])
       /\ call[c].pc \in Editing => UpdateAlone(call[c]) /\ RoleAlone(call[c])

-----------------------------------------------------------------------------
(* An import on its own was undone after its commit.                       *)

\* One operation at a time: what it committed is the row.
Serial ==
  /\ \A c, d \in Callers : Busy(c) /\ Busy(d) => c = d
  /\ \A c \in Callers : call[c].pc \in Committed => row = call[c].new

\* Only its rollback is at work, and only on its graph; the row names nothing.
Wrecked ==
  /\ row # None
  /\ \A c, d \in Callers : Busy(c) /\ Busy(d) => c = d
  /\ \A c \in Callers : Busy(c) =>
       call[c].pc \in Undoing /\ asset[call[c].new].has \subseteq Undone(call[c].pc)
  /\ \A g \in Ids : asset[g].has # {} => \E c \in Callers : Busy(c) /\ call[c].new = g

IInv ==
  /\ Basics
  /\ ~past.crossed => Parted
  /\ ~past.crossed /\ ~past.undone => Apart
  /\ ~past.overlap /\ ~past.died /\ ~past.undone /\ ~past.torn => Alone
  /\ ~past.overlap => Serial
  /\ past.undone /\ ~past.overlap /\ ~past.died /\ ~past.kept => Wrecked

-----------------------------------------------------------------------------
(* Types.                                                                  *)

Fits == TypeOK /\ \A c \in Callers : CallFits(call[c])

LEMMA Constant ==
  /\ None \in Texts /\ None \notin Ids /\ Ids \subseteq Texts
  /\ Ids \subseteq Nat /\ Texts \subseteq Nat
  /\ IdleCall \in Call /\ IdleCall.pc = "idle" /\ IdleCall.old = None /\ IdleCall.new = None
  /\ NoDisk \in Disk /\ NoUse \in Use /\ Gone \in Asset /\ Gone.has = {}
<1>1. /\ None \in Texts /\ None \notin Ids /\ Ids \subseteq Texts
      /\ Ids \subseteq Nat /\ Texts \subseteq Nat
  BY BundleAssumption DEF Texts, Ids, None
<1>2. NoExport \in Export
  BY <1>1 DEF NoExport, Export
<1>3. NoDisk \in Disk
  BY <1>1, <1>2 DEF NoDisk, Disk
<1>4. IdleCall \in Call /\ IdleCall.pc = "idle" /\ IdleCall.old = None /\ IdleCall.new = None
  BY <1>1, <1>3 DEF IdleCall, Call
<1>5. NoUse \in Use /\ Gone \in Asset /\ Gone.has = {}
  BY <1>1 DEF NoUse, Use, Gone, Asset
<1> QED
  BY <1>1, <1>3, <1>4, <1>5

LEMMA IdleFits == CallFits(IdleCall)
  BY DEF CallFits, IdleCall, Importing, Committed, Building, Undoing, Deleting, Editing, Reading,
     OfRoles

LEMMA InitTypes == Init => Fits
<1> SUFFICES ASSUME Init PROVE Fits
  OBVIOUS
<1>1. \A c \in Callers : CallFits(call[c])
  BY IdleFits DEF Init
<1>2. row \in Texts /\ owned \subseteq Ids /\ disk \in Disk /\ made \in Texts
  BY Constant DEF Init, None
<1>3. /\ asset \in [Ids -> Asset] /\ use \in [Users -> Use] /\ call \in [Callers -> Call]
      /\ past \in Past
  BY Constant DEF Init, Past
<1> QED
  BY <1>1, <1>2, <1>3 DEF Fits, TypeOK

\* The exports and snapshots an operation takes of the rows are well formed.
LEMMA ExportIsExport ==
  ASSUME TypeOK, NEW g \in Ids
  PROVE  ExportOf(g) \in Export
<1>1. asset[g] \in Asset /\ g \in Texts
  BY Constant DEF TypeOK
<1> QED
  BY <1>1 DEF ExportOf, Export, Asset

LEMMA BecomeTypes ==
  ASSUME TypeOK, NEW new \in [Ids -> Asset], Become(new)
  PROVE  asset' \in [Ids -> Asset] /\ use' \in [Users -> Use]
  BY Constant DEF TypeOK, Become

LEMMA EraseTypes ==
  ASSUME TypeOK, NEW gs, Erase(gs)
  PROVE  asset' \in [Ids -> Asset] /\ use' \in [Users -> Use]
<1>1. [g \in Ids |-> IF g \in gs THEN Gone ELSE asset[g]] \in [Ids -> Asset]
  BY Constant DEF TypeOK
<1> QED
  BY <1>1, BecomeTypes DEF Erase

\* A call goes on to another place.
LEMMA GoTypes ==
  ASSUME TypeOK, NEW c \in Callers, NEW pc, Go(c, pc),
         pc \in Importing \cup Deleting \cup Editing \cup {"idle"}
  PROVE  /\ call' \in [Callers -> Call]
         /\ call'[c] = [call[c] EXCEPT !.pc = pc]
         /\ \A d \in Callers \ {c} : call'[d] = call[d]
<1>1. call \in [Callers -> Call] /\ call[c] \in Call
  BY DEF TypeOK
<1>2. [call[c] EXCEPT !.pc = pc] \in Call
  BY <1>1 DEF Call, Importing, Committed, Building, Undoing, Deleting, Editing, Reading, OfRoles
<1> QED
  BY <1>1, <1>2 DEF Go

LEMMA ReturnTypes ==
  ASSUME TypeOK, NEW c \in Callers, Return(c)
  PROVE  /\ call' \in [Callers -> Call]
         /\ call'[c] = IdleCall
         /\ \A d \in Callers \ {c} : call'[d] = call[d]
  BY Constant DEF TypeOK, Return

\* A call that begins.
LEMMA BeginTypes ==
  ASSUME TypeOK, NEW c \in Callers, NEW new \in Call, Begin(c, new)
  PROVE  /\ call' \in [Callers -> Call]
         /\ call'[c] = new
         /\ \A d \in Callers \ {c} : call'[d] = call[d]
         /\ past' \in Past
         /\ call[c].pc = "idle"
         /\ past'.died = past.died /\ past'.kept = past.kept
      /\ past'.undone = past.undone /\ past'.torn = past.torn
         /\ past'.overlap = (past.overlap \/ \E d \in Callers : Busy(d))
         /\ past'.crossed =
              (past.crossed \/ \E d \in Callers : Busy(d) /\ Edits(call[d].op) # Edits(new.op))
<1>1. /\ past \in Past
      /\ call \in [Callers -> Call]
  BY DEF TypeOK
<1> DEFINE o == \E d \in Callers : Busy(d)
           x == \E d \in Callers : Busy(d) /\ Edits(call[d].op) # Edits(new.op)
<1>2. /\ past' = [past EXCEPT !.overlap = @ \/ o, !.crossed = @ \/ x]
      /\ o \in BOOLEAN /\ x \in BOOLEAN
      /\ call' = [call EXCEPT ![c] = new]
      /\ call[c].pc = "idle"
  BY DEF Begin, Busy
<1> HIDE DEF o, x
<1>3. /\ past' \in Past
      /\ past'.died = past.died /\ past'.kept = past.kept
      /\ past'.undone = past.undone /\ past'.torn = past.torn
      /\ past'.overlap = (past.overlap \/ o)
      /\ past'.crossed = (past.crossed \/ x)
  BY <1>1, <1>2 DEF Past
<1>4. /\ call' \in [Callers -> Call] /\ call'[c] = new
      /\ \A d \in Callers \ {c} : call'[d] = call[d]
  BY <1>1, <1>2
<1> QED
  BY <1>2, <1>3, <1>4 DEF o, x

-----------------------------------------------------------------------------
(* What a step of a call does, in the terms of the invariant.              *)

PastMoves ==
  /\ past' \in Past
  /\ past.crossed => past'.crossed
  /\ past.overlap => past'.overlap
  /\ past.died => past'.died
  /\ past.kept => past'.kept
  /\ past.undone => past'.undone
  /\ past.torn => past'.torn
  /\ past'.crossed => past'.overlap

\* Its own record: it goes on, returns, or begins.
CallMoves(c) ==
  LET me == call[c]
      new == call'[c]
  IN  /\ call' \in [Callers -> Call]
      /\ \A d \in Callers \ {c} : call'[d] = call[d]
      /\ CallFits(new)
      /\ PastMoves
      /\ new.old \in {me.old, row, None}
      /\ new.new \in {me.new, None}
      /\ new.pc \in Importing =>
           me.pc \in Importing /\ new.old = me.old /\ new.new = me.new
      /\ new.pc \in Building => me.pc \in Building
      /\ new.pc = "confirm" => me.pc = "commit"
      /\ new.pc = "restore" => me.pc = "confirm"
      /\ new.pc \in Undoing => \/ me.pc \in Building \cup Undoing
                               \/ me.pc \in Committed /\ (row = None \/ past'.undone)
      /\ me.pc \in Importing /\ new.pc \notin Importing =>
           past'.died \/ me.pc \in Committed \cup {"undo_dir"}
      /\ new.pc \in Deleting => me.pc \in Deleting \/ \A u \in Users : use[u].of # row
      /\ new.pc \in Editing => new.old = row \/ (me.pc \in Editing /\ new.old = me.old)
      /\ new.pc # "idle" =>
           \/ me.pc # "idle" /\ Edits(new.op) = Edits(me.op)
           \/ past'.crossed
           \/ \A d \in Callers : Busy(d) => Edits(call[d].op) = Edits(new.op)

\* The row and its graph: a commit, an erasure, the save of an edit; a graph grows while it
\* is built, shrinks while it is undone, and goes when its row does.
RowMoves(c) ==
  LET me == call[c]
      pc == call'[c].pc
  IN  /\ row' \in Texts /\ owned' = {row'} \ {None} /\ disk' \in Disk
      /\ asset' \in [Ids -> Asset] /\ use' \in [Users -> Use]
      /\ made' \in Texts /\ made <= made'
      /\ row' # row => \/ me.pc = "commit" /\ pc = "confirm" /\ row' = me.new
                       \/ me.pc = "erase" /\ row' = None
                       \/ me.pc = "save" /\ row' = me.old
                       \/ me.pc = "restore" /\ row' = me.old /\ past'.undone
      /\ pc = "confirm" => row' = me.new
      /\ me.pc \in {"commit", "erase"} /\ row' # row /\ row # None => asset'[row].has = {}
      /\ \A g \in Ids :
           \/ asset'[g].has = asset[g].has
           \/ me.pc \in Building /\ g = me.new /\ asset[g].has \subseteq asset'[g].has
           \/ me.pc \in Undoing /\ g = me.new /\ asset'[g].has \subseteq asset[g].has
           \/ me.pc \in {"commit", "erase"} /\ g = row /\ row' # row /\ asset'[g].has = {}
      /\ pc \in Building => asset'[me.new].has = KindsAt(pc)
      /\ pc \in Undoing /\ ~past'.kept =>
           ((me.pc \in Undoing => asset[me.new].has \subseteq Undone(me.pc))
              => asset'[me.new].has \subseteq Undone(pc))
      /\ \/ Become(asset')
         \/ use' = use /\ \A g \in Ids : asset[g].has \subseteq asset'[g].has

LEMMA PastStill == Basics /\ past' = past => PastMoves
  BY DEF Basics, TypeOK, PastMoves

LEMMA BasicsType == Basics => TypeOK
  BY DEF Basics

LEMMA GoMoves ==
  ASSUME Basics, NEW c \in Callers, NEW pc, Go(c, pc), PastMoves,
         \/ /\ pc \in Importing /\ call[c].pc \in Importing
            /\ pc \in Building => call[c].pc \in Building
            /\ pc = "confirm" => call[c].pc = "commit"
            /\ pc = "restore" => call[c].pc = "confirm" /\ call[c].old # None
            /\ pc \in Undoing =>
                 \/ call[c].pc \in Building \cup Undoing
                 \/ call[c].pc \in Committed /\ (row = None \/ past'.undone)
         \/ pc \in Deleting /\ call[c].pc \in Deleting
         \/ /\ pc \in Editing /\ call[c].pc \in Editing
            /\ pc \in OfRoles => call[c].op = "role" /\ ~call[c].undoing
  PROVE  CallMoves(c) /\ call'[c].pc = pc
<1>1. TypeOK /\ CallFits(call[c]) /\ call[c] \in Call
  BY DEF Basics, TypeOK
<1>2. /\ call' \in [Callers -> Call] /\ call'[c] = [call[c] EXCEPT !.pc = pc]
      /\ \A d \in Callers \ {c} : call'[d] = call[d]
  BY <1>1, GoTypes
<1>3. /\ call'[c].pc = pc /\ call'[c].op = call[c].op /\ call'[c].old = call[c].old
      /\ call'[c].new = call[c].new /\ call'[c].undoing = call[c].undoing
  BY <1>1, <1>2 DEF Call
<1>4. CallFits(call'[c])
  BY <1>1, <1>3 DEF CallFits, Importing, Committed, Building, Undoing, Deleting, Editing, Reading,
     OfRoles
<1>5. CASE pc \in Importing
  <2>1. /\ call[c].pc \in Importing
        /\ pc \in Building => call[c].pc \in Building
        /\ pc = "confirm" => call[c].pc = "commit"
        /\ pc = "restore" => call[c].pc = "confirm"
        /\ pc \in Undoing => \/ call[c].pc \in Building \cup Undoing
                             \/ call[c].pc \in Committed /\ (row = None \/ past'.undone)
    <3>1. pc \notin Deleting /\ pc \notin Editing
      BY <1>5 DEF Importing, Committed, Building, Undoing, Deleting, Editing, Reading, OfRoles
    <3>2. "confirm" \in Committed /\ "restore" \in Committed
      BY DEF Committed
    <3> QED
      BY <1>5, <3>1, <3>2
  <2>2. pc \notin Deleting /\ pc \notin Editing /\ call[c].pc # "idle"
    BY <1>5, <2>1 DEF Importing, Committed, Building, Undoing, Deleting, Editing, Reading, OfRoles
  <2> QED
    BY <1>2, <1>3, <1>4, <1>5, <2>1, <2>2 DEF CallMoves
<1>6. CASE pc \notin Importing
  BY <1>2, <1>3, <1>4, <1>6 DEF CallMoves, Importing, Committed, Building, Undoing, Deleting,
     Editing, Reading, OfRoles
<1> QED
  BY <1>5, <1>6 DEF Importing, Committed, Building, Undoing, Deleting, Editing, Reading, OfRoles

LEMMA ReturnMoves ==
  ASSUME Basics, NEW c \in Callers, Return(c), PastMoves,
         call[c].pc \in Importing => past'.died \/ call[c].pc \in Committed \cup {"undo_dir"}
  PROVE  CallMoves(c) /\ call'[c] = IdleCall /\ call'[c].pc = "idle"
<1>1. /\ call' \in [Callers -> Call] /\ call'[c] = IdleCall
      /\ \A d \in Callers \ {c} : call'[d] = call[d]
  BY BasicsType, ReturnTypes
<1> QED
  BY <1>1, IdleFits, Constant DEF CallMoves, Importing, Committed, Building, Undoing, Deleting,
     Editing,
     Reading, OfRoles

\* A step that moves no row and makes or deletes no asset.
LEMMA RowStill ==
  ASSUME Basics, NEW c \in Callers, UNCHANGED <<row, owned, use>>, asset' \in [Ids -> Asset],
         \A g \in Ids : asset'[g].has = asset[g].has, disk' \in Disk,
         made' \in Texts, made <= made',
         call'[c].pc # "confirm",
         call'[c].pc \in Building =>
           call[c].pc \in Building /\ KindsAt(call'[c].pc) = KindsAt(call[c].pc),
         call'[c].pc \in Undoing =>
           /\ call[c].pc \in Importing
           /\ \/ Undone(call'[c].pc) = Kinds
              \/ call[c].pc \in Undoing /\ Undone(call'[c].pc) = Undone(call[c].pc)
              \/ past'.kept
              \/ asset[call[c].new].has \subseteq Undone(call'[c].pc)
  PROVE  RowMoves(c)
<1> DEFINE me == call[c]
           pc == call'[c].pc
<1>1. /\ TypeOK /\ Owns /\ CallFits(me)
      /\ me.pc \in Building => asset[me.new].has = KindsAt(me.pc)
  BY DEF Basics, OwnGraphs
<1>2. me.pc \in Importing => /\ me.new \in Ids /\ asset[me.new].has \subseteq Kinds
                             /\ asset'[me.new].has = asset[me.new].has
  BY <1>1 DEF CallFits, TypeOK, Asset
<1>3. pc \in Undoing /\ ~past'.kept =>
        ((me.pc \in Undoing => asset[me.new].has \subseteq Undone(me.pc))
           => asset'[me.new].has \subseteq Undone(pc))
  <2> SUFFICES ASSUME pc \in Undoing, ~past'.kept,
                      me.pc \in Undoing => asset[me.new].has \subseteq Undone(me.pc)
               PROVE  asset'[me.new].has \subseteq Undone(pc)
    OBVIOUS
  <2> QED
    BY <1>2
<1>4. pc \in Building => asset'[me.new].has = KindsAt(pc)
  BY <1>1, <1>2 DEF Importing, Committed
<1>5. row' \in Texts /\ owned' = {row'} \ {None} /\ use' \in [Users -> Use]
  BY <1>1 DEF TypeOK, Owns
<1> QED
  BY <1>3, <1>4, <1>5 DEF RowMoves

-----------------------------------------------------------------------------
(* Each action of a caller but the beginning of an import moves its call and the row so.  *)

Moves(c) == CallMoves(c) /\ RowMoves(c)

\* What the call at hand is known to be.
LEMMA CallKnown ==
  ASSUME Basics, NEW c \in Callers
  PROVE  /\ call[c] \in Call /\ CallFits(call[c])
         /\ call[c].pc \in Importing => call[c].new \in Ids /\ asset[call[c].new] \in Asset
         /\ call[c].pc \in Building => asset[call[c].new].has = KindsAt(call[c].pc)
         /\ call[c].pc \in Editing => call[c].old \in Ids /\ asset[call[c].old] \in Asset
         /\ made \in Texts /\ made <= made /\ disk \in Disk /\ asset \in [Ids -> Asset]
         /\ use \in [Users -> Use] /\ row \in Texts /\ call[c].old <= made
         /\ UNCHANGED past => PastMoves
<1>1. TypeOK /\ CallFits(call[c]) /\ OwnGraphs /\ Given
  BY DEF Basics
<1>2. made \in Texts /\ made <= made
  BY <1>1, Constant DEF TypeOK
<1> QED
  BY <1>1, <1>2, PastStill DEF TypeOK, CallFits, OwnGraphs, Given

LEMMA WriteSpecMoves == ASSUME Basics, NEW c \in Callers, WriteSpec(c) PROVE Moves(c)
<1>1. disk' \in Disk
  BY CallKnown DEF WriteSpec, Disk, Call
<1>2. CallMoves(c) /\ call'[c].pc = "role" /\ call[c].pc = "spec"
  BY GoMoves, CallKnown DEF WriteSpec, At, Importing, Committed, Building, Undoing
<1> QED
  BY <1>1, <1>2, RowStill, CallKnown DEF WriteSpec, Moves, KindsAt, Building, Undoing

LEMMA WriteYamlMoves == ASSUME Basics, NEW c \in Callers, WriteYaml(c) PROVE Moves(c)
<1>1. call[c].pc = "yaml" /\ call[c].pc \in Importing
  BY DEF WriteYaml, At, Importing, Committed, Building
<1>2. disk' \in Disk
  BY <1>1, CallKnown, ExportIsExport, BasicsType DEF WriteYaml, Disk
<1>3. CallMoves(c) /\ call'[c].pc = "commit"
  BY <1>1, GoMoves, CallKnown DEF WriteYaml, Importing, Committed, Building, Undoing
<1> QED
  BY <1>1, <1>2, <1>3, RowStill, CallKnown DEF WriteYaml, Moves, KindsAt, Building, Undoing

LEMMA ConfirmImportMoves == ASSUME Basics, NEW c \in Callers, ConfirmImport(c) PROVE Moves(c)
<1>1. CallMoves(c) /\ call'[c].pc = "idle"
  BY ReturnMoves, CallKnown DEF ConfirmImport, At, Committed
<1> QED
  BY <1>1, RowStill, CallKnown DEF ConfirmImport, Moves, Building, Undoing

LEMMA FailImportMoves == ASSUME Basics, NEW c \in Callers, FailImport(c) PROVE Moves(c)
<1>1. call[c].pc \in Building \/ (call[c].pc = "confirm" /\ row = None)
  BY DEF FailImport, At, Building
<1>2. CallMoves(c) /\ call'[c].pc = "look" /\ call[c].pc \in Importing
  BY <1>1, GoMoves, CallKnown DEF FailImport, Importing, Committed, Building, Undoing
<1> QED
  BY <1>2, RowStill, CallKnown DEF FailImport, Moves, Building, Undoing, Undone

LEMMA FailAfterCommitMoves ==
  ASSUME Basics, NEW c \in Callers, FailAfterCommit(c) PROVE Moves(c)
<1>1. /\ call[c].pc = "confirm" /\ call[c].pc \in Importing
      /\ UNCHANGED <<row, owned, asset, disk, use, made>>
  BY DEF FailAfterCommit, At, Importing, Committed
<1>2. CASE call[c].old = None
  <2>1. Go(c, "look") /\ past' = [past EXCEPT !.undone = TRUE]
    BY <1>2 DEF FailAfterCommit
  <2>2. PastMoves /\ past'.undone
    BY <2>1 DEF PastMoves, Basics, TypeOK, Past
  <2>3. CallMoves(c) /\ call'[c].pc = "look"
    BY <1>1, <2>1, <2>2, GoMoves DEF Importing, Committed, Building, Undoing
  <2> QED
    BY <1>1, <2>3, RowStill, CallKnown DEF Moves, Building, Undoing, Undone
<1>3. CASE call[c].old # None
  <2>1. Go(c, "restore") /\ UNCHANGED past
    BY <1>3 DEF FailAfterCommit
  <2>2. CallMoves(c) /\ call'[c].pc = "restore"
    BY <1>1, <1>3, <2>1, GoMoves, CallKnown DEF Importing, Committed, Building, Undoing
  <2> QED
    BY <1>1, <2>2, RowStill, CallKnown DEF Moves, Building, Undoing
<1> QED
  BY <1>2, <1>3

LEMMA RestoreRowMoves == ASSUME Basics, NEW c \in Callers, RestoreRow(c) PROVE Moves(c)
<1>1. /\ call[c].pc = "restore" /\ call[c].pc \in Importing
      /\ UNCHANGED <<asset, disk, use, made>>
  BY DEF RestoreRow, At, Importing, Committed
<1>2. /\ call[c].old \in Texts /\ call[c].old # None /\ call[c].new \in Ids
      /\ asset[call[c].new] \in Asset
  BY <1>1, CallKnown DEF CallFits, Call
<1>3. CASE Return(c) /\ UNCHANGED <<row, owned, past>>
  <2>1. CallMoves(c) /\ call'[c].pc = "idle"
    BY <1>1, <1>3, ReturnMoves, CallKnown DEF Committed
  <2> QED
    BY <1>1, <1>3, <2>1, RowStill, CallKnown DEF Moves, Building, Undoing
<1>4. CASE row = None /\ Go(c, "look") /\ UNCHANGED <<row, owned, past>>
  <2>1. CallMoves(c) /\ call'[c].pc = "look"
    BY <1>1, <1>4, GoMoves, CallKnown DEF Importing, Committed, Building, Undoing
  <2> QED
    BY <1>1, <1>4, <2>1, RowStill, CallKnown DEF Moves, Building, Undoing, Undone
<1>5. CASE /\ row' = call[c].old /\ owned' = {call[c].old} /\ Go(c, "look")
           /\ past' = [past EXCEPT !.undone = TRUE]
  <2>1. PastMoves /\ past'.undone
    BY <1>5 DEF PastMoves, Basics, TypeOK, Past
  <2>2. CallMoves(c) /\ call'[c].pc = "look"
    BY <1>1, <1>5, <2>1, GoMoves DEF Importing, Committed, Building, Undoing
  <2>3. owned' = {row'} \ {None} /\ row' \in Texts
    BY <1>2, <1>5
  <2>4. asset'[call[c].new].has \subseteq Undone("look")
    BY <1>1, <1>2 DEF Undone, Asset
  <2> QED
    BY <1>1, <1>5, <2>1, <2>2, <2>3, <2>4, CallKnown DEF Moves, RowMoves, Building, Undoing
<1> QED
  BY <1>3, <1>4, <1>5 DEF RestoreRow

LEMMA LookForRunsMoves == ASSUME Basics, NEW c \in Callers, LookForRuns(c) PROVE Moves(c)
<1> DEFINE g == call[c].new
           b == "loop" \in asset[g].has /\ ActiveRun(g)
           pc == IF "loop" \in asset[g].has /\ ~ActiveRun(g) THEN "undo_loop"
                 ELSE "undo_orchestration"
<1>1. /\ call[c].pc = "look" /\ call[c].pc \in Importing
      /\ Go(c, pc) /\ past' = [past EXCEPT !.kept = @ \/ b]
      /\ UNCHANGED <<row, owned, asset, disk, use, made>>
  BY DEF LookForRuns, At, Importing, Committed, Undoing
<1>2. b \in BOOLEAN
  OBVIOUS
<1>3. /\ pc \in {"undo_loop", "undo_orchestration"}
      /\ pc = "undo_orchestration" /\ ~b => "loop" \notin asset[g].has
  OBVIOUS
<1> HIDE DEF b, pc
<1>4. PastMoves /\ (b => past'.kept)
  <2>1. /\ past \in Past
        /\ past.crossed => past.overlap
    BY DEF Basics, TypeOK
  <2> QED
    BY <1>1, <1>2, <2>1 DEF PastMoves, Past
<1>5. CallMoves(c) /\ call'[c].pc = pc
  BY <1>1, <1>3, <1>4, GoMoves DEF Importing, Committed, Building, Undoing
<1>6. asset[g].has \subseteq Kinds
  BY <1>1, CallKnown DEF Asset
<1>7. pc = "undo_loop" \/ b \/ asset[g].has \subseteq Undone(pc)
  BY <1>3, <1>6 DEF Undone, Kinds
<1> QED
  BY <1>1, <1>3, <1>4, <1>5, <1>7, RowStill, CallKnown DEF Moves, Building, Undoing, Undone

LEMMA TornMoves == Basics /\ (UNCHANGED past \/ Torn) => PastMoves
  BY DEF PastMoves, Torn, Basics, TypeOK, Past

LEMMA UndoDirMoves == ASSUME Basics, NEW c \in Callers, UndoDir(c) PROVE Moves(c)
<1>1. CallMoves(c) /\ call'[c].pc = "idle"
  BY ReturnMoves, TornMoves DEF UndoDir, At
<1>2. disk' \in Disk
  BY CallKnown, Constant DEF UndoDir, DirRestored, Call
<1> QED
  BY <1>1, <1>2, RowStill, CallKnown DEF UndoDir, Moves, Building, Undoing

LEMMA ClearDirMoves == ASSUME Basics, NEW c \in Callers, ClearDir(c) PROVE Moves(c)
<1>1. CallMoves(c) /\ call'[c].pc = "idle"
  BY ReturnMoves, TornMoves DEF ClearDir, At, Importing, Committed, Building, Undoing
<1> QED
  BY <1>1, RowStill, CallKnown, Constant DEF ClearDir, Moves, Building, Undoing

LEMMA DieMoves == ASSUME Basics, NEW c \in Callers, Die(c) PROVE Moves(c)
<1>1. PastMoves /\ past'.died
  BY DEF Basics, TypeOK, Past, Die, PastMoves
<1>2. CallMoves(c) /\ call'[c].pc = "idle"
  BY <1>1, ReturnMoves, CallKnown DEF Die
<1> QED
  BY <1>2, RowStill, CallKnown DEF Die, Moves, Building, Undoing

-----------------------------------------------------------------------------
(* An import makes its assets.                                             *)

LEMMA GraphGrows ==
  ASSUME Basics, NEW c \in Callers, call[c].pc \in Building, call'[c].pc \in Building,
         NEW a \in Asset, asset' = [asset EXCEPT ![call[c].new] = a],
         a.has = KindsAt(call'[c].pc), KindsAt(call[c].pc) \subseteq KindsAt(call'[c].pc),
         UNCHANGED <<row, owned, disk, use, made>>
  PROVE  RowMoves(c)
<1>1. /\ call[c].new \in Ids /\ asset \in [Ids -> Asset] /\ Owns
      /\ asset[call[c].new].has = KindsAt(call[c].pc)
  BY CallKnown DEF Importing, Committed, Basics
<1>2. /\ asset' \in [Ids -> Asset] /\ asset'[call[c].new] = a
      /\ \A g \in Ids \ {call[c].new} : asset'[g] = asset[g]
  BY <1>1
<1>3. \A g \in Ids : asset[g].has \subseteq asset'[g].has
  BY <1>1, <1>2
<1>4. call'[c].pc \notin Undoing /\ call'[c].pc # "confirm"
  BY DEF Building, Undoing
<1>5. owned' = {row'} \ {None}
  BY <1>1 DEF Owns
<1> QED
  BY <1>1, <1>2, <1>3, <1>4, <1>5, CallKnown DEF RowMoves

LEMMA CreateRoleMoves == ASSUME Basics, NEW c \in Callers, CreateRole(c) PROVE Moves(c)
<1> DEFINE g == call[c].new
           a == [asset[g] EXCEPT !.has = @ \cup {"role"}, !.role = call[c].text]
<1>1. call[c].pc = "role" /\ call[c].pc \in Building /\ call[c].pc \in Importing
  BY DEF CreateRole, At, Building, Importing, Committed
<1>2. CallMoves(c) /\ call'[c].pc = "orchestration"
  BY <1>1, GoMoves, CallKnown DEF CreateRole, Importing, Committed, Building, Undoing
<1>3. asset[g] \in Asset /\ asset[g].has = {} /\ call[c].text \in Texts
  BY <1>1, CallKnown DEF KindsAt, Call
<1>4. a \in Asset /\ a.has = {"role"}
  BY <1>3 DEF Asset, Kinds
<1>5. asset' = [asset EXCEPT ![g] = a]
  BY <1>1, CallKnown DEF CreateRole
<1> HIDE DEF a
<1> QED
  BY <1>1, <1>2, <1>4, <1>5, GraphGrows DEF CreateRole, Moves, KindsAt, Building

LEMMA CreateOrchestrationMoves ==
  ASSUME Basics, NEW c \in Callers, CreateOrchestration(c) PROVE Moves(c)
<1> DEFINE g == call[c].new
           a == [asset[g] EXCEPT !.has = @ \cup {"orchestration"}, !.told = asset[g].role]
<1>1. call[c].pc = "orchestration" /\ call[c].pc \in Building /\ call[c].pc \in Importing
  BY DEF CreateOrchestration, At, Building, Importing, Committed
<1>2. CallMoves(c) /\ call'[c].pc = "loop"
  BY <1>1, GoMoves, CallKnown DEF CreateOrchestration, Importing, Committed, Building, Undoing
<1>3. asset[g] \in Asset /\ asset[g].has = {"role"}
  BY <1>1, CallKnown DEF KindsAt
<1>4. a \in Asset /\ a.has = {"role", "orchestration"}
  BY <1>3 DEF Asset, Kinds
<1>5. asset' = [asset EXCEPT ![g] = a]
  BY <1>1, CallKnown DEF CreateOrchestration
<1> HIDE DEF a
<1> QED
  BY <1>1, <1>2, <1>4, <1>5, GraphGrows DEF CreateOrchestration, Moves, KindsAt, Building

LEMMA CreateLoopMoves == ASSUME Basics, NEW c \in Callers, CreateLoop(c) PROVE Moves(c)
<1> DEFINE g == call[c].new
           a == [asset[g] EXCEPT !.has = @ \cup {"loop"}, !.spec = disk.spec,
                                 !.snap = asset[g].told]
<1>1. call[c].pc = "loop" /\ call[c].pc \in Building /\ call[c].pc \in Importing
  BY DEF CreateLoop, At, Building, Importing, Committed
<1>2. CallMoves(c) /\ call'[c].pc = "yaml"
  BY <1>1, GoMoves, CallKnown DEF CreateLoop, Importing, Committed, Building, Undoing
<1>3. asset[g] \in Asset /\ asset[g].has = {"role", "orchestration"} /\ disk.spec \in Texts
  BY <1>1, CallKnown DEF KindsAt, Disk
<1>4. a \in Asset /\ a.has = Kinds
  BY <1>3 DEF Asset, Kinds
<1>5. asset' = [asset EXCEPT ![g] = a]
  BY <1>1, CallKnown DEF CreateLoop
<1> HIDE DEF a
<1> QED
  BY <1>1, <1>2, <1>4, <1>5, GraphGrows DEF CreateLoop, Moves, KindsAt, Building, Kinds

-----------------------------------------------------------------------------
(* Assets are deleted.                                                     *)

LEMMA UndoMoves ==
  ASSUME Basics, NEW c \in Callers, NEW pc, NEW kind, NEW next, Undo(c, pc, kind, next),
         pc \in Undoing, next \in Undoing, Undone(next) = Undone(pc) \ {kind}
  PROVE  Moves(c)
<1>0. CASE past' = [past EXCEPT !.kept = TRUE] /\ UNCHANGED <<asset, use>>
  <2>1. /\ call[c].pc = pc /\ call[c].pc \in Importing /\ next \in Importing /\ next # "confirm"
        /\ next \notin Building /\ next # "restore" /\ Go(c, next)
        /\ UNCHANGED <<row, owned, disk, made>>
    BY DEF Undo, At, Importing, Committed, Undoing, Building
  <2>2. PastMoves /\ past'.kept
    BY <1>0 DEF PastMoves, Basics, TypeOK, Past
  <2>3. CallMoves(c) /\ call'[c].pc = next
    BY <2>1, <2>2, GoMoves
  <2> QED
    BY <1>0, <2>1, <2>2, <2>3, RowStill, CallKnown DEF Moves
<1> SUFFICES ASSUME ~(past' = [past EXCEPT !.kept = TRUE] /\ UNCHANGED <<asset, use>>)
             PROVE  Moves(c)
  BY <1>0
<1> DEFINE g == call[c].new
           a == IF asset[g].has \subseteq {kind} THEN Gone ELSE [asset[g] EXCEPT !.has = @ \ {kind}]
<1>1. call[c].pc = pc /\ call[c].pc \in Importing /\ next \in Importing
      /\ pc \notin Building /\ next \notin Building /\ pc \notin {"commit", "erase"}
      /\ next # "confirm" /\ next # "restore" /\ UNCHANGED past
  BY DEF Undo, At, Importing, Committed, Undoing, Building
<1>2. CallMoves(c) /\ call'[c].pc = next
  BY <1>1, GoMoves, CallKnown DEF Undo
<1>3. g \in Ids /\ asset[g] \in Asset
  BY <1>1, CallKnown
<1>4. a \in Asset /\ a.has = asset[g].has \ {kind}
  BY <1>3, Constant DEF Asset
<1>5. /\ asset' = [asset EXCEPT ![g] = a] /\ UNCHANGED <<row, owned, disk, made, past>>
      /\ use' = [u \in Users |-> IF use[u] # NoUse /\ Needs(u) \notin asset'[use[u].of].has
                               THEN NoUse ELSE use[u]]
  BY DEF Undo, Become
<1> HIDE DEF a
<1>6. Become(asset')
  BY <1>5 DEF Become
<1>7. /\ asset' \in [Ids -> Asset] /\ asset'[g] = a
      /\ \A h \in Ids \ {g} : asset'[h] = asset[h]
  BY <1>3, <1>4, <1>5, CallKnown
<1>8. use' \in [Users -> Use]
  BY <1>6, <1>7, BecomeTypes, BasicsType
<1>9. owned' = {row'} \ {None}
  BY <1>5 DEF Basics, Owns
<1>10. \A h \in Ids :
         asset'[h].has = asset[h].has \/ (h = g /\ asset'[h].has \subseteq asset[h].has)
  BY <1>4, <1>7
<1>11. asset[g].has \subseteq Undone(pc) => asset'[g].has \subseteq Undone(next)
  BY <1>4, <1>7
<1>12. RowMoves(c)
  BY <1>1, <1>2, <1>5, <1>6, <1>7, <1>8, <1>9, <1>10, <1>11, CallKnown DEF RowMoves
<1> QED
  BY <1>2, <1>12 DEF Moves

LEMMA UndosMove ==
  ASSUME Basics, NEW c \in Callers, UndoLoop(c) \/ UndoOrchestration(c) \/ UndoRole(c)
  PROVE  Moves(c)
<1>1. /\ Undone("undo_orchestration") = Undone("undo_loop") \ {"loop"}
      /\ Undone("undo_role") = Undone("undo_orchestration") \ {"orchestration"}
      /\ Undone("undo_dir") = Undone("undo_role") \ {"role"}
  BY DEF Undone, Kinds
<1>2. {"undo_loop", "undo_orchestration", "undo_role", "undo_dir"} \subseteq Undoing
  BY DEF Undoing
<1>3. CASE UndoLoop(c)
  BY <1>1, <1>2, <1>3, UndoMoves DEF UndoLoop
<1>4. CASE UndoOrchestration(c)
  BY <1>1, <1>2, <1>4, UndoMoves DEF UndoOrchestration
<1>5. CASE UndoRole(c)
  BY <1>1, <1>2, <1>5, UndoMoves DEF UndoRole
<1> QED
  BY <1>3, <1>4, <1>5

\* What the bundle owns goes: the graph its row names.
LEMMA EraseErases ==
  ASSUME Basics, Erase(owned)
  PROVE  /\ asset' \in [Ids -> Asset] /\ use' \in [Users -> Use] /\ Become(asset')
         /\ row # None => asset'[row] = Gone
         /\ \A g \in Ids : g # row => asset'[g] = asset[g]
<1>1. TypeOK /\ owned = {row} \ {None}
  BY DEF Basics, Owns
<1>2. asset' = [g \in Ids |-> IF g \in owned THEN Gone ELSE asset[g]] /\ Become(asset')
  BY DEF Erase, Become
<1>3. row # None => row \in Ids
  BY <1>1 DEF TypeOK, Texts
<1> QED
  BY <1>1, <1>2, <1>3, EraseTypes

LEMMA CommitImportMoves == ASSUME Basics, NEW c \in Callers, CommitImport(c) PROVE Moves(c)
<1>1. /\ call[c].pc = "commit" /\ call[c].pc \in Importing /\ call[c].pc \in Building
      /\ Erase(owned) /\ row' = call[c].new /\ owned' = {call[c].new} /\ Go(c, "confirm")
      /\ UNCHANGED <<disk, made, past>>
  BY DEF CommitImport, At, Importing, Committed, Building, Replaced, OwnedAfter
<1>2. CallMoves(c) /\ call'[c].pc = "confirm"
  BY <1>1, GoMoves, CallKnown DEF Importing, Committed, Building, Undoing
<1>3. call[c].new \in Ids /\ call[c].new \in Texts /\ call[c].new # None
  BY <1>1, CallKnown, Constant
<1>4. call[c].new # row
  BY <1>1 DEF Basics, OwnGraphs
<1> QED
  BY <1>1, <1>2, <1>3, <1>4, EraseErases, CallKnown, Constant
     DEF Moves, RowMoves, Building, Undoing

LEMMA EraseGraphMoves == ASSUME Basics, NEW c \in Callers, EraseGraph(c) PROVE Moves(c)
<1>1. call[c].pc = "erase" /\ call[c].pc \in Deleting /\ UNCHANGED <<disk, made, past>>
  BY DEF EraseGraph, At, Deleting
<1>2. CASE row = None
  <2>1. Return(c) /\ UNCHANGED <<row, owned, asset, use>>
    BY <1>2 DEF EraseGraph
  <2>2. CallMoves(c) /\ call'[c].pc = "idle"
    BY <1>1, <2>1, ReturnMoves, CallKnown DEF Importing, Committed, Building, Undoing
  <2> QED
    BY <1>1, <2>1, <2>2, RowStill, CallKnown DEF Moves, Building, Undoing
<1>3. CASE row # None
  <2>1. Erase(owned) /\ row' = None /\ owned' = {} /\ Go(c, "clear")
    BY <1>3 DEF EraseGraph
  <2>2. CallMoves(c) /\ call'[c].pc = "clear"
    BY <1>1, <2>1, GoMoves, CallKnown DEF Deleting
  <2> QED
    BY <1>1, <1>3, <2>1, <2>2, EraseErases, CallKnown, Constant
       DEF Moves, RowMoves, Building, Undoing
<1> QED
  BY <1>2, <1>3

-----------------------------------------------------------------------------
(* Delete and the edits.                                                   *)

\* A snapshot of the row's loop is a call in its right place.
LEMMA SnapshotFits ==
  ASSUME Basics, row # None, NEW new \in Call, NEW text \in Texts,
         new.op \in {"update", "role"}, new.undoing => new.op = "role"
  PROVE  /\ Snapshot(new, text) \in Call /\ CallFits(Snapshot(new, text))
         /\ LET s == Snapshot(new, text)
            IN  /\ s.op = new.op /\ s.pc = "refresh" /\ s.old = row /\ s.new = new.new
                /\ s.text = text /\ s.role = asset[row].role /\ s.prior = new.prior
                /\ s.undoing = new.undoing /\ s.stale = (asset[row].role # asset[row].told)
<1>1. row \in Ids /\ row \in Texts /\ asset[row] \in Asset
  BY DEF Basics, TypeOK, Texts
<1>2. asset[row].role \in Texts
  BY <1>1 DEF Asset
<1> DEFINE b == asset[row].role # asset[row].told
<1>3. b \in BOOLEAN
  OBVIOUS
<1>4. Snapshot(new, text) = [new EXCEPT !.pc = "refresh", !.old = row, !.text = text,
                                        !.role = asset[row].role, !.stale = b]
  BY DEF Snapshot
<1> HIDE DEF b
<1> DEFINE s == Snapshot(new, text)
<1>5. /\ s \in Call /\ s.op = new.op /\ s.pc = "refresh" /\ s.old = row /\ s.new = new.new
      /\ s.text = text /\ s.role = asset[row].role /\ s.prior = new.prior
      /\ s.undoing = new.undoing /\ s.stale = b
  <2> DEFINE r == asset[row].role
             n == [new EXCEPT !.pc = "refresh", !.old = row, !.text = text, !.role = r, !.stale = b]
  <2>1. s = n /\ r \in Texts
    BY <1>2, <1>4
  <2> HIDE DEF s, r
  <2>2. n \in Call
    BY <1>1, <1>3, <2>1 DEF Call
  <2>3. /\ n.op = new.op /\ n.pc = "refresh" /\ n.old = row /\ n.new = new.new
        /\ n.text = text /\ n.role = r /\ n.prior = new.prior
        /\ n.undoing = new.undoing /\ n.stale = b
    BY DEF Call
  <2> HIDE DEF n
  <2> QED
    BY <2>1, <2>2, <2>3 DEF r
<1> HIDE DEF s
<1>6. CallFits(s)
  BY <1>1, <1>5 DEF CallFits, Importing, Committed, Building, Undoing, Deleting, Editing, Reading,
     OfRoles
<1> QED
  BY <1>5, <1>6 DEF s, b

\* An operation other than an import begins.
LEMMA BeginMoves ==
  ASSUME Basics, NEW c \in Callers, NEW new \in Call, Begin(c, new), CallFits(new),
         new.pc \in Deleting \cup Editing,
         new.pc \in Deleting => \A u \in Users : use[u].of # row,
         new.pc \in Editing => new.old = row,
         new.old \in {row, None}, new.new = None
  PROVE  CallMoves(c) /\ call'[c] = new /\ call[c].pc = "idle"
<1>1. TypeOK /\ (past.crossed => past.overlap)
  BY DEF Basics
<1>2. /\ call' \in [Callers -> Call] /\ call'[c] = new
      /\ \A d \in Callers \ {c} : call'[d] = call[d]
      /\ past' \in Past
      /\ call[c].pc = "idle"
      /\ past'.died = past.died /\ past'.kept = past.kept
      /\ past'.undone = past.undone /\ past'.torn = past.torn
      /\ past'.overlap = (past.overlap \/ \E d \in Callers : Busy(d))
      /\ past'.crossed =
           (past.crossed \/ \E d \in Callers : Busy(d) /\ Edits(call[d].op) # Edits(new.op))
  BY <1>1, BeginTypes
<1>3. PastMoves
  BY <1>1, <1>2 DEF PastMoves, TypeOK, Past
<1>4. past'.crossed \/ \A d \in Callers : Busy(d) => Edits(call[d].op) = Edits(new.op)
  BY <1>2
<1> QED
  BY <1>2, <1>3, <1>4, Constant
     DEF CallMoves, Importing, Committed, Building, Undoing, Deleting, Editing, Reading, OfRoles

LEMMA DeleteMoves == ASSUME Basics, NEW c \in Callers, Delete(c) PROVE Moves(c)
<1> DEFINE new == [IdleCall EXCEPT !.op = "delete", !.pc = "erase", !.old = row]
<1>1. Begin(c, new) /\ \A u \in Users : use[u].of # row
  BY DEF Delete, Deletable
<1>2. /\ new \in Call /\ new.op = "delete" /\ new.pc = "erase"
      /\ new.old = row /\ new.new = None /\ ~new.undoing
  BY CallKnown, Constant DEF IdleCall, Call
<1> HIDE DEF new
<1>3. CallFits(new)
  BY <1>2 DEF CallFits, Importing, Committed, Building, Undoing, Deleting, Editing, Reading, OfRoles
<1>4. CallMoves(c) /\ call'[c].pc = "erase"
  BY <1>1, <1>2, <1>3, BeginMoves DEF Deleting, Editing, Reading, OfRoles
<1> QED
  BY <1>4, RowStill, CallKnown DEF Delete, Moves, Building, Undoing

LEMMA UpdateMoves == ASSUME Basics, NEW c \in Callers, Update(c) PROVE Moves(c)
<1> DEFINE idle == [IdleCall EXCEPT !.op = "update"]
<1>1. PICK text \in {disk.spec, Fresh} \ {None} :
        /\ text \in Ids /\ Begin(c, Snapshot(idle, text))
        /\ made' = IF text = Fresh THEN Fresh ELSE made
  BY DEF Update
<1>2. idle \in Call /\ idle.op = "update" /\ idle.new = None /\ ~idle.undoing
  BY Constant DEF IdleCall, Call
<1> HIDE DEF idle
<1>3. row # None /\ UNCHANGED <<row, owned, asset, disk, use>>
  BY DEF Update, Readable
<1> DEFINE new == Snapshot(idle, text)
<1>4. /\ new \in Call /\ CallFits(new) /\ new.pc = "refresh" /\ new.old = row /\ new.new = None
  BY <1>1, <1>2, <1>3, SnapshotFits, Constant
<1> HIDE DEF new
<1>5. CallMoves(c) /\ call'[c].pc = "refresh"
  BY <1>1, <1>4, BeginMoves DEF Deleting, Editing, Reading, new
<1>6. made' \in Texts /\ made <= made'
  BY <1>1, CallKnown, Constant DEF Fresh, Texts
<1> QED
  BY <1>3, <1>5, <1>6, RowStill, CallKnown DEF Moves, Building, Undoing

LEMMA UpdateRoleMoves == ASSUME Basics, NEW c \in Callers, UpdateRole(c) PROVE Moves(c)
<1> DEFINE new == [IdleCall EXCEPT !.op = "role", !.pc = "set", !.old = row, !.text = Fresh,
                                   !.prior = asset[row].role]
<1>1. /\ Begin(c, new) /\ made' = Fresh /\ row # None /\ made < MaxIds
      /\ UNCHANGED <<row, owned, asset, disk, use>>
  BY DEF UpdateRole
<1>2. made' \in Texts /\ made <= made' /\ Fresh \in Texts
  BY <1>1, CallKnown, BundleAssumption DEF Fresh, Texts, Ids, None
<1>3. row \in Ids /\ asset[row].role \in Texts
  BY <1>1, CallKnown DEF Texts, Asset
<1>4. /\ new \in Call /\ new.op = "role" /\ new.pc = "set"
      /\ new.old = row /\ new.new = None /\ ~new.undoing
  BY <1>2, <1>3, Constant DEF IdleCall, Call
<1> HIDE DEF new
<1>5. CallFits(new)
  BY <1>3, <1>4 DEF CallFits, Importing, Committed, Building, Undoing, Deleting, Editing, Reading,
     OfRoles
<1>6. CallMoves(c) /\ call'[c].pc = "set"
  BY <1>1, <1>4, <1>5, BeginMoves DEF Deleting, Editing, Reading, OfRoles
<1> QED
  BY <1>1, <1>2, <1>6, RowStill, CallKnown DEF Moves, Building, Undoing

\* A step of an edit that stays an edit or returns, and makes or deletes no asset.
LEMMA EditMoves ==
  ASSUME Basics, NEW c \in Callers, CallMoves(c), call[c].pc \in Editing,
         UNCHANGED <<row, owned, use, made>>, disk' \in Disk, asset' \in [Ids -> Asset],
         \A g \in Ids : asset'[g].has = asset[g].has
  PROVE  Moves(c)
<1>1. call'[c].pc \notin Importing
  BY DEF CallMoves, Importing, Committed, Building, Undoing, Editing, Reading, OfRoles
<1> QED
  BY <1>1, RowStill, CallKnown DEF Moves, Importing, Committed

\* What an edit writes of an asset leaves the assets that are there.
LEMMA AssetWritten ==
  ASSUME Basics, NEW g \in Ids, NEW a, asset' = [asset EXCEPT ![g] = a],
         a \in Asset, a.has = asset[g].has
  PROVE  /\ asset' \in [Ids -> Asset] /\ \A h \in Ids : asset'[h].has = asset[h].has
         /\ asset'[g] = a /\ \A h \in Ids \ {g} : asset'[h] = asset[h]
  BY DEF Basics, TypeOK

\* An edit that returns, or goes on at another place of its own.
LEMMA EditGoes ==
  ASSUME Basics, NEW c \in Callers, call[c].pc \in Editing, UNCHANGED past,
         \/ Return(c)
         \/ \E pc \in Editing : Go(c, pc) /\ (pc \in OfRoles =>
              call[c].op = "role" /\ ~call[c].undoing)
  PROVE  CallMoves(c)
<1>1. call[c].pc \notin Importing
  BY DEF Importing, Committed, Building, Undoing, Editing, Reading, OfRoles
<1>2. PastMoves
  BY CallKnown
<1> QED
  BY <1>1, <1>2, GoMoves, ReturnMoves

LEMMA RaiseGoes ==
  ASSUME NEW c \in Callers, Raise(c)
  PROVE  Return(c) \/ (Go(c, "revert") /\ call[c].op = "role" /\ ~call[c].undoing)
  BY DEF Raise, AfterError

\* An edit's snapshot is taken anew.
LEMMA SnapshotMoves ==
  ASSUME Basics, NEW c \in Callers, call[c].pc \in Editing, row # None, UNCHANGED past,
         NEW new \in Call, NEW text \in Texts, call' = [call EXCEPT ![c] = Snapshot(new, text)],
         new.op = call[c].op, new.new = call[c].new, new.undoing => new.op = "role"
  PROVE  CallMoves(c) /\ call'[c] = Snapshot(new, text)
<1>1. new.op \in {"update", "role"} /\ call[c].pc \notin Importing /\ call[c].pc # "idle"
  BY CallKnown DEF CallFits, Importing, Committed, Building, Undoing, Editing, Reading, OfRoles
<1> DEFINE s == Snapshot(new, text)
<1>2. /\ s \in Call /\ CallFits(s) /\ s.pc = "refresh"
      /\ s.old = row /\ s.op = new.op /\ s.new = new.new
  BY <1>1, SnapshotFits
<1> HIDE DEF s
<1>3. /\ call' \in [Callers -> Call] /\ call'[c] = s
      /\ \A d \in Callers \ {c} : call'[d] = call[d]
  BY <1>2, BasicsType DEF TypeOK, s
<1>4. PastMoves
  BY CallKnown
<1>5. CallMoves(c)
  BY <1>1, <1>2, <1>3, <1>4
     DEF CallMoves, Importing, Committed, Building, Undoing, Deleting, Editing, Reading, OfRoles
<1> QED
  BY <1>3, <1>5 DEF s

LEMMA SetRoleMoves == ASSUME Basics, NEW c \in Callers, SetRole(c) PROVE Moves(c)
<1> DEFINE g == call[c].old
           a == [asset[g] EXCEPT !.role = call[c].text]
<1>1. /\ call[c].pc = "set" /\ call[c].pc \in Editing /\ call[c].pc \in OfRoles
      /\ UNCHANGED <<row, owned, disk, use, made, past>>
  BY DEF SetRole, At, Editing, OfRoles
<1>2. /\ g \in Ids /\ asset[g] \in Asset /\ call[c].text \in Texts
      /\ call[c].op = "role" /\ ~call[c].undoing
  BY <1>1, CallKnown DEF CallFits, Call
<1>3. CASE "role" \in asset[g].has
  <2>1. asset' = [asset EXCEPT ![g] = a] /\ Go(c, "touch")
    BY <1>2, <1>3, CallKnown DEF SetRole
  <2>2. a \in Asset /\ a.has = asset[g].has
    BY <1>2 DEF Asset
  <2> HIDE DEF a
  <2>3. CallMoves(c)
    BY <1>1, <1>2, <2>1, EditGoes DEF Editing, OfRoles
  <2> QED
    BY <1>1, <1>2, <2>1, <2>2, <2>3, AssetWritten, EditMoves, CallKnown
<1>4. CASE "role" \notin asset[g].has
  <2>1. Return(c) /\ UNCHANGED asset
    BY <1>4 DEF SetRole
  <2> QED
    BY <1>1, <2>1, EditGoes, EditMoves, CallKnown
<1> QED
  BY <1>3, <1>4

LEMMA TouchMoves == ASSUME Basics, NEW c \in Callers, Touch(c) PROVE Moves(c)
<1>1. /\ call[c].pc = "touch" /\ call[c].pc \in Editing
      /\ UNCHANGED <<row, owned, asset, disk, use, made, past>>
  BY DEF Touch, At, Editing, OfRoles
<1>2. CallMoves(c)
  <2>1. CASE row # call[c].old /\ Return(c)
    BY <1>1, <2>1, EditGoes
  <2>2. CASE Readable /\ call' = [call EXCEPT ![c] = Snapshot(@, disk.spec)]
    <3>1. call' = [call EXCEPT ![c] = Snapshot(call[c], disk.spec)] /\ row # None
      BY <2>2, CallKnown DEF Readable
    <3>2. disk.spec \in Texts
      BY CallKnown DEF Disk
    <3>3. call[c] \in Call /\ (call[c].undoing => call[c].op = "role")
      BY CallKnown DEF CallFits
    <3> QED
      BY <1>1, <3>1, <3>2, <3>3, SnapshotMoves
  <2>3. CASE Raise(c)
    BY <1>1, <2>3, RaiseGoes, EditGoes DEF Editing, OfRoles
  <2> QED
    BY <2>1, <2>2, <2>3 DEF Touch
<1> QED
  BY <1>1, <1>2, EditMoves, CallKnown

LEMMA RefreshOrchestrationMoves ==
  ASSUME Basics, NEW c \in Callers, RefreshOrchestration(c) PROVE Moves(c)
<1> DEFINE g == call[c].old
           a == [asset[g] EXCEPT !.told = call[c].role]
<1>1. /\ call[c].pc = "refresh" /\ call[c].pc \in Editing
      /\ UNCHANGED <<row, owned, disk, use, made, past>>
  BY DEF RefreshOrchestration, At, Editing, Reading
<1>2. g \in Ids /\ asset[g] \in Asset /\ call[c].role \in Texts
  BY <1>1, CallKnown DEF Call
<1>3. a \in Asset /\ a.has = asset[g].has
  BY <1>2 DEF Asset
<1>4. /\ asset' = [asset EXCEPT ![g] = a] \/ UNCHANGED asset
      /\ Go(c, "files") \/ Raise(c)
  BY DEF RefreshOrchestration
<1> HIDE DEF a
<1>5. CallMoves(c)
  BY <1>1, <1>4, RaiseGoes, EditGoes DEF Editing, Reading, OfRoles
<1>6. asset' \in [Ids -> Asset] /\ \A h \in Ids : asset'[h].has = asset[h].has
  BY <1>2, <1>3, <1>4, AssetWritten, CallKnown
<1> QED
  BY <1>1, <1>5, <1>6, EditMoves, CallKnown

LEMMA WriteFilesMoves == ASSUME Basics, NEW c \in Callers, WriteFiles(c) PROVE Moves(c)
<1>1. call[c].pc = "files" /\ call[c].pc \in Editing
  BY DEF WriteFiles, At, Editing, Reading
<1>2. CallMoves(c)
  BY <1>1, EditGoes DEF WriteFiles, Editing, Reading, OfRoles
<1>3. disk' \in Disk
  BY CallKnown DEF WriteFiles, Disk, Call
<1> QED
  BY <1>1, <1>2, <1>3, EditMoves, CallKnown DEF WriteFiles

LEMMA UpdateContractMoves == ASSUME Basics, NEW c \in Callers, UpdateContract(c) PROVE Moves(c)
<1> DEFINE g == call[c].old
           a == [asset[g] EXCEPT !.spec = call[c].text, !.snap = call[c].role]
           new == [call[c] EXCEPT !.pc = "save", !.text = None, !.role = None, !.stale = FALSE]
<1>1. /\ call[c].pc = "contract" /\ call[c].pc \in Editing
      /\ UNCHANGED <<row, owned, disk, use, made, past>>
  BY DEF UpdateContract, At, Editing, Reading
<1>2. g \in Ids /\ asset[g] \in Asset /\ call[c].role \in Texts /\ call[c].text \in Texts
  BY <1>1, CallKnown DEF Call
<1>3. a \in Asset /\ a.has = asset[g].has
  BY <1>2 DEF Asset
<1>4. /\ asset' = [asset EXCEPT ![g] = a] \/ UNCHANGED asset
      /\ \/ Return(c) \/ Raise(c)
         \/ call' = [call EXCEPT ![c] = new]
  BY <1>2, CallKnown DEF UpdateContract
<1>5. /\ new \in Call /\ new.pc = "save" /\ new.old = call[c].old /\ new.new = call[c].new
      /\ new.op = call[c].op /\ new.undoing = call[c].undoing
  BY <1>2, CallKnown, Constant DEF Call
<1> HIDE DEF a, new
<1>6. ASSUME call' = [call EXCEPT ![c] = new]
      PROVE  CallMoves(c)
  <2>1. /\ call' \in [Callers -> Call] /\ call'[c] = new
        /\ \A d \in Callers \ {c} : call'[d] = call[d]
    BY <1>5, <1>6, BasicsType DEF TypeOK
  <2>2. CallFits(new)
    BY <1>1, <1>2, <1>5, CallKnown
       DEF CallFits, Importing, Committed, Building, Undoing, Deleting, Editing, Reading, OfRoles
  <2>3. PastMoves
    BY <1>1, CallKnown
  <2>4. /\ new.pc \notin Importing \cup Deleting /\ new.pc \in Editing
        /\ call[c].pc \notin Importing /\ call[c].pc # "idle"
    BY <1>1, <1>5 DEF Importing, Committed, Building, Undoing, Deleting, Editing, Reading
  <2> QED
    BY <1>1, <1>5, <2>1, <2>2, <2>3, <2>4 DEF CallMoves, Importing, Committed
<1>7. CallMoves(c)
  <2>1. Return(c) \/ Raise(c) => CallMoves(c)
    BY <1>1, RaiseGoes, EditGoes DEF Editing, OfRoles
  <2> QED
    BY <1>4, <1>6, <2>1
<1>8. asset' \in [Ids -> Asset] /\ \A h \in Ids : asset'[h].has = asset[h].has
  BY <1>2, <1>3, <1>4, AssetWritten, CallKnown
<1> QED
  BY <1>1, <1>7, <1>8, EditMoves, CallKnown

LEMMA SaveRowMoves == ASSUME Basics, NEW c \in Callers, SaveRow(c) PROVE Moves(c)
<1>1. call[c].pc = "save" /\ call[c].pc \in Editing /\ UNCHANGED <<asset, disk, use, made, past>>
  BY DEF SaveRow, At, Editing, Reading
<1>2. CASE row = None
  <2>1. Raise(c) /\ UNCHANGED <<row, owned>>
    BY <1>2 DEF SaveRow
  <2>2. CallMoves(c)
    BY <1>1, <2>1, RaiseGoes, EditGoes DEF Editing, OfRoles
  <2> QED
    BY <1>1, <2>1, <2>2, EditMoves, CallKnown
<1>3. CASE row # None
  <2>1. row' = call[c].old /\ owned' = {call[c].old} /\ Go(c, "sync")
    BY <1>3 DEF SaveRow
  <2>2. CallMoves(c) /\ call'[c].pc = "sync"
    BY <1>1, <2>1, GoMoves, CallKnown DEF Editing, Reading, OfRoles
  <2>3. call[c].old \in Ids /\ call[c].old # None /\ call[c].old \in Texts
    BY <1>1, CallKnown, Constant
  <2>4. RowMoves(c)
    BY <1>1, <2>1, <2>2, <2>3, CallKnown DEF RowMoves, Building, Undoing
  <2> QED
    BY <2>2, <2>4 DEF Moves
<1> QED
  BY <1>2, <1>3

LEMMA SyncYamlMoves == ASSUME Basics, NEW c \in Callers, SyncYaml(c) PROVE Moves(c)
<1>1. /\ call[c].pc = "sync" /\ call[c].pc \in Editing
      /\ UNCHANGED <<row, owned, asset, use, made, past>>
  BY DEF SyncYaml, At, Editing, Reading
<1>2. Return(c) \/ Raise(c)
  BY DEF SyncYaml
<1>3. CallMoves(c)
  BY <1>1, <1>2, RaiseGoes, EditGoes DEF Editing, OfRoles
<1>4. disk' \in Disk
  <2>1. LoopNamed => row \in Ids
    BY CallKnown DEF LoopNamed, Texts
  <2>2. LoopNamed => ExportOf(row) \in Export
    BY <2>1, ExportIsExport, BasicsType
  <2> QED
    BY <2>2, CallKnown DEF SyncYaml, Disk
<1> QED
  BY <1>1, <1>3, <1>4, EditMoves, CallKnown

LEMMA RevertMoves == ASSUME Basics, NEW c \in Callers, Revert(c) PROVE Moves(c)
<1> DEFINE g == call[c].old
           a == IF "role" \in asset[g].has THEN [asset[g] EXCEPT !.role = call[c].prior]
                ELSE asset[g]
<1>1. /\ call[c].pc = "revert" /\ call[c].pc \in Editing /\ call[c].pc \in OfRoles
      /\ UNCHANGED <<row, owned, disk, use, made, past>> /\ Go(c, "resync")
  BY DEF Revert, At, Editing, OfRoles
<1>2. /\ g \in Ids /\ asset[g] \in Asset /\ call[c].prior \in Texts
      /\ call[c].op = "role" /\ ~call[c].undoing
  BY <1>1, CallKnown DEF CallFits, Call
<1>3. a \in Asset /\ a.has = asset[g].has
  BY <1>2 DEF Asset
<1>4. asset' = [asset EXCEPT ![g] = a]
  BY <1>2, CallKnown DEF Revert
<1> HIDE DEF a
<1>5. CallMoves(c)
  BY <1>1, <1>2, EditGoes DEF Editing, OfRoles
<1> QED
  BY <1>1, <1>2, <1>3, <1>4, <1>5, AssetWritten, EditMoves, CallKnown

LEMMA ResyncMoves == ASSUME Basics, NEW c \in Callers, Resync(c) PROVE Moves(c)
<1>1. /\ call[c].pc = "resync" /\ call[c].pc \in Editing /\ call[c].pc \in OfRoles
      /\ UNCHANGED <<row, owned, asset, disk, use, made, past>>
  BY DEF Resync, At, Editing, OfRoles
<1>2. CASE Return(c)
  BY <1>1, <1>2, EditGoes, EditMoves, CallKnown
<1>3. CASE Readable /\ call' = [call EXCEPT ![c] = Snapshot([@ EXCEPT !.undoing = TRUE], disk.spec)]
  <2> DEFINE me == [call[c] EXCEPT !.undoing = TRUE]
  <2>1. call' = [call EXCEPT ![c] = Snapshot(me, disk.spec)] /\ row # None
    BY <1>3 DEF Readable
  <2>2. disk.spec \in Texts
    BY CallKnown DEF Disk
  <2>3. me \in Call /\ me.op = call[c].op /\ me.new = call[c].new /\ me.op = "role"
    BY <1>1, CallKnown DEF CallFits, Call
  <2> HIDE DEF me
  <2>4. CallMoves(c)
    BY <1>1, <2>1, <2>2, <2>3, SnapshotMoves
  <2> QED
    BY <1>1, <2>4, EditMoves, CallKnown
<1> QED
  BY <1>2, <1>3 DEF Resync

\* Each step of a caller but the beginning of an import.
LEMMA CallersMove ==
  ASSUME Basics, NEW c \in Callers, ~Import(c),
         ImportStep(c) \/ RollbackStep(c) \/ DeleteStep(c) \/ EditStep(c) \/ Die(c)
  PROVE  Moves(c)
<1>1. CASE ImportStep(c)
  BY <1>1, WriteSpecMoves, CreateRoleMoves, CreateOrchestrationMoves, CreateLoopMoves,
     WriteYamlMoves, CommitImportMoves, ConfirmImportMoves, FailImportMoves,
     FailAfterCommitMoves DEF ImportStep
<1>2. CASE RollbackStep(c)
  BY <1>2, RestoreRowMoves, LookForRunsMoves, UndosMove, UndoDirMoves DEF RollbackStep
<1>3. CASE DeleteStep(c)
  BY <1>3, DeleteMoves, EraseGraphMoves, ClearDirMoves DEF DeleteStep
<1>4. CASE EditStep(c)
  BY <1>4, UpdateMoves, UpdateRoleMoves, SetRoleMoves, TouchMoves, RefreshOrchestrationMoves,
     WriteFilesMoves, UpdateContractMoves, SaveRowMoves, SyncYamlMoves, RevertMoves, ResyncMoves
     DEF EditStep
<1> QED
  BY <1>1, <1>2, <1>3, <1>4, DieMoves

-----------------------------------------------------------------------------
(* What holds whatever crosses, kept.                                      *)

\* A move of one call leaves the others and the graphs they make.
LEMMA OthersStay ==
  ASSUME Basics, NEW c \in Callers, Moves(c)
  PROVE  /\ \A d \in Callers \ {c} : call'[d] = call[d]
         /\ \A d \in Callers \ {c} : call[c].pc \in Importing /\ call[d].pc \in Importing
              => call[d].new # call[c].new
         /\ \A d \in Callers \ {c} : call[d].pc \in Importing =>
              \/ asset'[call[d].new].has = asset[call[d].new].has
              \/ /\ call[d].new = row /\ row' # row /\ call[c].pc \in {"commit", "erase"}
                 /\ asset'[call[d].new].has = {}
         /\ call'[c].pc \in Importing => call[c].pc \in Importing /\ call'[c].new = call[c].new
<1>1. \A d \in Callers : CallFits(call[d]) /\ (call[d].pc \in Importing => call[d].new \in Ids)
  BY DEF Basics, CallFits
<1>2. \A d \in Callers \ {c} : call[c].pc \in Importing /\ call[d].pc \in Importing
        => call[d].new # call[c].new
  BY DEF Basics, OwnGraphs
<1>3. \A d \in Callers \ {c} : call[d].pc \in Importing =>
        \/ asset'[call[d].new].has = asset[call[d].new].has
        \/ /\ call[d].new = row /\ row' # row /\ call[c].pc \in {"commit", "erase"}
           /\ asset'[call[d].new].has = {}
  BY <1>1, <1>2 DEF Moves, RowMoves, Importing, Committed
<1> QED
  BY <1>2, <1>3 DEF Moves, CallMoves

LEMMA BasicsFollow ==
  ASSUME Basics, NEW c \in Callers, Moves(c)
  PROVE  Basics'
<1>1. /\ TypeOK /\ OwnGraphs /\ Given /\ NoDangling /\ PastMoves
      /\ \A d \in Callers : CallFits(call[d])
  BY DEF Basics, Moves, CallMoves
<1>2. TypeOK'
  BY <1>1 DEF TypeOK, Moves, CallMoves, RowMoves, PastMoves, Texts
<1>3. \A d \in Callers : CallFits(call'[d])
  BY <1>1, OthersStay DEF Moves, CallMoves
<1>4. Owns'
  BY DEF Moves, RowMoves, Owns
<1>5. call'[c].old \in {call[c].old, row, None} /\ call'[c].new \in {call[c].new, None}
  BY DEF Moves, CallMoves
<1>6. \/ row' = row
      \/ row' = call[c].new /\ call[c].pc = "commit" /\ call'[c].pc = "confirm"
      \/ row' = None
      \/ row' = call[c].old /\ call[c].pc \in {"save", "restore"}
  BY DEF Moves, RowMoves
<1>7. Given'
  <2>1. made \in Nat /\ made' \in Nat /\ made <= made' /\ 0 <= made /\ row \in Nat
    BY <1>1, <1>2, Constant DEF TypeOK, Moves, RowMoves
  <2>2. row' <= made'
    <3>1. row <= made /\ call[c].old <= made /\ call[c].new <= made
      BY <1>1 DEF Given
    <3>2. call[c] \in Call
      BY <1>1 DEF TypeOK
    <3>3. call[c].old \in Nat /\ call[c].new \in Nat
      BY <3>2, Constant DEF Call
    <3> QED
      BY <1>6, <2>1, <3>1, <3>3 DEF None
  <2>3. ASSUME NEW g \in Ids, asset'[g].has # {} PROVE g <= made'
    <3>1. g \in Nat /\ (asset[g].has # {} \/ (call[c].pc \in Building /\ g = call[c].new))
      BY <2>3, Constant DEF Moves, RowMoves
    <3> QED
      BY <1>1, <2>1, <3>1 DEF Given
  <2>4. ASSUME NEW d \in Callers PROVE call'[d].old <= made' /\ call'[d].new <= made'
    <3>1. /\ call[d].old <= made /\ call[d].new <= made
          /\ call[c].old <= made /\ call[c].new <= made
          /\ row <= made
      BY <1>1 DEF Given
    <3>2. {call[d].old, call[d].new, call[c].old, call[c].new} \subseteq Nat
      BY <1>1, Constant DEF TypeOK, Call
    <3>3. CASE d = c
      BY <1>5, <2>1, <3>1, <3>2, <3>3 DEF None
    <3>4. CASE d # c
      BY <2>1, <3>1, <3>2, <3>4, OthersStay
    <3> QED
      BY <3>3, <3>4
  <2> QED
    BY <2>2, <2>3, <2>4 DEF Given
<1>8. ASSUME NEW d \in Callers, NEW e \in Callers,
             call'[d].pc \in Importing, call'[e].pc \in Importing,
             call'[d].new = call'[e].new
      PROVE  d = e
  BY <1>1, <1>8, OthersStay DEF OwnGraphs
<1>9. ASSUME NEW d \in Callers, call'[d].pc \in Building
      PROVE  /\ asset'[call'[d].new].has = KindsAt(call'[d].pc)
             /\ call'[d].new # row'
             /\ \A e \in Callers : call'[e].old # call'[d].new
  <2>1. call[d].pc \in Building /\ call'[d].new = call[d].new /\ call[d].pc \in Importing
    BY <1>9, OthersStay DEF Moves, CallMoves, Importing, Committed
  <2>2. /\ call[d].new # row /\ call[d].new \in Ids /\ call[d].new # None
        /\ asset[call[d].new].has = KindsAt(call[d].pc)
        /\ \A e \in Callers : call[e].old # call[d].new
    BY <1>1, <2>1, Constant DEF OwnGraphs, CallFits
  <2>3. asset'[call'[d].new].has = KindsAt(call'[d].pc)
    BY <1>9, <2>1, <2>2, OthersStay DEF Moves, RowMoves
  <2>4. call[d].new # row'
    <3>1. CASE d = c
      BY <1>6, <1>9, <2>2, <3>1 DEF Building
    <3>2. CASE d # c
      BY <1>6, <2>1, <2>2, <3>2, OthersStay DEF Importing, Committed, Building
    <3> QED
      BY <3>1, <3>2
  <2>5. ASSUME NEW e \in Callers PROVE call'[e].old # call[d].new
    BY <1>5, <2>2, OthersStay
  <2> QED
    BY <2>1, <2>3, <2>4, <2>5
<1>10. OwnGraphs'
  BY <1>8, <1>9 DEF OwnGraphs
<1>11. NoDangling'
  <2> SUFFICES ASSUME NEW u \in Users, use'[u] # NoUse
               PROVE  use'[u].of \in Ids /\ Needs(u) \in asset'[use'[u].of].has
    BY DEF NoDangling, Needs
  <2>1. CASE Become(asset')
    BY <1>1, <2>1 DEF Become, NoDangling
  <2>2. CASE use' = use /\ \A g \in Ids : asset[g].has \subseteq asset'[g].has
    BY <1>1, <2>2 DEF NoDangling
  <2> QED
    BY <2>1, <2>2 DEF Moves, RowMoves
<1> QED
  BY <1>1, <1>2, <1>3, <1>4, <1>7, <1>10, <1>11 DEF Basics, PastMoves

-----------------------------------------------------------------------------
(* As long as no edit crosses: kept.                                       *)

\* The graph a bundle's row names is nobody's to build or to undo.
LEMMA RowFollows ==
  ASSUME Basics, Apart, NEW c \in Callers, Moves(c), ~past'.crossed, ~past'.undone
  PROVE  /\ \/ row' = row
            \/ call[c].pc = "commit" /\ call'[c].pc = "confirm" /\ row' = call[c].new
            \/ call[c].pc = "erase" /\ row' = None /\ call'[c].pc \notin Editing
         /\ row # None /\ row' # row => asset'[row].has = {}
         /\ row # None /\ row' = row => asset'[row].has = asset[row].has
         /\ row # None => row \in Ids
<1>1. TypeOK /\ CallFits(call[c]) /\ OwnGraphs /\ EditsTheRow /\ AfterCommit
  BY DEF Basics, Apart
<1>2. row # None => row \in Ids
  BY <1>1 DEF TypeOK, Texts
<1>3. call[c].pc = "save" => call[c].old = row
  BY <1>1 DEF EditsTheRow, Editing, Reading
<1>4. call[c].pc = "erase" => call'[c].pc \notin Editing
  <2> SUFFICES ASSUME call[c].pc = "erase", call'[c].pc \in Editing PROVE FALSE
    OBVIOUS
  <2>1. ~Edits(call[c].op) /\ Busy(c)
    BY <1>1 DEF CallFits, Edits, Busy, Deleting
  <2>2. CallFits(call'[c])
    BY DEF Moves, CallMoves
  <2>3. Edits(call'[c].op) /\ call'[c].pc # "idle"
    BY <2>2 DEF CallFits, Edits, Editing, Reading, OfRoles
  <2>4. Edits(call'[c].op) = Edits(call[c].op)
    BY <2>1, <2>3 DEF Moves, CallMoves
  <2> QED
    BY <2>1, <2>3, <2>4
<1>5. \/ row' = row
      \/ call[c].pc = "commit" /\ call'[c].pc = "confirm" /\ row' = call[c].new
      \/ call[c].pc = "erase" /\ row' = None
  BY <1>3 DEF Moves, RowMoves
<1>6. row # None /\ row' # row => asset'[row].has = {}
  BY <1>5 DEF Moves, RowMoves
<1>7. row # None /\ row' = row => asset'[row].has = asset[row].has
  BY <1>1, <1>2 DEF Moves, RowMoves, OwnGraphs, AfterCommit
<1> QED
  BY <1>2, <1>4, <1>5, <1>6, <1>7

LEMMA KinFollows ==
  ASSUME Basics, Parted, NEW c \in Callers, Moves(c), ~past'.crossed
  PROVE  Kin'
<1> SUFFICES ASSUME NEW d \in Callers, NEW e \in Callers, call'[d].pc # "idle", call'[e].pc # "idle"
             PROVE  Edits(call'[d].op) = Edits(call'[e].op)
  BY DEF Kin, Busy, Edits
<1>1. Kin
  BY DEF Parted
<1>2. ASSUME NEW x \in Callers \ {c}, call'[x].pc # "idle", call'[c].pc # "idle"
      PROVE  Edits(call'[x].op) = Edits(call'[c].op)
  <2>1. call'[x] = call[x] /\ Busy(x)
    BY <1>2, OthersStay DEF Busy
  <2>2. \/ call[c].pc # "idle" /\ Edits(call'[c].op) = Edits(call[c].op)
        \/ \A y \in Callers : Busy(y) => Edits(call[y].op) = Edits(call'[c].op)
    BY <1>2 DEF Moves, CallMoves
  <2> QED
    BY <1>1, <2>1, <2>2 DEF Kin, Busy
<1>3. CASE d = c \/ e = c
  BY <1>2, <1>3
<1>4. CASE d # c /\ e # c
  BY <1>1, <1>4, OthersStay DEF Kin, Busy
<1> QED
  BY <1>3, <1>4

LEMMA RowWholeFollows ==
  ASSUME Basics, Apart, NEW c \in Callers, Moves(c), ~past'.crossed, ~past'.undone
  PROVE  RowWhole' /\ EditsTheRow'
<1>1. /\ TypeOK /\ OwnGraphs /\ EditsTheRow /\ RowWhole /\ Kin
      /\ \A d \in Callers : CallFits(call[d])
  BY DEF Basics, Apart, Parted
<1>2. RowWhole'
  <2> SUFFICES ASSUME row' # None PROVE asset'[row'].has = Kinds
    BY DEF RowWhole, Whole
  <2>1. CASE row' = row
    BY <1>1, <2>1, RowFollows DEF RowWhole, Whole
  <2>2. CASE call[c].pc = "commit" /\ row' = call[c].new
    <3>1. call[c].new \in Ids /\ call[c].new # row /\ asset[call[c].new].has = Kinds
      BY <1>1, <2>2 DEF OwnGraphs, CallFits, Importing, Committed, Building, KindsAt
    <3>2. asset'[call[c].new].has \subseteq Kinds
      BY <3>1 DEF Moves, RowMoves, Asset
    <3> QED
      BY <2>2, <3>1, <3>2 DEF Moves, RowMoves, Building, Undoing
  <2> QED
    BY <2>1, <2>2, RowFollows
<1>3. EditsTheRow'
  <2> SUFFICES ASSUME NEW d \in Callers, call'[d].pc \in Editing PROVE row' = call'[d].old
    BY DEF EditsTheRow
  <2>1. CASE d = c
    BY <1>1, <2>1, RowFollows DEF EditsTheRow, Moves, CallMoves, Editing, Reading, OfRoles
  <2>2. CASE d # c
    <3>1. call'[d] = call[d] /\ row = call[d].old /\ Edits(call[d].op) /\ Busy(d)
      BY <1>1, <2>2, OthersStay DEF EditsTheRow, Edits, CallFits, Busy, Editing, Reading, OfRoles
    <3>2. call[c].pc \in {"commit", "erase"} => Busy(c) /\ ~Edits(call[c].op)
      BY <1>1 DEF Busy, Edits, CallFits, Importing, Committed, Building, Deleting
    <3> QED
      BY <1>1, <3>1, <3>2, RowFollows DEF Kin
  <2> QED
    BY <2>1, <2>2
<1> QED
  BY <1>2, <1>3

LEMMA AfterCommitFollows ==
  ASSUME Basics, Apart, NEW c \in Callers, Moves(c), ~past'.crossed, ~past'.undone
  PROVE  AfterCommit'
<1>1. /\ OwnGraphs /\ AfterCommit
      /\ \A d \in Callers : call[d].pc \in Importing => call[d].new \in Ids /\ call[d].new # None
  BY Constant DEF Basics, Apart, CallFits
<1>2. ASSUME NEW d \in Callers, call'[d].pc \in Committed
      PROVE  call'[d].new = row' \/ asset'[call'[d].new].has = {}
  <2>1. call'[d].pc \in Importing
    BY <1>2 DEF Importing, Committed
  <2>2. CASE d = c
    <3>1. CASE call'[c].pc = "confirm"
      BY <1>2, <2>1, <2>2, <3>1, OthersStay DEF Moves, RowMoves
    <3>2. CASE call'[c].pc = "restore"
      <4>1. /\ call[c].pc = "confirm" /\ call[c].pc \in Committed /\ call[c].pc \in Importing
            /\ call'[c].new = call[c].new
        BY <2>1, <2>2, <3>2, OthersStay DEF Moves, CallMoves, Committed, Importing
      <4>2. row' = row /\ asset'[call[c].new].has = asset[call[c].new].has
        BY <1>1, <4>1 DEF Moves, RowMoves, Building, Undoing
      <4> QED
        BY <1>1, <2>2, <4>1, <4>2 DEF AfterCommit
    <3> QED
      BY <1>2, <2>2, <3>1, <3>2 DEF Committed
  <2>3. CASE d # c
    <3>1. /\ call'[d] = call[d] /\ call[d].pc \in Importing /\ call[d].new # None
          /\ call[d].new = row \/ asset[call[d].new].has = {}
      BY <1>1, <1>2, <2>1, <2>3, OthersStay DEF AfterCommit
    <3>2. CASE call[d].new = row
      BY <3>1, <3>2, RowFollows
    <3>3. CASE asset[call[d].new].has = {}
      BY <2>3, <3>1, <3>3, OthersStay
    <3> QED
      BY <3>1, <3>2, <3>3
  <2> QED
    BY <2>2, <2>3
<1>3. ASSUME NEW d \in Callers, call'[d].pc \in Undoing
      PROVE  call'[d].new # row'
  <2>1. call'[d].pc \in Importing /\ call'[d].pc \notin Committed /\ call'[d].pc # "confirm"
    BY <1>3 DEF Importing, Committed, Undoing
  <2>2. CASE d = c
    <3>1. /\ call[c].pc \in Importing /\ call'[c].new = call[c].new /\ call[c].new # None
          /\ call[c].pc # "erase"
      BY <1>1, <2>1, <2>2, OthersStay DEF Importing, Committed, Building, Undoing
    <3>2. row' = row
      BY <2>1, <2>2, <3>1, RowFollows
    <3>3. call[c].pc \in Building \cup Undoing \/ row = None
      BY <1>3, <2>2 DEF Moves, CallMoves
    <3>4. call[c].new # row
      BY <1>1, <3>1, <3>3 DEF OwnGraphs, AfterCommit
    <3> QED
      BY <2>2, <3>1, <3>2, <3>4
  <2>3. CASE d # c
    <3>1. call'[d] = call[d] /\ call[d].pc \in Importing /\ call[d].new # row /\ call[d].new # None
      BY <1>1, <1>3, <2>1, <2>3, OthersStay DEF AfterCommit
    <3>2. call[c].pc = "commit" => call[c].new # call[d].new
      BY <2>3, <3>1, OthersStay DEF Importing, Committed, Building
    <3> QED
      BY <3>1, <3>2, RowFollows
  <2> QED
    BY <2>2, <2>3
<1> QED
  BY <1>2, <1>3 DEF AfterCommit

\* Where the row goes while d imports or deletes.
LEMMA RowSpared ==
  ASSUME Basics, Parted, NEW c \in Callers, Moves(c), ~past'.crossed,
         NEW d \in Callers, call'[d].pc \in Importing \cup Deleting
  PROVE  \/ row' = row \/ row' = None
         \/ call[c].pc \in Importing /\ row' \in {call[c].old, call[c].new}
<1> SUFFICES ASSUME call[c].pc = "save" PROVE FALSE
  BY DEF Moves, RowMoves, Importing, Committed, Building
<1>1. Kin' /\ CallFits(call'[d]) /\ CallFits(call'[c]) /\ CallFits(call[c])
  BY KinFollows, OthersStay DEF Basics, Moves, CallMoves
<1>2. ~Edits(call'[d].op) /\ call'[d].pc # "idle"
  BY <1>1 DEF CallFits, Edits, Importing, Committed, Building, Undoing, Deleting
<1>3. Edits(call[c].op) /\ Busy(c)
  BY <1>1 DEF CallFits, Edits, Busy, Editing, Reading
<1>4. CASE d = c
  BY <1>2, <1>3, <1>4 DEF Moves, CallMoves, Busy
<1>5. CASE d # c
  BY <1>2, <1>3, <1>5, OthersStay DEF Parted, Kin, Busy
<1> QED
  BY <1>4, <1>5

LEMMA SparedFollows ==
  ASSUME Basics, Parted, NEW c \in Callers, Moves(c), ~past'.crossed
  PROVE  Spared'
<1>1. Spared /\ TypeOK
  BY DEF Basics, Parted
<1> SUFFICES ASSUME NEW d \in Callers, NEW u \in Users, call'[d].pc \in Importing \cup Deleting,
                    use'[u].of # None, ~use'[u].late
             PROVE  /\ use'[u].of # row'
                    /\ call'[d].pc \in Importing =>
                         use'[u].of # call'[d].old /\ use'[u].of # call'[d].new
  BY DEF Spared
<1>2. use'[u] = use[u]
  BY DEF Moves, RowMoves, Become, NoUse, TypeOK
<1>3. call[c].pc \in Importing \cup Deleting =>
        /\ use[u].of # row
        /\ call[c].pc \in Importing => use[u].of # call[c].old /\ use[u].of # call[c].new
  BY <1>1, <1>2 DEF Spared
<1>4. use[u].of # row
  <2>1. CASE d = c
    BY <1>3, <2>1 DEF Moves, CallMoves
  <2>2. CASE d # c
    BY <1>1, <1>2, <2>2, OthersStay DEF Spared
  <2> QED
    BY <2>1, <2>2
<1>5. use'[u].of # row'
  BY <1>2, <1>3, <1>4, RowSpared
<1>6. ASSUME call'[d].pc \in Importing
      PROVE  use'[u].of # call'[d].old /\ use'[u].of # call'[d].new
  <2>1. CASE d = c
    BY <1>2, <1>3, <1>6, <2>1 DEF Moves, CallMoves
  <2>2. CASE d # c
    BY <1>1, <1>2, <1>6, <2>2, OthersStay DEF Spared
  <2> QED
    BY <2>1, <2>2
<1> QED
  BY <1>5, <1>6

LEMMA AccountedFollows ==
  ASSUME Basics, Apart, NEW c \in Callers, Moves(c), ~past'.crossed, ~past'.undone, ~past'.died,
         ~past'.kept
  PROVE  Accounted'
<1>1. /\ TypeOK /\ Accounted /\ OwnGraphs /\ AfterCommit
      /\ \A d \in Callers : call[d].pc \in Importing => call[d].new \in Ids
  BY DEF Basics, Apart, Moves, CallMoves, PastMoves, CallFits
<1>2. ASSUME NEW g \in Ids, asset'[g].has # {}, g # row'
      PROVE  \E d \in Callers : call'[d].pc \in Importing /\ call'[d].new = g
  <2>1. ASSUME call[c].pc \in Importing, call[c].new = g
        PROVE  call'[c].pc \in Importing /\ call'[c].new = g
    <3> SUFFICES ASSUME call'[c].pc \notin Importing PROVE FALSE
      BY <2>1, OthersStay
    <3>1. call[c].pc \in Committed \cup {"undo_dir"}
      BY <2>1 DEF Moves, CallMoves
    <3>2. row' = row
      BY <3>1, RowFollows DEF Committed
    <3>3. asset[g].has = {}
      BY <1>1, <1>2, <2>1, <3>1, <3>2 DEF AfterCommit, Accounted, Undone, Undoing
    <3>4. asset'[g].has = {}
      BY <2>1, <3>1, <3>3 DEF Moves, RowMoves, Building, Committed
    <3> QED
      BY <1>2, <3>4
  <2>2. CASE g = row
    <3>1. g # None
      BY Constant
    <3> QED
      BY <1>2, <2>2, <3>1, RowFollows
  <2>3. CASE asset[g].has # {} /\ g # row
    <3>1. PICK d \in Callers : call[d].pc \in Importing /\ call[d].new = g
      BY <1>1, <2>3 DEF Accounted
    <3>2. CASE d = c
      BY <2>1, <3>1, <3>2
    <3>3. CASE d # c
      BY <3>1, <3>3, OthersStay
    <3> QED
      BY <3>2, <3>3
  <2>4. CASE asset[g].has = {}
    <3>1. call[c].pc \in Importing /\ g = call[c].new
      BY <1>2, <2>4 DEF Moves, RowMoves, Importing, Committed
    <3> QED
      BY <2>1, <3>1
  <2> QED
    BY <2>2, <2>3, <2>4
<1>3. ASSUME NEW d \in Callers, call'[d].pc \in Undoing
      PROVE  asset'[call'[d].new].has \subseteq Undone(call'[d].pc)
  <2>1. call'[d].pc \in Importing
    BY <1>3 DEF Importing, Committed
  <2>2. CASE d = c
    BY <1>1, <1>3, <2>1, <2>2, OthersStay DEF Moves, RowMoves, Accounted
  <2>3. CASE d # c
    <3>1. call'[d] = call[d] /\ asset[call[d].new].has \subseteq Undone(call[d].pc)
      BY <1>1, <1>3, <2>3, OthersStay DEF Accounted
    <3> QED
      BY <2>1, <2>3, <3>1, OthersStay
  <2> QED
    BY <2>2, <2>3
<1> QED
  BY <1>2, <1>3 DEF Accounted

LEMMA PartedFollows ==
  ASSUME Basics, Parted, NEW c \in Callers, Moves(c), ~past'.crossed
  PROVE  Parted'
  BY KinFollows, SparedFollows DEF Parted

LEMMA ApartFollows ==
  ASSUME Basics, Apart, NEW c \in Callers, Moves(c), ~past'.crossed, ~past'.undone
  PROVE  Apart'
  BY PartedFollows, RowWholeFollows, AfterCommitFollows, AccountedFollows DEF Apart

-----------------------------------------------------------------------------
(* An import begins.                                                       *)

\* The record of an import that begins.
Begun == [IdleCall EXCEPT !.op = "import", !.pc = "spec", !.old = row, !.new = Fresh,
                          !.text = Fresh, !.saved = IF row = None THEN NoDisk ELSE disk]

LEMMA ImportBegins ==
  ASSUME Basics, NEW c \in Callers, Import(c)
  PROVE  /\ UNCHANGED <<row, owned, asset, disk, use>> /\ made' = Fresh
         /\ made' \in Texts /\ Fresh \in Ids /\ made < Fresh
         /\ Begun \in Call /\ CallFits(Begun) /\ Begun.op = "import" /\ Begun.pc = "spec"
         /\ Begun.old = row /\ Begun.new = Fresh /\ Begun.text = Fresh
         /\ Begun.saved = IF row = None THEN NoDisk ELSE disk
         /\ call' \in [Callers -> Call] /\ call'[c] = Begun
         /\ \A d \in Callers \ {c} : call'[d] = call[d]
         /\ call[c].pc = "idle" /\ PastMoves
         /\ past'.overlap = (past.overlap \/ \E d \in Callers : Busy(d))
         /\ past'.crossed =
              (past.crossed \/ \E d \in Callers : Busy(d) /\ Edits(call[d].op) # Edits("import"))
         /\ row # None => \A u \in Users : use[u].of # row
<1>1. TypeOK /\ row \in Texts /\ disk \in Disk /\ made \in Texts /\ (past.crossed => past.overlap)
  BY DEF Basics, TypeOK
<1>2. /\ UNCHANGED <<row, owned, asset, disk, use>> /\ made' = Fresh /\ made < MaxIds
      /\ Begin(c, Begun)
      /\ row # None => \A u \in Users : use[u].of # row
  BY DEF Import, Begun, Deletable
<1>3. Fresh \in Ids /\ Fresh \in Texts /\ made < Fresh
  BY <1>1, <1>2, BundleAssumption DEF Fresh, Ids, Texts, None
<1> DEFINE s == IF row = None THEN NoDisk ELSE disk
<1>4. s \in Disk
  BY <1>1, Constant
<1>5. Begun = [IdleCall EXCEPT !.op = "import", !.pc = "spec", !.old = row, !.new = Fresh,
                               !.text = Fresh, !.saved = s]
  BY DEF Begun
<1> HIDE DEF s
<1>6. /\ Begun \in Call /\ Begun.op = "import" /\ Begun.pc = "spec" /\ Begun.old = row
      /\ Begun.new = Fresh /\ Begun.text = Fresh /\ ~Begun.undoing /\ Begun.saved = s
  BY <1>1, <1>3, <1>4, <1>5, Constant DEF IdleCall, Call
<1>7. CallFits(Begun)
  <2>1. row <= made /\ row \in Nat /\ made \in Nat /\ Fresh \in Nat
    BY <1>1, <1>3, Constant DEF Basics, Given
  <2>2. row # Fresh
    BY <1>3, <2>1
  <2> QED
    BY <1>3, <1>6, <2>2 DEF CallFits, Importing, Committed, Building, Undoing, Deleting, Editing,
       Reading, OfRoles
<1>8. /\ call' \in [Callers -> Call] /\ call'[c] = Begun
      /\ \A d \in Callers \ {c} : call'[d] = call[d]
      /\ past' \in Past
      /\ call[c].pc = "idle"
      /\ past'.died = past.died /\ past'.kept = past.kept
      /\ past'.undone = past.undone /\ past'.torn = past.torn
      /\ past'.overlap = (past.overlap \/ \E d \in Callers : Busy(d))
      /\ past'.crossed =
           (past.crossed \/ \E d \in Callers : Busy(d) /\ Edits(call[d].op) # Edits("import"))
  BY <1>1, <1>2, <1>6, BeginTypes
<1>9. PastMoves
  BY <1>1, <1>8 DEF PastMoves, TypeOK
<1> QED
  BY <1>2, <1>3, <1>6, <1>7, <1>8, <1>9 DEF s

LEMMA BasicsOfImport ==
  ASSUME Basics, NEW c \in Callers, Import(c)
  PROVE  Basics'
<1>1. /\ TypeOK /\ Given /\ Owns /\ OwnGraphs /\ NoDangling
      /\ \A d \in Callers : CallFits(call[d])
  BY DEF Basics
<1>2. TypeOK'
  BY <1>1, ImportBegins DEF TypeOK, PastMoves
<1>3. \A d \in Callers : CallFits(call'[d])
  BY <1>1, ImportBegins
<1>4. Owns' /\ NoDangling'
  BY <1>1, ImportBegins DEF Owns, NoDangling, Needs
<1>5. /\ made \in Nat /\ Fresh \in Nat /\ row \in Nat
      /\ row # Fresh /\ row <= Fresh /\ Fresh <= Fresh
      /\ \A g \in Ids : asset[g].has # {} => g <= Fresh /\ g # Fresh
      /\ \A d \in Callers : /\ call[d].old <= Fresh /\ call[d].new <= Fresh
                            /\ call[d].old # Fresh /\ call[d].new # Fresh
  <2>1. made \in Nat /\ Fresh = made + 1
    BY <1>1, Constant DEF TypeOK, Fresh
  <2>2. \A n \in Nat : n <= made => n <= Fresh /\ n # Fresh
    BY <2>1
  <2>3. row \in Nat /\ \A g \in Ids : g \in Nat
    BY <1>1, Constant DEF TypeOK
  <2>4. \A d \in Callers : call[d].old \in Nat /\ call[d].new \in Nat
    BY <1>1, Constant DEF TypeOK, Call
  <2>5. Fresh \in Nat /\ Fresh <= Fresh
    BY <2>1
  <2> QED
    BY <1>1, <2>1, <2>2, <2>3, <2>4, <2>5 DEF Given
<1>6. Given'
  BY <1>1, <1>5, ImportBegins DEF Given
<1>7. ASSUME NEW d \in Callers, NEW e \in Callers,
             call'[d].pc \in Importing, call'[e].pc \in Importing,
             call'[d].new = call'[e].new
      PROVE  d = e
  BY <1>1, <1>5, <1>7, ImportBegins DEF OwnGraphs
<1>8. ASSUME NEW d \in Callers, call'[d].pc \in Building
      PROVE  /\ asset'[call'[d].new].has = KindsAt(call'[d].pc)
             /\ call'[d].new # row'
             /\ \A e \in Callers : call'[e].old # call'[d].new
  <2>1. CASE d = c
    <3>1. asset[Fresh].has = {} /\ KindsAt("spec") = {}
      BY <1>5, ImportBegins DEF KindsAt
    <3>2. ASSUME NEW e \in Callers PROVE call'[e].old # Fresh
      BY <1>5, ImportBegins
    <3>3. call'[c].new = Fresh /\ call'[c].pc = "spec" /\ row' = row /\ asset' = asset
      BY ImportBegins
    <3> QED
      BY <1>5, <2>1, <3>1, <3>2, <3>3
  <2>2. CASE d # c
    <3>1. /\ call'[d] = call[d] /\ asset[call[d].new].has = KindsAt(call[d].pc) /\ call[d].new # row
          /\ \A e \in Callers : call[e].old # call[d].new
      BY <1>1, <1>8, <2>2, ImportBegins DEF OwnGraphs
    <3> QED
      BY <3>1, ImportBegins
  <2> QED
    BY <2>1, <2>2
<1>9. OwnGraphs'
  BY <1>7, <1>8 DEF OwnGraphs
<1>10. past'.crossed => past'.overlap
  BY ImportBegins DEF PastMoves
<1> QED
  BY <1>2, <1>3, <1>4, <1>6, <1>9, <1>10 DEF Basics

LEMMA PartedOfImport ==
  ASSUME Basics, Parted, NEW c \in Callers, Import(c), ~past'.crossed
  PROVE  Parted'
<1>1. Kin /\ Spared /\ TypeOK /\ NoDangling /\ Given
  BY DEF Parted, Basics
<1>2. \A d \in Callers : Busy(d) => Edits(call[d].op) = Edits("import")
  BY ImportBegins
<1>3. Kin'
  BY <1>1, <1>2, ImportBegins DEF Kin, Busy, Edits
<1>4. Spared'
  <2> SUFFICES ASSUME NEW d \in Callers, NEW u \in Users, call'[d].pc \in Importing \cup Deleting,
                      use[u].of # None, ~use[u].late
               PROVE  /\ use[u].of # row
                      /\ call'[d].pc \in Importing =>
                           use[u].of # call'[d].old /\ use[u].of # call'[d].new
    BY ImportBegins DEF Spared
  <2>1. CASE d = c
    <3>1. use[u].of \in Ids /\ asset[use[u].of].has # {}
      BY <1>1 DEF NoDangling, NoUse
    <3>2. use[u].of # Fresh
      <4>1. use[u].of <= made /\ use[u].of \in Nat /\ made \in Nat
        BY <1>1, <3>1, Constant DEF Given, TypeOK
      <4>2. made < Fresh /\ Fresh \in Nat
        BY ImportBegins, Constant
      <4> QED
        BY <4>1, <4>2
    <3>3. call'[c].new = Fresh /\ call'[c].old = row
      BY ImportBegins
    <3>4. use[u].of # row
      BY ImportBegins, <3>1, Constant
    <3> QED
      BY <2>1, <3>2, <3>3, <3>4
  <2>2. CASE d # c
    BY <1>1, <2>2, ImportBegins DEF Spared
  <2> QED
    BY <2>1, <2>2
<1> QED
  BY <1>3, <1>4 DEF Parted

LEMMA ApartOfImport ==
  ASSUME Basics, Apart, NEW c \in Callers, Import(c), ~past'.crossed
  PROVE  Apart'
<1>1. /\ RowWhole /\ EditsTheRow /\ AfterCommit
      /\ ~past.died /\ ~past.kept => Accounted
  BY DEF Apart
<1>2. RowWhole' /\ EditsTheRow' /\ AfterCommit'
  BY <1>1, ImportBegins
     DEF RowWhole, Whole, EditsTheRow, AfterCommit, Editing, Reading, OfRoles, Undoing, Committed
<1>3. ASSUME ~past'.died, ~past'.kept PROVE Accounted'
  <2>1. Accounted
    BY <1>1, <1>3, ImportBegins DEF PastMoves
  <2>2. \A d \in Callers : call[d].pc \in Importing => call'[d] = call[d]
    BY ImportBegins DEF Importing, Committed, Building, Undoing
  <2>3. \A d \in Callers : call'[d].pc \in Undoing => call'[d] = call[d]
    BY ImportBegins DEF Undoing
  <2> QED
    BY <2>1, <2>2, <2>3, ImportBegins DEF Accounted
<1> QED
  BY <1>2, <1>3, PartedOfImport DEF Apart

-----------------------------------------------------------------------------
(* Who takes up a graph or gives it up.                                    *)

LEMMA TakenUp ==
  ASSUME Basics, NEW u \in Users, TakeUp(u)
  PROVE  /\ UNCHANGED <<row, owned, asset, disk, call, made, past>>
         /\ use' \in [Users -> Use] /\ \A v \in Users \ {u} : use'[v] = use[v]
         /\ use'[u].of \in Ids /\ Needs(u) \in asset[use'[u].of].has
         /\ use'[u].late = \E c \in Callers : Busy(c) /\ ~Edits(call[c].op)
<1> DEFINE l == \E c \in Callers : Busy(c) /\ ~Edits(call[c].op)
<1>1. PICK g \in Ids : /\ Needs(u) \in asset[g].has
                       /\ use' = [use EXCEPT ![u] = [of |-> g, late |-> l]]
                       /\ UNCHANGED <<row, owned, asset, disk, call, made, past>>
  BY DEF TakeUp
<1>2. l \in BOOLEAN /\ use \in [Users -> Use] /\ g \in Texts
  BY Constant DEF Basics, TypeOK
<1> HIDE DEF l
<1> QED
  BY <1>1, <1>2 DEF Use, l

LEMMA GivenUp ==
  ASSUME Basics, NEW u \in Users, GiveUp(u)
  PROVE  /\ UNCHANGED <<row, owned, asset, disk, call, made, past>>
         /\ use' \in [Users -> Use] /\ \A v \in Users \ {u} : use'[v] = use[v]
         /\ use'[u] = NoUse /\ use'[u].of = None
  BY Constant DEF GiveUp, Basics, TypeOK, NoUse

\* They disturb only what is said of users.
LEMMA UsersFollow ==
  ASSUME IInv, UNCHANGED <<row, owned, asset, disk, call, made, past>>, use' \in [Users -> Use],
         NoDangling', ~past.crossed => Spared'
  PROVE  IInv'
<1>1. Basics'
  BY DEF IInv, Basics, TypeOK, Owns, Given, OwnGraphs
<1>2. /\ ~past'.crossed => Parted'
      /\ ~past'.crossed /\ ~past'.undone => Apart'
  BY DEF IInv, Parted, Apart, Kin, Busy, RowWhole, Whole, EditsTheRow, AfterCommit, Accounted
<1>3. ASSUME Alone PROVE Alone'
  BY <1>3 DEF Alone, Busy, Quiet, Agreed, ImportAlone, DeleteAlone, UpdateAlone, RoleAlone, ExportOf
<1>4. /\ Wrecked => Wrecked'
      /\ Serial => Serial'
  BY DEF Wrecked, Serial, Busy
<1> QED
  BY <1>1, <1>2, <1>3, <1>4 DEF IInv

LEMMA UserSteps ==
  ASSUME IInv, NEW u \in Users, TakeUp(u) \/ GiveUp(u)
  PROVE  IInv'
<1>1. Basics /\ NoDangling /\ (~past.crossed => Spared) /\ \A c \in Callers : CallFits(call[c])
  BY DEF IInv, Basics, Parted
<1>2. CASE TakeUp(u)
  <2>1. NoDangling'
    BY <1>1, <1>2, TakenUp DEF NoDangling, Needs
  <2>2. ASSUME Spared PROVE Spared'
    <3> SUFFICES ASSUME NEW c \in Callers, NEW v \in Users, call[c].pc \in Importing \cup Deleting,
                        use'[v].of # None, ~use'[v].late
                 PROVE  /\ use'[v].of # row
                        /\ call[c].pc \in Importing =>
                             use'[v].of # call[c].old /\ use'[v].of # call[c].new
      BY <1>1, <1>2, TakenUp DEF Spared
    <3>1. CASE v = u
      <4>1. Busy(c) /\ ~Edits(call[c].op)
        BY <1>1 DEF CallFits, Busy, Edits, Importing, Committed, Building, Undoing, Deleting
      <4> QED
        BY <1>1, <1>2, <3>1, <4>1, TakenUp
    <3>2. CASE v # u
      BY <1>1, <1>2, <2>2, <3>2, TakenUp DEF Spared
    <3> QED
      BY <3>1, <3>2
  <2> QED
    BY <1>1, <1>2, <2>1, <2>2, TakenUp, UsersFollow
<1>3. CASE GiveUp(u)
  <2>1. NoDangling'
    BY <1>1, <1>3, GivenUp DEF NoDangling, Needs
  <2>2. ASSUME Spared PROVE Spared'
    BY <1>1, <1>3, <2>2, GivenUp DEF Spared
  <2> QED
    BY <1>1, <1>3, <2>1, <2>2, GivenUp, UsersFollow
<1> QED
  BY <1>2, <1>3

-----------------------------------------------------------------------------
(* An operation on its own: what is known while it is at work.             *)

One(c) ==
  /\ call[c].pc = "idle" => Agreed(disk)
  /\ call[c].pc \in Importing => ImportAlone(call[c])
  /\ call[c].pc \in Deleting => DeleteAlone(call[c])
  /\ call[c].pc \in Editing => UpdateAlone(call[c]) /\ RoleAlone(call[c])

Sole(c) == Basics /\ Apart /\ One(c)

\* What an edit on its own works on.
LEMMA EditKnown ==
  ASSUME NEW c \in Callers, Sole(c), call[c].pc \in Editing
  PROVE  /\ row = call[c].old /\ row \in Ids /\ row # None /\ asset[row] \in Asset
         /\ asset[row].has = Kinds /\ Readable /\ LoopNamed
         /\ call[c].op \in {"update", "role"} /\ call[c].pc # "idle"
         /\ call[c].pc \in OfRoles => call[c].op = "role" /\ ~call[c].undoing
         /\ call[c].undoing => call[c].op = "role"
         /\ UpdateAlone(call[c]) /\ RoleAlone(call[c])
<1>1. /\ row = call[c].old /\ row \in Ids /\ row # None /\ asset[row] \in Asset
      /\ asset[row].has = Kinds
  BY CallKnown, Constant DEF Sole, Apart, EditsTheRow, RowWhole, Whole
<1>2. UpdateAlone(call[c]) /\ RoleAlone(call[c])
  BY DEF Sole, One
<1>3. /\ call[c].op \in {"update", "role"} /\ call[c].pc # "idle"
      /\ call[c].pc \in OfRoles => call[c].op = "role" /\ ~call[c].undoing
      /\ call[c].undoing => call[c].op = "role"
  BY CallKnown DEF Sole, CallFits, Editing, Reading, OfRoles
<1>4. Readable /\ LoopNamed
  BY <1>1 DEF Readable, Whole, LoopNamed, Kinds
<1> QED
  BY <1>1, <1>2, <1>3, <1>4

\* The record of a call that goes on.
LEMMA GoKeeps ==
  ASSUME NEW c \in Callers, Basics, NEW pc, Go(c, pc)
  PROVE  LET me == call[c]
             new == call'[c]
         IN  /\ new.pc = pc /\ new.op = me.op /\ new.old = me.old /\ new.new = me.new
             /\ new.text = me.text /\ new.role = me.role /\ new.stale = me.stale
             /\ new.prior = me.prior /\ new.saved = me.saved /\ new.undoing = me.undoing
<1>1. call \in [Callers -> Call] /\ call[c] \in Call
  BY DEF Basics, TypeOK
<1>2. call'[c] = [call[c] EXCEPT !.pc = pc]
  BY <1>1 DEF Go
<1> QED
  BY <1>1, <1>2 DEF Call

LEMMA ReturnKeeps ==
  ASSUME NEW c \in Callers, Basics, Return(c), Agreed(disk)'
  PROVE  One(c)'
<1>1. call'[c].pc = "idle"
  BY BasicsType, ReturnTypes, Constant
<1> QED
  BY <1>1 DEF One, Importing, Committed, Building, Undoing, Deleting, Editing, Reading, OfRoles

LEMMA OneOfEdit ==
  ASSUME NEW c \in Callers, call'[c].pc \in Editing, UpdateAlone(call[c])', RoleAlone(call[c])'
  PROVE  One(c)'
  BY DEF One, Importing, Committed, Building, Undoing, Deleting, Editing, Reading, OfRoles

LEMMA OneOfImport ==
  ASSUME NEW c \in Callers, call'[c].pc \in Importing, ImportAlone(call[c])'
  PROVE  One(c)'
  BY DEF One, Importing, Committed, Building, Undoing, Deleting, Editing, Reading, OfRoles

\* A directory of which every part is known.
LEMMA DiskIs ==
  ASSUME NEW d \in Disk, NEW s, NEW y, d.there, d.spec = s, d.yaml = y
  PROVE  d = [there |-> TRUE, spec |-> s, yaml |-> y]
  BY DEF Disk

-----------------------------------------------------------------------------
(* An import, a delete on its own.                                         *)

\* An import at work: what a step of it that leaves the row's graph alone keeps.
LEMMA ImportKnown ==
  ASSUME NEW c \in Callers, Sole(c), call[c].pc \in Building \cup Undoing
  PROVE  /\ call[c].new \in Ids /\ call[c].new # row /\ asset[call[c].new] \in Asset
         /\ row = call[c].old /\ Agreed(IF call[c].old = None THEN NoDisk ELSE call[c].saved)
         /\ ImportAlone(call[c]) /\ call[c].pc \in Importing
         /\ row # None => row \in Ids
         /\ call[c].saved \in Disk /\ disk \in Disk
<1>1. call[c].pc \in Importing /\ ImportAlone(call[c])
  BY DEF Sole, One, Importing, Committed
<1>2. call[c].new \in Ids /\ asset[call[c].new] \in Asset /\ call[c] \in Call
  BY <1>1, CallKnown DEF Sole
<1>3. call[c].new # row
  BY DEF Sole, Apart, AfterCommit, Basics, OwnGraphs
<1>4. row # None => row \in Ids
  BY DEF Sole, Basics, TypeOK, Texts
<1> QED
  BY <1>1, <1>2, <1>3, <1>4, CallKnown DEF ImportAlone, Sole, Call

\* A step of an import before its commit or after its failure goes on at pc.
LEMMA ImportGoes ==
  ASSUME NEW c \in Callers, Sole(c), call[c].pc \in Building \cup Undoing, NEW pc, Go(c, pc),
         pc \in Building \cup Undoing, UNCHANGED row, row # None => asset'[row] = asset[row]
  PROVE  /\ call'[c].pc = pc /\ call'[c].new = call[c].new /\ call'[c].text = call[c].text
         /\ row' = call'[c].old
         /\ Agreed(IF call[c].old = None THEN NoDisk ELSE call[c].saved)'
         /\ call[c].pc \in Building => call[c].text # None
<1>1. /\ call'[c].pc = pc /\ call'[c].new = call[c].new /\ call'[c].text = call[c].text
      /\ call'[c].old = call[c].old /\ call'[c].saved = call[c].saved
  BY GoKeeps DEF Sole
<1>2. /\ row = call[c].old /\ Agreed(IF call[c].old = None THEN NoDisk ELSE call[c].saved)
      /\ call[c].pc \in Building => call[c].text # None
  BY ImportKnown DEF ImportAlone
<1>3. Agreed(IF call[c].old = None THEN NoDisk ELSE call[c].saved)'
  BY <1>1, <1>2 DEF Agreed
<1> QED
  BY <1>1, <1>2, <1>3

LEMMA OneOfBuilding ==
  ASSUME NEW c \in Callers, call'[c].pc \in Building, row' = call'[c].old,
         Agreed(IF call[c].old = None THEN NoDisk ELSE call[c].saved)',
         LET me == call'[c]
             a == asset'[me.new]
         IN  /\ me.text # None
             /\ me.pc # "spec" => disk'.there /\ disk'.spec = me.text
             /\ me.pc \in {"orchestration", "loop", "yaml", "commit"} => a.role = me.text
             /\ me.pc \in {"loop", "yaml", "commit"} => a.told = me.text
             /\ me.pc \in {"yaml", "commit"} => a.spec = me.text /\ a.snap = me.text
             /\ me.pc = "commit" =>
                  disk'.yaml = [loop |-> me.new, spec |-> a.spec, snap |-> a.snap]
  PROVE  One(c)'
<1>1. ImportAlone(call[c])'
  BY DEF ImportAlone, Committed, Building, Undoing, Agreed, ExportOf
<1> QED
  BY <1>1, OneOfImport DEF Importing, Committed

LEMMA OneOfUndoing ==
  ASSUME NEW c \in Callers, Sole(c), call[c].pc \in Building \cup Undoing, NEW pc, Go(c, pc),
         pc \in Undoing, UNCHANGED row, row # None => asset'[row] = asset[row]
  PROVE  One(c)'
<1>1. /\ call'[c].pc = pc /\ row' = call'[c].old
      /\ Agreed(IF call[c].old = None THEN NoDisk ELSE call[c].saved)'
  BY ImportGoes
<1>2. ImportAlone(call[c])'
  BY <1>1 DEF ImportAlone, Committed, Building, Undoing
<1> QED
  BY <1>1, <1>2, OneOfImport DEF Importing, Committed

LEMMA ImportOne ==
  ASSUME NEW c \in Callers, Sole(c), call[c].pc = "idle", Import(c)
  PROVE  One(c)'
<1>1. Agreed(disk)
  BY DEF Sole, One
<1>2. Basics
  BY DEF Sole
<1>3. /\ UNCHANGED <<row, asset>> /\ call'[c].pc = "spec" /\ row' = call'[c].old
      /\ call'[c].text = Fresh /\ call'[c].saved = IF row = None THEN NoDisk ELSE disk
  BY <1>2, ImportBegins
<1>4. call'[c].text # None
  BY <1>2, <1>3, ImportBegins, Constant
<1>5. Agreed(IF call[c].old = None THEN NoDisk ELSE call[c].saved)'
  BY <1>1, <1>3 DEF Agreed
<1> QED
  BY <1>3, <1>4, <1>5, OneOfBuilding DEF Building

LEMMA WriteSpecOne == ASSUME NEW c \in Callers, Sole(c), WriteSpec(c) PROVE One(c)'
<1>1. /\ call[c].pc = "spec" /\ call[c].pc \in Building /\ Go(c, "role") /\ "role" \in Building
      /\ UNCHANGED <<row, asset>>
  BY DEF WriteSpec, At, Building
<1>2. /\ call'[c].pc = "role" /\ call'[c].text = call[c].text
      /\ row' = call'[c].old /\ call[c].text # None
      /\ Agreed(IF call[c].old = None THEN NoDisk ELSE call[c].saved)'
  BY <1>1, ImportGoes
<1>3. disk'.there /\ disk'.spec = call[c].text
  BY <1>1, ImportKnown DEF WriteSpec, Disk
<1> QED
  BY <1>1, <1>2, <1>3, OneOfBuilding

LEMMA CreateRoleOne == ASSUME NEW c \in Callers, Sole(c), CreateRole(c) PROVE One(c)'
<1> DEFINE g == call[c].new
<1>1. /\ call[c].pc = "role" /\ call[c].pc \in Building /\ Go(c, "orchestration")
      /\ "orchestration" \in Building /\ UNCHANGED <<row, disk>>
  BY DEF CreateRole, At, Building
<1>2. g \in Ids /\ g # row /\ asset[g] \in Asset /\ asset \in [Ids -> Asset] /\ ImportAlone(call[c])
  BY <1>1, ImportKnown, CallKnown DEF Sole
<1>3. asset'[g].role = call[c].text /\ (row # None => asset'[row] = asset[row])
  BY <1>1, <1>2, ImportKnown DEF CreateRole, Asset
<1>4. /\ call'[c].pc = "orchestration" /\ call'[c].new = g /\ call'[c].text = call[c].text
      /\ row' = call'[c].old /\ call[c].text # None
      /\ Agreed(IF call[c].old = None THEN NoDisk ELSE call[c].saved)'
  BY <1>1, <1>3, ImportGoes
<1>5. disk.there /\ disk.spec = call[c].text
  BY <1>1, <1>2 DEF ImportAlone
<1> QED
  BY <1>1, <1>3, <1>4, <1>5, OneOfBuilding

LEMMA CreateOrchestrationOne ==
  ASSUME NEW c \in Callers, Sole(c), CreateOrchestration(c) PROVE One(c)'
<1> DEFINE g == call[c].new
<1>1. /\ call[c].pc = "orchestration" /\ call[c].pc \in Building /\ Go(c, "loop")
      /\ "loop" \in Building /\ UNCHANGED <<row, disk>>
  BY DEF CreateOrchestration, At, Building
<1>2. g \in Ids /\ g # row /\ asset[g] \in Asset /\ asset \in [Ids -> Asset] /\ ImportAlone(call[c])
  BY <1>1, ImportKnown, CallKnown DEF Sole
<1>3. /\ asset'[g].told = asset[g].role /\ asset'[g].role = asset[g].role
      /\ row # None => asset'[row] = asset[row]
  BY <1>1, <1>2, ImportKnown DEF CreateOrchestration, Asset
<1>4. /\ call'[c].pc = "loop" /\ call'[c].new = g /\ call'[c].text = call[c].text
      /\ row' = call'[c].old /\ call[c].text # None
      /\ Agreed(IF call[c].old = None THEN NoDisk ELSE call[c].saved)'
  BY <1>1, <1>3, ImportGoes
<1>5. disk.there /\ disk.spec = call[c].text /\ asset[g].role = call[c].text
  BY <1>1, <1>2 DEF ImportAlone
<1> QED
  BY <1>1, <1>3, <1>4, <1>5, OneOfBuilding

LEMMA CreateLoopOne == ASSUME NEW c \in Callers, Sole(c), CreateLoop(c) PROVE One(c)'
<1> DEFINE g == call[c].new
<1>1. /\ call[c].pc = "loop" /\ call[c].pc \in Building /\ Go(c, "yaml")
      /\ "yaml" \in Building /\ UNCHANGED <<row, disk>>
  BY DEF CreateLoop, At, Building
<1>2. g \in Ids /\ g # row /\ asset[g] \in Asset /\ asset \in [Ids -> Asset] /\ ImportAlone(call[c])
  BY <1>1, ImportKnown, CallKnown DEF Sole
<1>3. /\ asset'[g].spec = disk.spec /\ asset'[g].snap = asset[g].told
      /\ asset'[g].told = asset[g].told /\ asset'[g].role = asset[g].role
      /\ row # None => asset'[row] = asset[row]
  BY <1>1, <1>2, ImportKnown DEF CreateLoop, Asset
<1>4. /\ call'[c].pc = "yaml" /\ call'[c].new = g /\ call'[c].text = call[c].text
      /\ row' = call'[c].old /\ call[c].text # None
      /\ Agreed(IF call[c].old = None THEN NoDisk ELSE call[c].saved)'
  BY <1>1, <1>3, ImportGoes
<1>5. /\ disk.there /\ disk.spec = call[c].text
      /\ asset[g].role = call[c].text /\ asset[g].told = call[c].text
  BY <1>1, <1>2 DEF ImportAlone
<1> QED
  BY <1>1, <1>3, <1>4, <1>5, OneOfBuilding

LEMMA WriteYamlOne == ASSUME NEW c \in Callers, Sole(c), WriteYaml(c) PROVE One(c)'
<1> DEFINE g == call[c].new
<1>1. /\ call[c].pc = "yaml" /\ call[c].pc \in Building /\ Go(c, "commit")
      /\ "commit" \in Building /\ UNCHANGED <<row, asset>>
  BY DEF WriteYaml, At, Building
<1>2. disk \in Disk /\ ImportAlone(call[c])
  BY <1>1, ImportKnown
<1>3. disk'.there = disk.there /\ disk'.spec = disk.spec /\ disk'.yaml = ExportOf(g)
  BY <1>1, <1>2 DEF WriteYaml, Disk
<1>4. /\ call'[c].pc = "commit" /\ call'[c].new = g /\ call'[c].text = call[c].text
      /\ row' = call'[c].old /\ call[c].text # None
      /\ Agreed(IF call[c].old = None THEN NoDisk ELSE call[c].saved)'
  BY <1>1, ImportGoes
<1>5. disk'.yaml = [loop |-> g, spec |-> asset[g].spec, snap |-> asset[g].snap]
  BY <1>3 DEF ExportOf
<1>6. /\ disk.there /\ disk.spec = call[c].text /\ asset[g].role = call[c].text
      /\ asset[g].told = call[c].text /\ asset[g].spec = call[c].text
      /\ asset[g].snap = call[c].text
  BY <1>1, <1>2 DEF ImportAlone
<1>7. LET me == call'[c]
          a == asset'[me.new]
      IN  /\ me.text # None
          /\ disk'.there /\ disk'.spec = me.text
          /\ a.role = me.text /\ a.told = me.text /\ a.spec = me.text /\ a.snap = me.text
          /\ disk'.yaml = [loop |-> me.new, spec |-> a.spec, snap |-> a.snap]
  BY <1>1, <1>3, <1>4, <1>5, <1>6
<1> QED
  BY <1>1, <1>4, <1>7, OneOfBuilding

LEMMA CommitImportOne == ASSUME NEW c \in Callers, Sole(c), CommitImport(c) PROVE One(c)'
<1> DEFINE g == call[c].new
<1>1. /\ call[c].pc = "commit" /\ call[c].pc \in Building /\ Go(c, "confirm")
      /\ Erase(owned) /\ row' = g /\ disk' = disk /\ Basics
  BY DEF CommitImport, At, Building, Replaced, Sole
<1>2. /\ g \in Ids /\ g # row /\ g # None
      /\ asset[g] \in Asset /\ disk \in Disk /\ ImportAlone(call[c])
  BY <1>1, ImportKnown, Constant
<1>3. asset'[g] = asset[g]
  BY <1>1, <1>2, EraseErases
<1>4. /\ disk.there /\ disk.spec = call[c].text /\ disk.yaml = ExportOf(g)
      /\ asset[g].role = call[c].text /\ asset[g].told = call[c].text /\ call[c].text # None
      /\ asset[g].spec = call[c].text /\ asset[g].snap = call[c].text
  BY <1>1, <1>2 DEF ImportAlone
<1>5. disk = [there |-> TRUE, spec |-> asset[g].spec, yaml |-> ExportOf(g)]
  BY <1>2, <1>4, DiskIs
<1>6. Agreed(disk)'
  BY <1>1, <1>2, <1>3, <1>4, <1>5 DEF Agreed, Tells, ExportOf
<1>7. call'[c].pc = "confirm"
  BY <1>1, GoKeeps
<1>8. ImportAlone(call[c])'
  BY <1>1, <1>2, <1>6, <1>7, GoKeeps DEF ImportAlone, Committed, Building, Undoing
<1> QED
  BY <1>7, <1>8, OneOfImport DEF Importing, Committed

LEMMA CommittedKnown ==
  ASSUME NEW c \in Callers, Sole(c), call[c].pc \in Committed
  PROVE  row = call[c].new /\ Agreed(disk) /\ row \in Ids /\ row # None /\ Basics
<1>1. call[c].pc \in Importing
  BY DEF Importing
<1> QED
  BY <1>1, CallKnown, Constant DEF Sole, One, ImportAlone

LEMMA ConfirmImportOne == ASSUME NEW c \in Callers, Sole(c), ConfirmImport(c) PROVE One(c)'
<1>1. call[c].pc = "confirm" /\ Return(c) /\ UNCHANGED <<row, asset, disk>>
  BY DEF ConfirmImport, At
<1>2. Agreed(disk)
  BY <1>1, CommittedKnown DEF Committed
<1>3. Agreed(disk)'
  BY <1>1, <1>2 DEF Agreed
<1> QED
  BY <1>1, <1>3, ReturnKeeps DEF Sole

LEMMA FailImportOne == ASSUME NEW c \in Callers, Sole(c), FailImport(c) PROVE One(c)'
<1>1. Go(c, "look") /\ UNCHANGED <<row, asset>>
  BY DEF FailImport
<1>2. call[c].pc = "confirm" => row # None
  BY CommittedKnown DEF Committed
<1>3. call[c].pc \in Building
  BY <1>2 DEF FailImport, At, Building
<1> QED
  BY <1>1, <1>3, OneOfUndoing DEF Undoing

LEMMA FailAfterCommitOne ==
  ASSUME NEW c \in Callers, Sole(c), FailAfterCommit(c), ~past'.undone PROVE One(c)'
<1>1. call[c].pc = "confirm" /\ call[c].pc \in Committed /\ UNCHANGED <<row, asset, disk>>
  BY DEF FailAfterCommit, At, Committed
<1>2. row = call[c].new /\ Agreed(disk) /\ Basics
  BY <1>1, CommittedKnown
<1>3. Go(c, "restore")
  BY <1>2 DEF FailAfterCommit, Basics, TypeOK, Past
<1>4. call'[c].pc = "restore" /\ call'[c].new = call[c].new
  BY <1>2, <1>3, GoKeeps
<1>5. ImportAlone(call[c])'
  BY <1>1, <1>2, <1>4 DEF ImportAlone, Agreed, Building, Undoing
<1> QED
  BY <1>4, <1>5, OneOfImport DEF Importing, Committed

LEMMA RestoreRowOne ==
  ASSUME NEW c \in Callers, Sole(c), RestoreRow(c), ~past'.undone PROVE One(c)'
<1>1. call[c].pc \in Committed /\ UNCHANGED <<asset, disk>>
  BY DEF RestoreRow, At, Committed
<1>2. row # None /\ Agreed(disk) /\ Basics
  BY <1>1, CommittedKnown
<1>3. Return(c) /\ UNCHANGED row
  BY <1>2 DEF RestoreRow, Basics, TypeOK, Past
<1>4. Agreed(disk)'
  BY <1>1, <1>2, <1>3 DEF Agreed
<1> QED
  BY <1>2, <1>3, <1>4, ReturnKeeps

LEMMA LookForRunsOne == ASSUME NEW c \in Callers, Sole(c), LookForRuns(c) PROVE One(c)'
<1>1. /\ call[c].pc \in Undoing /\ UNCHANGED <<row, asset>>
      /\ Go(c, "undo_loop") \/ Go(c, "undo_orchestration")
  BY DEF LookForRuns, At, Undoing
<1> QED
  BY <1>1, OneOfUndoing DEF Undoing

LEMMA UndoOne ==
  ASSUME NEW c \in Callers, Sole(c), UndoLoop(c) \/ UndoOrchestration(c) \/ UndoRole(c)
  PROVE  One(c)'
<1>1. PICK pc \in Undoing, kind \in Kinds, next \in Undoing : Undo(c, pc, kind, next)
  BY DEF UndoLoop, UndoOrchestration, UndoRole, Undoing, Kinds
<1> DEFINE g == call[c].new
           a == IF asset[g].has \subseteq {kind} THEN Gone ELSE [asset[g] EXCEPT !.has = @ \ {kind}]
<1>2. /\ call[c].pc \in Undoing /\ Go(c, next) /\ UNCHANGED row
      /\ asset' = [asset EXCEPT ![g] = a] \/ asset' = asset
  BY <1>1 DEF Undo, At, Become
<1> HIDE DEF a
<1>3. g # row /\ (row # None => row \in Ids) /\ asset \in [Ids -> Asset]
  BY <1>2, ImportKnown, CallKnown DEF Sole
<1>4. row # None => asset'[row] = asset[row]
  BY <1>2, <1>3
<1> QED
  BY <1>2, <1>4, OneOfUndoing

LEMMA UndoDirOne ==
  ASSUME NEW c \in Callers, Sole(c), UndoDir(c), ~past'.torn PROVE One(c)'
<1>0. ~Torn
  BY DEF Torn, Sole, Basics, TypeOK, Past
<1>1. call[c].pc \in Undoing /\ disk' = DirRestored(c) /\ Return(c) /\ UNCHANGED <<row, asset>>
  BY <1>0 DEF UndoDir, At, Undoing
<1>2. row = call[c].old /\ Agreed(IF call[c].old = None THEN NoDisk ELSE call[c].saved)
  BY <1>1, ImportKnown
<1>3. Agreed(disk)'
  BY <1>1, <1>2 DEF Agreed, Tells, DirRestored
<1> QED
  BY <1>1, <1>3, ReturnKeeps DEF Sole

LEMMA OneOfDelete ==
  ASSUME NEW c \in Callers, 
         (call'[c].pc = "erase" /\ row' # None) \/ (call'[c].pc = "clear" /\ row' = None)
  PROVE  One(c)'
  BY DEF One, DeleteAlone, Importing, Committed, Building, Undoing, Deleting, Editing, Reading,
     OfRoles

LEMMA DeleteOne ==
  ASSUME NEW c \in Callers, Sole(c), DeleteStep(c), ~past'.torn
  PROVE  One(c)'
<1>1. Basics /\ TypeOK
  BY DEF Sole, Basics
<1>2. CASE Delete(c)
  <2> DEFINE new == [IdleCall EXCEPT !.op = "delete", !.pc = "erase", !.old = row]
  <2>1. row # None /\ UNCHANGED row /\ Begin(c, new)
    BY <1>2 DEF Delete
  <2>2. new \in Call /\ new.pc = "erase"
    BY <1>1, CallKnown, Constant DEF IdleCall, Call
  <2> HIDE DEF new
  <2>3. call'[c] = new
    BY <1>1, <2>1, <2>2, BeginTypes
  <2> QED
    BY <2>1, <2>2, <2>3, OneOfDelete
<1>3. CASE EraseGraph(c)
  <2>1. call[c].pc = "erase" /\ row # None
    BY <1>3 DEF EraseGraph, At, Sole, One, DeleteAlone, Deleting
  <2>2. row' = None /\ Go(c, "clear")
    BY <1>3, <2>1 DEF EraseGraph
  <2> QED
    BY <1>1, <2>2, GoKeeps, OneOfDelete
<1>4. CASE ClearDir(c)
  <2>1. call[c].pc = "clear" /\ row = None /\ UNCHANGED row /\ disk' = NoDisk /\ Return(c)
    BY <1>4 DEF ClearDir, Torn, At, Sole, Basics, TypeOK, Past, One, DeleteAlone, Deleting
  <2>2. Agreed(disk)'
    BY <2>1 DEF Agreed
  <2> QED
    BY <1>1, <2>1, <2>2, ReturnKeeps
<1> QED
  BY <1>2, <1>3, <1>4 DEF DeleteStep

-----------------------------------------------------------------------------
(* An edit on its own.                                                     *)

\* Where an edit of a role stands when it fails, or reads the row anew.
LEMMA RevertOne ==
  ASSUME NEW c \in Callers, Sole(c), call[c].pc \in Editing, call[c].op = "role",
         NEW pc \in {"touch", "revert"}, Go(c, pc), UNCHANGED <<row, asset, disk>>
  PROVE  One(c)'
<1>1. call'[c].pc = pc /\ call'[c].op = "role" /\ call'[c].undoing = call[c].undoing
      /\ call'[c].prior = call[c].prior
  BY GoKeeps DEF Sole
<1>2. RoleAlone(call[c])
  BY EditKnown
<1>3. UpdateAlone(call[c])' /\ RoleAlone(call[c])'
  BY <1>1, <1>2 DEF UpdateAlone, RoleAlone
<1> QED
  BY <1>1, <1>3, OneOfEdit DEF Editing, OfRoles

\* The directory says what the row's graph says, at the end of an edit.
LEMMA DoneOne ==
  ASSUME NEW c \in Callers, Sole(c), call[c].pc \in Editing, Return(c), UNCHANGED row,
         LET a == asset'[row]
         IN  /\ disk' = [there |-> TRUE, spec |-> a.spec,
                         yaml |-> [loop |-> row, spec |-> a.spec, snap |-> a.snap]]
             /\ a.spec # None /\ a.snap = a.role /\ a.told = a.role
  PROVE  One(c)'
<1>1. row # None
  BY EditKnown
<1>2. Agreed(disk)'
  BY <1>1 DEF Agreed, Tells
<1> QED
  BY <1>2, ReturnKeeps DEF Sole

LEMMA SnapshotOne ==
  ASSUME NEW c \in Callers, Basics, row # None, NEW new \in Call, NEW text \in Texts,
         call'[c] = Snapshot(new, text), UNCHANGED <<row, asset, disk>>,
         new.op \in {"update", "role"}, new.undoing => new.op = "role", text # None,
         LET a == asset[row]
         IN  /\ new.op = "update" => disk.there /\ a.told = a.role
             /\ new.op = "role" => /\ disk = [there |-> TRUE, spec |-> a.spec,
                                       yaml |-> [loop |-> row, spec |-> a.spec, snap |-> new.prior]]
                                   /\ a.spec # None /\ text = a.spec
             /\ new.undoing => a.role = new.prior
  PROVE  One(c)'
<1>1. /\ call'[c].op = new.op /\ call'[c].pc = "refresh" /\ call'[c].text = text
      /\ call'[c].role = asset[row].role /\ call'[c].prior = new.prior
      /\ call'[c].undoing = new.undoing /\ call'[c].stale = (asset[row].role # asset[row].told)
  BY SnapshotFits
<1>2. UpdateAlone(call[c])'
  BY <1>1 DEF UpdateAlone
<1>3. RoleAlone(call[c])'
  BY <1>1 DEF RoleAlone
<1> QED
  BY <1>1, <1>2, <1>3, OneOfEdit DEF Editing, Reading

LEMMA UpdateOne ==
  ASSUME NEW c \in Callers, Sole(c), call[c].pc = "idle", Update(c)
  PROVE  One(c)'
<1> DEFINE idle == [IdleCall EXCEPT !.op = "update"]
<1>1. PICK text \in {disk.spec, Fresh} \ {None} :
        text \in Ids /\ Begin(c, Snapshot(idle, text))
  BY DEF Update
<1>2. idle \in Call /\ idle.op = "update" /\ ~idle.undoing
  BY Constant DEF IdleCall, Call
<1>3. row # None /\ UNCHANGED <<row, asset, disk>> /\ Basics /\ TypeOK /\ Agreed(disk)
  BY DEF Update, Readable, Sole, One, Basics
<1>4. disk.there /\ asset[row].told = asset[row].role
  BY <1>3 DEF Agreed, Tells
<1> HIDE DEF idle
<1>5. Snapshot(idle, text) \in Call
  BY <1>1, <1>2, <1>3, SnapshotFits, Constant
<1>6. call'[c] = Snapshot(idle, text)
  BY <1>1, <1>3, <1>5, BeginTypes
<1> QED
  BY <1>1, <1>2, <1>3, <1>4, <1>6, SnapshotOne, Constant

LEMMA UpdateRoleOne ==
  ASSUME NEW c \in Callers, Sole(c), call[c].pc = "idle", UpdateRole(c)
  PROVE  One(c)'
<1> DEFINE new == [IdleCall EXCEPT !.op = "role", !.pc = "set", !.old = row, !.text = Fresh,
                                   !.prior = asset[row].role]
<1>1. /\ Begin(c, new) /\ row # None /\ made < MaxIds /\ UNCHANGED <<row, asset, disk>>
      /\ Basics /\ TypeOK /\ Agreed(disk)
  BY DEF UpdateRole, Sole, One, Basics
<1>2. row \in Texts /\ asset[row].role \in Texts /\ Fresh \in Texts
  BY <1>1, CallKnown, BundleAssumption DEF Texts, Asset, Fresh, Ids, None
<1>3. /\ new \in Call /\ new.op = "role" /\ new.pc = "set"
      /\ ~new.undoing /\ new.prior = asset[row].role
  BY <1>2, Constant DEF IdleCall, Call
<1> HIDE DEF new
<1>4. call'[c] = new
  BY <1>1, <1>3, BeginTypes
<1>5. Tells(disk, row, asset[row])
  BY <1>1 DEF Agreed
<1>6. UpdateAlone(call[c])' /\ RoleAlone(call[c])'
  BY <1>1, <1>3, <1>4, <1>5 DEF UpdateAlone, RoleAlone, Tells
<1> QED
  BY <1>3, <1>4, <1>6, OneOfEdit DEF Editing, OfRoles

LEMMA SetRoleOne == ASSUME NEW c \in Callers, Sole(c), SetRole(c) PROVE One(c)'
<1>1. /\ call[c].pc = "set" /\ call[c].pc \in Editing /\ call[c].pc \in OfRoles
      /\ UNCHANGED <<row, disk>>
  BY DEF SetRole, At, Editing, OfRoles
<1>2. /\ row = call[c].old /\ row \in Ids /\ asset[row] \in Asset /\ asset[row].has = Kinds
      /\ RoleAlone(call[c]) /\ call[c].op = "role" /\ ~call[c].undoing
  BY <1>1, EditKnown
<1>3. Go(c, "touch") /\ asset' = [asset EXCEPT ![row].role = call[c].text]
  BY <1>2 DEF SetRole, Kinds
<1>4. asset'[row].spec = asset[row].spec
  BY <1>2, <1>3, CallKnown DEF Sole, Asset
<1>5. /\ call'[c].pc = "touch" /\ call'[c].op = "role" /\ call'[c].prior = call[c].prior
      /\ ~call'[c].undoing
  BY <1>2, <1>3, GoKeeps DEF Sole
<1>6. UpdateAlone(call[c])' /\ RoleAlone(call[c])'
  BY <1>1, <1>2, <1>4, <1>5 DEF UpdateAlone, RoleAlone
<1> QED
  BY <1>5, <1>6, OneOfEdit DEF Editing, OfRoles

LEMMA TouchOne == ASSUME NEW c \in Callers, Sole(c), Touch(c) PROVE One(c)'
<1>1. /\ call[c].pc = "touch" /\ call[c].pc \in Editing /\ call[c].pc \in OfRoles
      /\ UNCHANGED <<row, asset, disk>>
  BY DEF Touch, At, Editing, OfRoles
<1>2. /\ row = call[c].old /\ row # None /\ RoleAlone(call[c]) /\ call[c].op = "role"
      /\ ~call[c].undoing
  BY <1>1, EditKnown
<1>3. CASE call' = [call EXCEPT ![c] = Snapshot(@, disk.spec)] /\ disk.spec # None
  <2>1. call'[c] = Snapshot(call[c], disk.spec) /\ call[c] \in Call /\ disk.spec \in Texts /\ Basics
    BY <1>3, CallKnown DEF Sole, Basics, TypeOK, Disk
  <2>2. disk.spec = asset[row].spec
    BY <1>2 DEF RoleAlone
  <2> QED
    BY <1>1, <1>2, <1>3, <2>1, <2>2, SnapshotOne DEF RoleAlone
<1>4. CASE Raise(c)
  BY <1>1, <1>2, <1>4, RevertOne DEF Raise, AfterError
<1> QED
  BY <1>2, <1>3, <1>4 DEF Touch

LEMMA RefreshOrchestrationOne ==
  ASSUME NEW c \in Callers, Sole(c), RefreshOrchestration(c) PROVE One(c)'
<1>1. call[c].pc = "refresh" /\ call[c].pc \in Editing /\ UNCHANGED <<row, disk>>
  BY DEF RefreshOrchestration, At, Editing, Reading
<1>2. /\ row = call[c].old /\ row \in Ids /\ asset[row] \in Asset /\ asset[row].has = Kinds
      /\ UpdateAlone(call[c]) /\ RoleAlone(call[c]) /\ call[c].op \in {"update", "role"}
      /\ call[c].undoing => call[c].op = "role"
  BY <1>1, EditKnown
<1>3. call[c].role = asset[row].role /\ (call[c].op = "update" => ~call[c].stale)
      /\ call[c].stale = (asset[row].role # asset[row].told)
  BY <1>1, <1>2, CallKnown DEF UpdateAlone, RoleAlone, Sole, Call
<1>4. Go(c, "files") /\ asset' \in {asset, [asset EXCEPT ![row].told = call[c].role]}
      /\ (call[c].stale => asset' = [asset EXCEPT ![row].told = call[c].role])
      /\ (~call[c].stale => asset' = asset)
  BY <1>2, <1>3 DEF RefreshOrchestration, Kinds
<1> DEFINE a == asset'[row]
<1>5. /\ a.spec = asset[row].spec /\ a.role = asset[row].role /\ a.snap = asset[row].snap
      /\ a.told = a.role
  <2>1. asset \in [Ids -> Asset]
    BY CallKnown DEF Sole
  <2>2. CASE call[c].stale
    BY <1>2, <1>3, <1>4, <2>1, <2>2 DEF Asset
  <2>3. CASE ~call[c].stale
    BY <1>2, <1>3, <1>4, <2>3
  <2> QED
    BY <2>2, <2>3
<1>6. /\ call'[c].pc = "files" /\ call'[c].op = call[c].op /\ call'[c].prior = call[c].prior
      /\ call'[c].undoing = call[c].undoing /\ call'[c].text = call[c].text
      /\ call'[c].role = call[c].role
  BY <1>4, GoKeeps DEF Sole
<1> HIDE DEF a
<1>7. UpdateAlone(call[c])'
  BY <1>1, <1>2, <1>5, <1>6 DEF UpdateAlone, a
<1>8. RoleAlone(call[c])'
  BY <1>1, <1>2, <1>5, <1>6 DEF RoleAlone, a
<1> QED
  BY <1>6, <1>7, <1>8, OneOfEdit DEF Editing, Reading

LEMMA WriteFilesOne == ASSUME NEW c \in Callers, Sole(c), WriteFiles(c) PROVE One(c)'
<1>1. /\ call[c].pc = "files" /\ call[c].pc \in Editing
      /\ Go(c, "contract") /\ UNCHANGED <<row, asset>>
      /\ disk' = [disk EXCEPT !.there = TRUE, !.spec = call[c].text]
  BY DEF WriteFiles, At, Editing, Reading
<1>2. UpdateAlone(call[c]) /\ RoleAlone(call[c]) /\ disk \in Disk
  BY <1>1, EditKnown, CallKnown DEF Sole
<1>3. disk'.there /\ disk'.spec = call[c].text /\ disk'.yaml = disk.yaml /\ disk' \in Disk
  BY <1>1, <1>2, CallKnown DEF Disk, Sole, Call
<1>4. /\ call'[c].pc = "contract" /\ call'[c].op = call[c].op /\ call'[c].prior = call[c].prior
      /\ call'[c].undoing = call[c].undoing /\ call'[c].text = call[c].text
      /\ call'[c].role = call[c].role
  BY <1>1, GoKeeps DEF Sole
<1>5. UpdateAlone(call[c])'
  BY <1>1, <1>2, <1>3, <1>4 DEF UpdateAlone
<1>6. RoleAlone(call[c])'
  <2>1. SUFFICES ASSUME call[c].op = "role" PROVE RoleAlone(call[c])'
    BY <1>4 DEF RoleAlone
  <2>2. disk.yaml = [loop |-> row, spec |-> asset[row].spec, snap |-> call[c].prior]
        /\ call[c].text = asset[row].spec
    BY <1>1, <1>2, <2>1 DEF RoleAlone
  <2>3. disk' = [there |-> TRUE, spec |-> asset[row].spec,
                 yaml |-> [loop |-> row, spec |-> asset[row].spec, snap |-> call[c].prior]]
    BY <1>3, <2>2, DiskIs
  <2> QED
    BY <1>1, <1>2, <1>4, <2>1, <2>3 DEF RoleAlone
<1> QED
  BY <1>4, <1>5, <1>6, OneOfEdit DEF Editing, Reading

LEMMA UpdateContractOne == ASSUME NEW c \in Callers, Sole(c), UpdateContract(c) PROVE One(c)'
<1> DEFINE new == [call[c] EXCEPT !.pc = "save", !.text = None, !.role = None, !.stale = FALSE]
<1>1. call[c].pc = "contract" /\ call[c].pc \in Editing /\ UNCHANGED <<row, disk>>
  BY DEF UpdateContract, At, Editing, Reading
<1>2. /\ row = call[c].old /\ row \in Ids /\ asset[row] \in Asset /\ asset[row].has = Kinds
      /\ UpdateAlone(call[c]) /\ RoleAlone(call[c]) /\ call[c].op \in {"update", "role"}
      /\ call[c].undoing => call[c].op = "role"
  BY <1>1, EditKnown
<1>3. /\ asset' = [asset EXCEPT ![row].spec = call[c].text, ![row].snap = call[c].role]
      /\ IF call[c].undoing THEN Return(c) ELSE call' = [call EXCEPT ![c] = new]
  BY <1>2, CallKnown DEF UpdateContract, Kinds, Sole
<1> DEFINE a == asset'[row]
<1>4. /\ a.spec = call[c].text /\ a.snap = call[c].role /\ a.role = asset[row].role
      /\ a.told = asset[row].told
  BY <1>2, <1>3, CallKnown DEF Sole, Asset
<1>5. /\ new.pc = "save" /\ new.op = call[c].op /\ new.prior = call[c].prior
      /\ new.undoing = call[c].undoing
  BY CallKnown DEF Sole, Call
<1> HIDE DEF a, new
<1>6. CASE call[c].undoing
  <2>1. /\ disk' = [there |-> TRUE, spec |-> a.spec,
                    yaml |-> [loop |-> row, spec |-> a.spec, snap |-> a.snap]]
        /\ a.spec # None /\ a.snap = a.role /\ a.told = a.role
    BY <1>1, <1>2, <1>4, <1>6 DEF RoleAlone
  <2> QED
    BY <1>1, <1>3, <1>6, <2>1, DoneOne DEF a
<1>7. CASE ~call[c].undoing
  <2>1. call'[c] = new
    BY <1>3, <1>7, BasicsType DEF Sole, TypeOK
  <2>2. UpdateAlone(call[c])'
    BY <1>1, <1>2, <1>4, <1>5, <1>7, <2>1 DEF UpdateAlone, a
  <2>3. RoleAlone(call[c])'
    BY <1>1, <1>2, <1>4, <1>5, <1>7, <2>1 DEF RoleAlone, a
  <2> QED
    BY <1>5, <2>1, <2>2, <2>3, OneOfEdit DEF Editing, Reading
<1> QED
  BY <1>6, <1>7

LEMMA SaveRowOne == ASSUME NEW c \in Callers, Sole(c), SaveRow(c) PROVE One(c)'
<1>1. call[c].pc = "save" /\ call[c].pc \in Editing /\ UNCHANGED <<asset, disk>>
  BY DEF SaveRow, At, Editing, Reading
<1>2. row = call[c].old /\ row # None /\ UpdateAlone(call[c]) /\ RoleAlone(call[c])
  BY <1>1, EditKnown
<1>3. row' = row /\ Go(c, "sync")
  BY <1>2 DEF SaveRow
<1>4. /\ call'[c].pc = "sync" /\ call'[c].op = call[c].op /\ call'[c].prior = call[c].prior
      /\ call'[c].undoing = call[c].undoing
  BY <1>3, GoKeeps DEF Sole
<1>5. UpdateAlone(call[c])' /\ RoleAlone(call[c])'
  BY <1>1, <1>2, <1>3, <1>4 DEF UpdateAlone, RoleAlone
<1> QED
  BY <1>4, <1>5, OneOfEdit DEF Editing, Reading

LEMMA SyncYamlOne == ASSUME NEW c \in Callers, Sole(c), SyncYaml(c) PROVE One(c)'
<1>1. call[c].pc = "sync" /\ call[c].pc \in Editing /\ UNCHANGED <<row, asset>>
  BY DEF SyncYaml, At, Editing, Reading
<1>2. /\ LoopNamed /\ UpdateAlone(call[c]) /\ RoleAlone(call[c])
      /\ call[c].op \in {"update", "role"} /\ disk \in Disk
  BY <1>1, EditKnown, CallKnown DEF Sole
<1> DEFINE a == asset[row]
<1>3. /\ disk.there /\ disk.spec = a.spec /\ a.spec # None /\ a.snap = a.role /\ a.told = a.role
  BY <1>1, <1>2 DEF UpdateAlone, RoleAlone
<1>4. CASE disk' = [disk EXCEPT !.there = TRUE, !.yaml = ExportOf(row)] /\ Return(c)
  <2>1. disk'.there /\ disk'.spec = a.spec
        /\ disk'.yaml = [loop |-> row, spec |-> a.spec, snap |-> a.snap]
    BY <1>2, <1>3, <1>4 DEF Disk, ExportOf
  <2>2. row \in Ids
    BY <1>1, EditKnown
  <2>3. ExportOf(row) \in Export
    BY <2>2, ExportIsExport, BasicsType DEF Sole
  <2>4. disk' \in Disk
    BY <1>2, <1>4, <2>3 DEF Disk
  <2>5. disk' = [there |-> TRUE, spec |-> a.spec,
                 yaml |-> [loop |-> row, spec |-> a.spec, snap |-> a.snap]]
    BY <2>1, <2>4, DiskIs
  <2> QED
    BY <1>1, <1>3, <1>4, <2>5, DoneOne
<1>5. CASE call[c].op # "update" /\ Raise(c) /\ UNCHANGED disk
  <2>1. call[c].op = "role"
    BY <1>2, <1>5
  <2>2. CASE ~call[c].undoing
    BY <1>1, <1>5, <2>1, <2>2, RevertOne DEF Raise, AfterError
  <2>3. CASE call[c].undoing
    <3>1. Return(c)
      BY <1>5, <2>3 DEF Raise, AfterError
    <3>2. disk = [there |-> TRUE, spec |-> a.spec,
                  yaml |-> [loop |-> row, spec |-> a.spec, snap |-> a.snap]]
      BY <1>2, <1>3, <2>1, <2>3 DEF RoleAlone
    <3> QED
      BY <1>1, <1>3, <1>5, <3>1, <3>2, DoneOne
  <2> QED
    BY <2>2, <2>3
<1> QED
  BY <1>2, <1>4, <1>5 DEF SyncYaml

LEMMA RevertsOne == ASSUME NEW c \in Callers, Sole(c), Revert(c) PROVE One(c)'
<1>1. /\ call[c].pc = "revert" /\ call[c].pc \in Editing /\ Go(c, "resync")
      /\ UNCHANGED <<row, disk>>
  BY DEF Revert, At, Editing, OfRoles
<1>2. /\ row = call[c].old /\ row \in Ids /\ asset[row] \in Asset /\ asset[row].has = Kinds
      /\ RoleAlone(call[c]) /\ call[c].op = "role"
  BY <1>1, EditKnown DEF OfRoles
<1>3. asset' = [asset EXCEPT ![row] = [asset[row] EXCEPT !.role = call[c].prior]]
  BY <1>2, CallKnown DEF Revert, Kinds, Sole
<1>4. asset'[row].spec = asset[row].spec /\ asset'[row].role = call[c].prior
  BY <1>2, <1>3, CallKnown DEF Sole, Asset
<1>5. /\ call'[c].pc = "resync" /\ call'[c].op = "role" /\ call'[c].prior = call[c].prior
      /\ call'[c].undoing = call[c].undoing
  BY <1>1, <1>2, GoKeeps DEF Sole
<1>6. UpdateAlone(call[c])' /\ RoleAlone(call[c])'
  BY <1>1, <1>2, <1>4, <1>5 DEF UpdateAlone, RoleAlone
<1> QED
  BY <1>5, <1>6, OneOfEdit DEF Editing, OfRoles

LEMMA ResyncOne == ASSUME NEW c \in Callers, Sole(c), Resync(c) PROVE One(c)'
<1>1. /\ call[c].pc = "resync" /\ call[c].pc \in Editing /\ UNCHANGED <<row, asset, disk>>
  BY DEF Resync, At, Editing, OfRoles
<1>2. /\ Readable /\ row # None /\ RoleAlone(call[c]) /\ call[c].op = "role"
  BY <1>1, EditKnown DEF OfRoles
<1>3. disk.spec = asset[row].spec /\ disk.spec # None /\ asset[row].role = call[c].prior
  BY <1>1, <1>2 DEF RoleAlone
<1> DEFINE me == [call[c] EXCEPT !.undoing = TRUE]
<1>4. call' = [call EXCEPT ![c] = Snapshot(me, disk.spec)]
  BY <1>2, <1>3 DEF Resync
<1>5. me \in Call /\ me.op = "role" /\ me.prior = call[c].prior
  BY <1>2, CallKnown DEF Sole, Call
<1> HIDE DEF me
<1>6. call'[c] = Snapshot(me, disk.spec) /\ disk.spec \in Texts /\ Basics
  BY <1>4, CallKnown DEF Sole, Basics, TypeOK, Disk
<1> QED
  BY <1>1, <1>2, <1>3, <1>5, <1>6, SnapshotOne DEF RoleAlone

-----------------------------------------------------------------------------
(* The invariant is kept.                                                  *)

CallerStep(c) == ImportStep(c) \/ RollbackStep(c) \/ DeleteStep(c) \/ EditStep(c) \/ Die(c)

LEMMA CallersFollow ==
  ASSUME Basics, NEW c \in Callers, CallerStep(c)
  PROVE  /\ Basics' /\ PastMoves
         /\ Parted /\ ~past'.crossed => Parted'
         /\ Apart /\ ~past'.crossed /\ ~past'.undone => Apart'
<1>1. CASE Import(c)
  BY <1>1, BasicsOfImport, PartedOfImport, ApartOfImport, ImportBegins
<1>2. CASE ~Import(c)
  <2>1. Moves(c)
    BY <1>2, CallersMove DEF CallerStep
  <2> QED
    BY <2>1, BasicsFollow, PartedFollows, ApartFollows DEF Moves, CallMoves
<1> QED
  BY <1>1, <1>2

LEMMA OneFollows ==
  ASSUME NEW c \in Callers, Sole(c), CallerStep(c), ~past'.died, ~past'.undone, ~past'.torn
  PROVE  One(c)'
<1>1. ~Die(c)
  BY DEF Die, Sole, Basics, TypeOK, Past
<1>2. CASE ImportStep(c)
  <2>1. Import(c) => call[c].pc = "idle"
    BY DEF Import, Begin, Busy
  <2> QED
    BY <1>2, <2>1, ImportOne, WriteSpecOne, CreateRoleOne, CreateOrchestrationOne, CreateLoopOne,
       WriteYamlOne, CommitImportOne, ConfirmImportOne, FailImportOne,
       FailAfterCommitOne DEF ImportStep
<1>3. CASE RollbackStep(c)
  BY <1>3, RestoreRowOne, LookForRunsOne, UndoOne, UndoDirOne DEF RollbackStep
<1>4. CASE DeleteStep(c)
  BY <1>4, DeleteOne
<1>5. CASE EditStep(c)
  <2>1. Update(c) \/ UpdateRole(c) => call[c].pc = "idle"
    BY DEF Update, UpdateRole, Begin, Busy
  <2> QED
    BY <1>5, <2>1, UpdateOne, UpdateRoleOne, SetRoleOne, TouchOne, RefreshOrchestrationOne,
       WriteFilesOne, UpdateContractOne, SaveRowOne, SyncYamlOne, RevertsOne, ResyncOne
       DEF EditStep
<1> QED
  BY <1>1, <1>2, <1>3, <1>4, <1>5 DEF CallerStep

\* A step of an idle caller begins an operation.
LEMMA IdleBegins ==
  ASSUME Basics, NEW c \in Callers, CallerStep(c), call[c].pc = "idle", ~past'.overlap
  PROVE  \A d \in Callers : call[d].pc = "idle"
<1>1. \E new : Begin(c, new)
  <2>1. CASE ImportStep(c)
    BY <2>1 DEF ImportStep, Import, WriteSpec, CreateRole, CreateOrchestration, CreateLoop,
       WriteYaml,
       CommitImport, ConfirmImport, FailImport, FailAfterCommit, At
  <2>2. ~RollbackStep(c)
    BY DEF RollbackStep, RestoreRow, LookForRuns, UndoLoop, UndoOrchestration, UndoRole, Undo,
       UndoDir, At
  <2>3. CASE DeleteStep(c)
    BY <2>3 DEF DeleteStep, Delete, EraseGraph, ClearDir, At
  <2>4. CASE EditStep(c)
    <3>1. Update(c) \/ UpdateRole(c)
      BY <2>4 DEF EditStep, SetRole, Touch, RefreshOrchestration, WriteFiles, UpdateContract,
         SaveRow,
         SyncYaml, Revert, Resync, At
    <3> QED
      BY <3>1 DEF Update, UpdateRole
  <2>5. ~Die(c)
    BY DEF Die, Busy
  <2> QED
    BY <2>1, <2>2, <2>3, <2>4, <2>5 DEF CallerStep
<1>2. PICK new : Begin(c, new)
  BY <1>1
<1>3. past \in Past
  BY DEF Basics, TypeOK
<1> DEFINE o == \E d \in Callers : Busy(d)
           x == \E d \in Callers : Busy(d) /\ Edits(call[d].op) # Edits(new.op)
<1>4. past' = [past EXCEPT !.overlap = @ \/ o, !.crossed = @ \/ x] /\ o \in BOOLEAN
  BY <1>2 DEF Begin
<1> HIDE DEF o, x
<1>5. ~o
  BY <1>3, <1>4 DEF Past
<1> QED
  BY <1>5 DEF o, Busy

LEMMA AloneFollows ==
  ASSUME Basics, Apart, Alone, NEW c \in Callers, CallerStep(c), ~past'.overlap, ~past'.died,
         ~past'.undone, ~past'.torn
  PROVE  Alone'
<1>1. \A d \in Callers \ {c} : call[d].pc = "idle"
  BY IdleBegins DEF Alone, Busy
<1>2. One(c)
  BY <1>1 DEF Alone, Quiet, Busy, One
<1>3. One(c)'
  BY <1>2, OneFollows DEF Sole
<1>4. \A d \in Callers \ {c} : call'[d] = call[d]
  <2>1. CASE Import(c)
    BY <2>1, ImportBegins
  <2>2. CASE ~Import(c)
    BY <2>2, CallersMove, OthersStay DEF CallerStep
  <2> QED
    BY <2>1, <2>2
<1>5. \A d \in Callers \ {c} : call'[d].pc = "idle"
  BY <1>1, <1>4
<1>6. "idle" \notin Importing \cup Deleting \cup Editing
  BY DEF Importing, Committed, Building, Undoing, Deleting, Editing, Reading, OfRoles
<1> QED
  BY <1>3, <1>5, <1>6 DEF Alone, One, Quiet, Busy

-----------------------------------------------------------------------------
(* An import on its own is undone after its commit.                        *)

\* What sees to it that past.undone is set.
LEMMA WhoUndoes ==
  ASSUME Basics, NEW c \in Callers, CallerStep(c), ~past.undone, past'.undone
  PROVE  FailAfterCommit(c) \/ RestoreRow(c)
<1>1. past \in Past /\ ~UNCHANGED past /\ ~Torn
  BY DEF Basics, TypeOK, Past, Torn
<1>2. ASSUME NEW new PROVE ~Begin(c, new)
  BY <1>1 DEF Begin, Past
<1>3. CASE ImportStep(c)
  BY <1>1, <1>2, <1>3 DEF ImportStep, Import, WriteSpec, CreateRole, CreateOrchestration,
     CreateLoop, WriteYaml, CommitImport, ConfirmImport, FailImport
<1>4. CASE RollbackStep(c)
  <2>1. ~LookForRuns(c)
    BY <1>1 DEF LookForRuns, Past
  <2>2. ~UndoLoop(c) /\ ~UndoOrchestration(c) /\ ~UndoRole(c)
    BY <1>1 DEF UndoLoop, UndoOrchestration, UndoRole, Undo, Past
  <2> QED
    BY <1>1, <1>4, <2>1, <2>2 DEF RollbackStep, UndoDir
<1>5. ~DeleteStep(c)
  BY <1>1, <1>2 DEF DeleteStep, Delete, EraseGraph, ClearDir
<1>6. ~EditStep(c)
  BY <1>1, <1>2 DEF EditStep, Update, UpdateRole, SetRole, Touch, RefreshOrchestration,
     WriteFiles, UpdateContract, SaveRow, SyncYaml, Revert, Resync
<1>7. ~Die(c)
  BY <1>1 DEF Die, Past
<1> QED
  BY <1>3, <1>4, <1>5, <1>6, <1>7 DEF CallerStep

LEMMA SerialFollows ==
  ASSUME Basics, Serial, NEW c \in Callers, CallerStep(c), ~past'.overlap
  PROVE  Serial'
<1>1. \A d \in Callers \ {c} : call[d].pc = "idle"
  BY IdleBegins DEF Serial, Busy
<1>2. CASE Import(c)
  BY <1>1, <1>2, ImportBegins DEF Serial, Busy, Committed
<1>3. CASE ~Import(c)
  <2>1. Moves(c)
    BY <1>3, CallersMove DEF CallerStep
  <2>2. \A d \in Callers \ {c} : call'[d].pc = "idle"
    BY <1>1, <2>1 DEF Moves, CallMoves
  <2>3. CASE call'[c].pc = "confirm"
    <3>1. call'[c].new = call[c].new /\ row' = call[c].new
      BY <2>1, <2>3 DEF Moves, CallMoves, RowMoves, Importing, Committed
    <3> QED
      BY <2>2, <3>1 DEF Serial, Busy, Committed
  <2>4. CASE call'[c].pc = "restore"
    <3>1. call'[c].new = call[c].new /\ call[c].pc = "confirm" /\ row' = row
      BY <2>1, <2>4 DEF Moves, CallMoves, RowMoves, Importing, Committed
    <3> QED
      BY <2>2, <3>1 DEF Serial, Busy, Committed
  <2>5. CASE call'[c].pc \notin Committed
    BY <2>2, <2>5 DEF Serial, Busy, Committed
  <2> QED
    BY <2>3, <2>4, <2>5 DEF Committed
<1> QED
  BY <1>2, <1>3

LEMMA WreckBegins ==
  ASSUME Basics, Apart, Serial, NEW c \in Callers, CallerStep(c), ~past.undone, past'.undone,
         ~past.died, ~past.kept
  PROVE  Wrecked'
<1>1. call[c].pc \in Committed /\ call[c].pc \in Importing
  BY WhoUndoes DEF FailAfterCommit, RestoreRow, At, Committed, Importing
<1>2. \A d \in Callers \ {c} : call[d].pc = "idle"
  BY <1>1 DEF Serial, Busy, Committed
<1>3. row = call[c].new /\ row \in Ids /\ row # None /\ Accounted
  BY <1>1, CallKnown, Constant DEF Serial, Apart
<1>4. /\ Go(c, "look") /\ asset' = asset /\ row' # None
  <2>1. CASE FailAfterCommit(c)
    BY <1>3, <2>1 DEF FailAfterCommit, Basics, TypeOK, Past
  <2>2. CASE RestoreRow(c)
    <3>1. call[c].old # None
      BY <2>2, CallKnown DEF RestoreRow, At, CallFits
    <3> QED
      BY <1>3, <2>2, <3>1 DEF RestoreRow, Basics, TypeOK, Past
  <2> QED
    BY <2>1, <2>2, WhoUndoes
<1>5. call'[c].pc = "look" /\ call'[c].new = call[c].new
  BY <1>4, GoKeeps
<1>6. \A d \in Callers \ {c} : call'[d].pc = "idle"
  <2>1. \A d \in Callers \ {c} : call'[d] = call[d]
    BY <1>4 DEF Go, Basics, TypeOK
  <2> QED
    BY <1>2, <2>1
<1>7. asset'[call'[c].new].has \subseteq Undone("look")
  BY <1>1, <1>4, <1>5, CallKnown DEF Asset, Undone
<1>8. ASSUME NEW g \in Ids, asset'[g].has # {} PROVE call'[c].new = g
  BY <1>2, <1>3, <1>4, <1>5, <1>8 DEF Accounted, Importing, Committed, Building, Undoing
<1> QED
  BY <1>4, <1>5, <1>6, <1>7, <1>8 DEF Wrecked, Busy, Undoing

LEMMA WreckStays ==
  ASSUME Basics, Wrecked, NEW c \in Callers, CallerStep(c), ~past'.overlap, ~past'.died,
         ~past'.kept
  PROVE  Wrecked'
<1>1. CASE call[c].pc = "idle"
  <2>1. \A d \in Callers : call[d].pc = "idle"
    BY <1>1, IdleBegins
  <2>2. row \in Ids /\ asset[row].has = {}
    BY <2>1 DEF Wrecked, Busy, Basics, TypeOK, Texts
  <2>3. ~Whole(row) /\ "role" \notin asset[row].has /\ row # None
    BY <2>2 DEF Whole, Kinds, Wrecked
  <2>4. ~ImportStep(c)
    BY <1>1, <2>3 DEF ImportStep, Import, Deletable, WriteSpec, CreateRole, CreateOrchestration,
       CreateLoop, WriteYaml, CommitImport, ConfirmImport, FailImport, FailAfterCommit, At
  <2>5. ~RollbackStep(c)
    BY <1>1 DEF RollbackStep, RestoreRow, LookForRuns, UndoLoop, UndoOrchestration, UndoRole,
       Undo, UndoDir, At
  <2>6. ~DeleteStep(c) /\ ~Die(c)
    BY <1>1, <2>3 DEF DeleteStep, Delete, Deletable, EraseGraph, ClearDir, Die, Busy, At
  <2>7. ~EditStep(c)
    BY <1>1, <2>3 DEF EditStep, Update, Readable, UpdateRole, SetRole, Touch,
       RefreshOrchestration, WriteFiles, UpdateContract, SaveRow, SyncYaml, Revert, Resync, At
  <2> QED
    BY <2>4, <2>5, <2>6, <2>7 DEF CallerStep
<1>2. CASE call[c].pc # "idle"
  <2> DEFINE g == call[c].new
  <2>1. /\ call[c].pc \in Undoing /\ asset[g].has \subseteq Undone(call[c].pc)
        /\ \A d \in Callers \ {c} : call[d].pc = "idle"
        /\ \A h \in Ids : asset[h].has # {} => h = g
        /\ call[c].pc \notin Building \cup Deleting \cup Editing \cup Committed
    BY <1>2 DEF Wrecked, Busy, Building, Undoing, Deleting, Editing, Reading, OfRoles, Committed
  <2>2. ~Import(c) /\ Moves(c)
    <3>1. ~Import(c)
      BY <1>2 DEF Import, Begin, Busy
    <3> QED
      BY <3>1, CallersMove DEF CallerStep
  <2>3. row' = row /\ \A d \in Callers \ {c} : call'[d] = call[d]
    BY <2>1, <2>2 DEF Moves, CallMoves, RowMoves, Building, Deleting, Editing, Reading, Committed
  <2>4. \A h \in Ids : asset'[h].has # {} => h = g
    BY <2>1, <2>2 DEF Moves, RowMoves, Building, Deleting, Editing, Reading, Committed
  <2>5. CASE call'[c].pc \in Undoing
    <3>1. call'[c].new = g /\ asset'[g].has \subseteq Undone(call'[c].pc)
      BY <2>1, <2>2, <2>5 DEF Moves, CallMoves, RowMoves, Importing
    <3> QED
      BY <2>1, <2>3, <2>4, <2>5, <3>1 DEF Wrecked, Busy, Undoing
  <2>6. CASE call'[c].pc \notin Undoing
    <3>1. UndoDir(c)
      <4>1. ~ImportStep(c)
        BY <2>1, <2>2 DEF ImportStep, WriteSpec, CreateRole, CreateOrchestration, CreateLoop,
           WriteYaml, CommitImport, ConfirmImport, FailImport, FailAfterCommit, At, Building,
           Undoing, Committed
      <4>2. ~RestoreRow(c)
        BY <2>1 DEF RestoreRow, At, Undoing
      <4>3. ASSUME LookForRuns(c) PROVE FALSE
        BY <2>6, <4>3, GoKeeps DEF LookForRuns, Undoing
      <4>4. ASSUME UndoLoop(c) \/ UndoOrchestration(c) \/ UndoRole(c) PROVE FALSE
        BY <2>6, <4>4, GoKeeps DEF UndoLoop, UndoOrchestration, UndoRole, Undo, Undoing
      <4>5. ~DeleteStep(c) /\ ~Die(c)
        BY <1>2, <2>1 DEF DeleteStep, Delete, Begin, Busy, EraseGraph, ClearDir, Die, At, Undoing,
           Basics, TypeOK, Past
      <4>6. ~EditStep(c)
        BY <1>2, <2>1 DEF EditStep, Update, UpdateRole, Begin, Busy, SetRole, Touch,
           RefreshOrchestration, WriteFiles, UpdateContract, SaveRow, SyncYaml, Revert, Resync,
           At, Undoing
      <4> QED
        BY <4>1, <4>2, <4>3, <4>4, <4>5, <4>6 DEF CallerStep, RollbackStep
    <3>2. call'[c].pc = "idle" /\ asset' = asset
      BY <3>1, ReturnTypes, BasicsType, Constant DEF UndoDir
    <3>3. asset[g].has = {}
      BY <2>1, <3>1 DEF UndoDir, At, Undone
    <3> QED
      BY <2>1, <2>3, <3>2, <3>3 DEF Wrecked, Busy
  <2> QED
    BY <2>5, <2>6
<1> QED
  BY <1>1, <1>2

LEMMA CallerSteps ==
  ASSUME IInv, NEW c \in Callers, CallerStep(c)
  PROVE  IInv'
<1>1. /\ Basics
      /\ ~past.crossed => Parted
      /\ ~past.crossed /\ ~past.undone => Apart
      /\ ~past.overlap /\ ~past.died /\ ~past.undone /\ ~past.torn => Alone
      /\ ~past.overlap => Serial
      /\ past.undone /\ ~past.overlap /\ ~past.died /\ ~past.kept => Wrecked
      /\ past.crossed => past.overlap
  BY DEF IInv, Basics
<1>2. /\ Basics' /\ PastMoves
      /\ Parted /\ ~past'.crossed => Parted'
      /\ Apart /\ ~past'.crossed /\ ~past'.undone => Apart'
  BY <1>1, CallersFollow
<1>3. /\ ~past'.crossed => Parted'
      /\ ~past'.crossed /\ ~past'.undone => Apart'
  BY <1>1, <1>2 DEF PastMoves
<1>4. ASSUME ~past'.overlap, ~past'.died, ~past'.undone, ~past'.torn PROVE Alone'
  <2>1. ~past.overlap /\ ~past.died /\ ~past.crossed /\ ~past.undone /\ ~past.torn
    BY <1>2, <1>4 DEF PastMoves
  <2> QED
    BY <1>1, <1>4, <2>1, AloneFollows
<1>5. ASSUME past'.undone, ~past'.overlap, ~past'.died, ~past'.kept PROVE Wrecked'
  <2>1. ~past.overlap /\ ~past.died /\ ~past.kept /\ ~past.crossed
    BY <1>1, <1>2, <1>5 DEF PastMoves
  <2>2. CASE past.undone
    BY <1>1, <1>5, <2>1, <2>2, WreckStays
  <2>3. CASE ~past.undone
    BY <1>1, <1>5, <2>1, <2>3, WreckBegins
  <2> QED
    BY <2>2, <2>3
<1>6. ASSUME ~past'.overlap PROVE Serial'
  <2>1. ~past.overlap
    BY <1>2, <1>6 DEF PastMoves
  <2> QED
    BY <1>1, <1>6, <2>1, SerialFollows
<1> QED
  BY <1>2, <1>3, <1>4, <1>5, <1>6 DEF IInv

LEMMA InitInv == Init => IInv
<1> SUFFICES ASSUME Init PROVE IInv
  OBVIOUS
<1>1. /\ \A c \in Callers : /\ call[c] = IdleCall /\ call[c].pc = "idle"
                           /\ call[c].old = None /\ call[c].new = None
      /\ \A g \in Ids : asset[g].has = {}
      /\ \A u \in Users : use[u] = NoUse
      /\ row = None /\ owned = {} /\ made = 0 /\ ~past.crossed /\ disk = NoDisk
  BY Constant DEF Init
<1>2. "idle" \notin Importing \cup Deleting \cup Editing \cup Building \cup Undoing
  BY DEF Importing, Committed, Building, Undoing, Deleting, Editing, Reading, OfRoles
<1>3. Basics
  <2>1. Fits
    BY InitTypes
  <2>2. Owns /\ Given
    BY <1>1 DEF Owns, Given, None
  <2>3. OwnGraphs /\ NoDangling
    BY <1>1, <1>2 DEF OwnGraphs, NoDangling
  <2> QED
    BY <1>1, <2>1, <2>2, <2>3 DEF Basics, Fits
<1>4. Apart /\ Parted
  BY <1>1, <1>2 DEF Apart, Parted, Kin, Busy, RowWhole, EditsTheRow, AfterCommit, Spared, Accounted
<1>5. Alone
  BY <1>1, <1>2 DEF Alone, Busy, Quiet, Agreed
<1>7. Serial
  BY <1>1 DEF Serial, Busy, Committed
<1>6. ~past.undone
  BY DEF Init
<1> QED
  BY <1>3, <1>4, <1>5, <1>6, <1>7 DEF IInv

LEMMA StutterInv == IInv /\ UNCHANGED vars => IInv'
<1> SUFFICES ASSUME IInv, UNCHANGED vars PROVE IInv'
  OBVIOUS
<1>1. UNCHANGED <<row, owned, asset, disk, use, call, made, past>>
  BY DEF vars
<1>2. use' \in [Users -> Use] /\ NoDangling' /\ (~past.crossed => Spared')
  BY <1>1 DEF IInv, Basics, TypeOK, NoDangling, Needs, Parted, Spared
<1> QED
  BY <1>1, <1>2, UsersFollow

LEMMA StepInv == IInv /\ [Next]_vars => IInv'
<1> SUFFICES ASSUME IInv, [Next]_vars PROVE IInv'
  OBVIOUS
<1>1. CASE UNCHANGED vars
  BY <1>1, StutterInv
<1>2. ASSUME NEW c \in Callers, CallerStep(c) PROVE IInv'
  BY <1>2, CallerSteps
<1>3. ASSUME NEW u \in Users, TakeUp(u) \/ GiveUp(u) PROVE IInv'
  BY <1>3, UserSteps
<1> QED
  BY <1>1, <1>2, <1>3 DEF Next, CallerStep

-----------------------------------------------------------------------------
(* Theorems.                                                               *)

\* Whatever crosses, fails or dies, in every reachable state the invariant above holds.
THEOREM InvariantHolds == Spec => []IInv
  BY InitInv, StepInv, PTL DEF Spec

\* Rows, files, references and calls keep their types.
THEOREM GraphTypes == Spec => []TypeOK
<1>1. IInv => TypeOK
  BY DEF IInv, Basics
<1> QED
  BY <1>1, InvariantHolds, PTL

\* The row of a bundle names assets that the bundle owns and that are all there, through
\* imports and deletes that cross, lose to one another, fail before their commit and die
\* half-way; only an edit that crossed one of them, and the rollback of an import that had
\* been committed, leave a row whose assets are gone.
THEOREM RowKeepsItsGraph == Spec => []RowNamesItsGraph
<1>1. IInv => RowNamesItsGraph
  BY DEF IInv, Basics, TypeOK, Texts, Apart, Owns, RowWhole, RowNamesItsGraph
<1> QED
  BY <1>1, InvariantHolds, PTL

\* What failed imports made, what replacing imports and deletes took the place of, is gone
\* when no operation is at work, unless a process died, a rollback was refused a deletion, or
\* an import was undone after its commit beside another operation.  Undone on its own, it
\* leaves no assets: no other operation begins on the row it wrote back.
THEOREM NothingIsLeftOver == Spec => []NothingLeftOver
<1>1. IInv => NothingLeftOver
  <2> SUFFICES ASSUME IInv, Quiet, ~past.crossed, ~past.died, ~past.kept,
                      ~(past.undone /\ past.overlap), NEW g \in Ids, asset[g].has # {}
               PROVE  g = row
    BY DEF NothingLeftOver
  <2>1. CASE past.undone
    <3>1. Wrecked
      BY <2>1 DEF IInv
    <3> QED
      BY <3>1 DEF Wrecked, Quiet
  <2>2. CASE ~past.undone
    <3>1. Accounted
      BY <2>2 DEF IInv, Apart
    <3>2. \A c \in Callers : call[c].pc \notin Importing
      BY DEF Quiet, Busy, Importing, Committed, Building, Undoing
    <3> QED
      BY <3>1, <3>2 DEF Accounted
  <2> QED
    BY <2>1, <2>2
<1> QED
  BY <1>1, InvariantHolds, PTL

\* After operations that did not overlap, whichever of their steps failed, an import's before
\* its commit, spec.md, bundle.yml and the rows tell one text; without a row nothing is left
\* in the directory.
THEOREM FilesAgreeWithTheRow == Spec => []FilesFollowTheRow
<1>1. IInv => FilesFollowTheRow
  BY DEF IInv, Alone, Agreed, Tells, ExportOf, FilesFollowTheRow
<1> QED
  BY <1>1, InvariantHolds, PTL

\* A step deletes no asset under a user that took it up before any import or delete at work
\* began: the preflight refuses a row's graph in use, and the graphs that imports roll back
\* had no user then.
THEOREM UsersKeepTheirGraph == Spec => UsedGraphStays
<1>1. ASSUME IInv, [Next]_vars, NEW u \in Users, use[u].of # None, ~use[u].late, ~past.crossed
      PROVE  Needs(u) \in asset'[use[u].of].has
  <2>1. Basics /\ NoDangling /\ Spared
    BY <1>1 DEF IInv, Basics, Parted
  <2>2. use[u].of \in Ids /\ Needs(u) \in asset[use[u].of].has
    BY <1>1, <2>1 DEF NoDangling, NoUse
  <2>3. ASSUME NEW c \in Callers, CallerStep(c), ~Import(c)
        PROVE  Needs(u) \in asset'[use[u].of].has
    <3>1. Moves(c)
      BY <2>1, <2>3, CallersMove DEF CallerStep
    <3>2. /\ call[c].pc \in Undoing => use[u].of # call[c].new
          /\ call[c].pc \in {"commit", "erase"} => use[u].of # row
      BY <1>1, <2>1 DEF Spared, Importing, Committed, Building, Deleting
    <3> QED
      BY <2>2, <3>1, <3>2 DEF Moves, RowMoves
  <2>4. ASSUME UNCHANGED asset PROVE Needs(u) \in asset'[use[u].of].has
    BY <2>2, <2>4
  <2>5. CASE UNCHANGED vars
    BY <2>4, <2>5 DEF vars
  <2>6. ASSUME NEW c \in Callers, Import(c) PROVE UNCHANGED asset
    BY <2>6 DEF Import
  <2>7. ASSUME NEW v \in Users, TakeUp(v) \/ GiveUp(v) PROVE UNCHANGED asset
    BY <2>7 DEF TakeUp, GiveUp
  <2> QED
    BY <1>1, <2>3, <2>4, <2>5, <2>6, <2>7 DEF Next, CallerStep
<1>2. IInv /\ [Next]_vars =>
        [\A u \in Users : use[u].of # None /\ ~use[u].late /\ ~past.crossed
           => Needs(u) \in asset'[use[u].of].has]_vars
  BY <1>1
<1> QED
  BY <1>2, InvariantHolds, PTL DEF Spec, UsedGraphStays
=============================================================================
