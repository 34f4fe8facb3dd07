------------------------------- MODULE Mounts -------------------------------
(***************************************************************************)
(* The mount table of one checkout (bin/tine.py): several `tine mount`     *)
(* commands edit it, and Buck commands enter a namespace built from it,    *)
(* while the user moves directories about.  A path is a name; what lies    *)
(* below another is given by Inside.                                       *)
(***************************************************************************)
EXTENDS Naturals

CONSTANTS
  Editor,    \* `tine mount add` and `remove` commands
  Entrant,   \* Buck commands
  Target,    \* project paths
  Inside,    \* {<<a, b>>}: a lies below b
  Cells,     \* targets the configuration names as cells
  Slots,     \* targets the graph labels as checkout slots
  Source,    \* directories outside the project
  NoSource,
  Nobody

MountAssumption ==
  /\ Target # {}
  /\ Inside \subseteq Target \X Target
  /\ Cells \subseteq Target /\ Slots \subseteq Target
  /\ NoSource \notin Source
  /\ Nobody \notin Editor

VARIABLES
  mounts,    \* the file: what each target is declared to be built from
  wanted,    \* history: the edits that succeeded, in the order they did
  found,     \* what is at each target: "dir", "missing" or "symlink"
  sources,   \* the sources that are directories
  holder,    \* who has the lock on the mount table
  edit,      \* per editor: its step, what it does, and the table it read
  entered    \* per Buck command: its step and the table its namespace has

mountsVars == <<mounts, wanted, found, sources, holder, edit, entered>>

Table == [Target -> Source \cup {NoSource}]
Declared(table) == {t \in Target : table[t] # NoSource}
Empty == [t \in Target |-> NoSource]

\* mount_targets_overlap
Overlap(a, b) == a = b \/ <<a, b>> \in Inside \/ <<b, a>> \in Inside

(* validate_mount_declaration, without what is wrong with a name in itself *)
Usable(t, s, missingToo) ==
  /\ found[t] = "dir" \/ (missingToo /\ found[t] = "missing")
  /\ s \in sources

\* declared_mounts: one bad declaration stops the command.
AllUsable(table) ==
  /\ \A t \in Declared(table) : Usable(t, table[t], FALSE)
  /\ \A t, u \in Declared(table) : t # u => ~Overlap(t, u)

MountInit ==
  /\ mounts = Empty /\ wanted = Empty
  /\ found \in [Target -> {"dir", "missing"}]
  /\ sources = Source
  /\ holder = Nobody
  /\ edit = [e \in Editor |-> [step |-> "start", verb |-> "add", target |-> CHOOSE t \in Target : TRUE,
                               source |-> NoSource, read |-> Empty]]
  /\ entered = [b \in Entrant |-> [step |-> "start", table |-> Empty]]

EditorAt(e, step) == edit[e].step = step
Goes(e, step) == edit' = [edit EXCEPT ![e].step = step]

Begin(e) ==
  /\ EditorAt(e, "start")
  /\ \E t \in Target, s \in Source, verb \in {"add", "remove"} :
       /\ verb = "add" => Usable(t, s, TRUE)
       /\ edit' = [edit EXCEPT ![e] = [step |-> "lock", verb |-> verb, target |-> t,
                                       source |-> IF verb = "add" THEN s ELSE NoSource,
                                       read |-> Empty]]
  /\ UNCHANGED <<mounts, wanted, found, sources, holder, entered>>

\* The table is read while waiting for the lock.
LockEarlyMutant(e) ==
  \/ /\ EditorAt(e, "lock") /\ edit[e].read # mounts
     /\ edit' = [edit EXCEPT ![e].read = mounts]
     /\ UNCHANGED <<mounts, wanted, found, sources, holder, entered>>
  \/ /\ EditorAt(e, "lock") /\ holder = Nobody
     /\ holder' = e
     /\ Goes(e, "check")
     /\ UNCHANGED <<mounts, wanted, found, sources, entered>>

\* mount_table_lock, and then the table as it is now.
Lock(e) ==
  /\ EditorAt(e, "lock") /\ holder = Nobody
  /\ holder' = e
  /\ edit' = [edit EXCEPT ![e].step = "check", ![e].read = mounts]
  /\ UNCHANGED <<mounts, wanted, found, sources, entered>>

(* The graph is asked by a Buck command of its own, which stops at a bad   *)
(* declaration; repairing a declaration must not need that.                *)
ValidTarget(t, read) ==
  \/ t \in Declared(read)
  \/ t \in Cells /\ found[t] = "dir"
  \/ t \in Slots /\ AllUsable(mounts)

MayEdit(e) ==
  LET m == edit[e] IN
  IF m.verb = "remove" THEN m.target \in Declared(m.read)
  ELSE /\ ValidTarget(m.target, m.read)
       /\ \A u \in Declared(m.read) : u # m.target => ~Overlap(m.target, u)

\* A slot that is not there is made; then everything is checked once more.
CheckEdit(e) ==
  LET m == edit[e] IN
  /\ EditorAt(e, "check") /\ MayEdit(e)
  /\ found' = IF m.verb = "add" /\ found[m.target] = "missing"
                THEN [found EXCEPT ![m.target] = "dir"] ELSE found
  /\ m.verb = "add" => Usable(m.target, m.source, TRUE)
  /\ Goes(e, "write")
  /\ UNCHANGED <<mounts, wanted, sources, holder, entered>>

(* After update_git_excludes, write_mounts: one atomic replacement by the  *)
(* declarations read, with this one changed.                               *)
Write(e) ==
  LET m == edit[e] IN
  /\ EditorAt(e, "write")
  /\ mounts' = [m.read EXCEPT ![m.target] = m.source]
  /\ wanted' = [wanted EXCEPT ![m.target] = m.source]
  /\ holder' = Nobody
  /\ Goes(e, "start")
  /\ UNCHANGED <<found, sources, entered>>

\* A check fails, or the command is killed: the lock goes with the process.
Fail(e) ==
  /\ ~EditorAt(e, "start")
  /\ holder' = IF holder = e THEN Nobody ELSE holder
  /\ Goes(e, "start")
  /\ UNCHANGED <<mounts, wanted, found, sources, entered>>

(* prepare_buck outside a namespace: the declarations without the lock,    *)
(* all of them usable, mounted one by one (create_mount_namespace).  The   *)
(* table is inherited: the command run inside does not read the file.      *)
Enter(b) ==
  /\ entered[b].step = "start" /\ AllUsable(mounts)
  /\ entered' = [entered EXCEPT ![b] = [step |-> "inside", table |-> mounts]]
  /\ UNCHANGED <<mounts, wanted, found, sources, holder, edit>>

Leave(b) ==
  /\ entered[b].step = "inside"
  /\ entered' = [entered EXCEPT ![b] = [step |-> "start", table |-> Empty]]
  /\ UNCHANGED <<mounts, wanted, found, sources, holder, edit>>

\* Somebody else's doing: directories come, go and become symlinks.
UserMoves ==
  \/ \E t \in Target, w \in {"dir", "missing", "symlink"} :
       /\ w # found[t] /\ found' = [found EXCEPT ![t] = w]
       /\ UNCHANGED <<mounts, wanted, sources, holder, edit, entered>>
  \/ \E s \in Source :
       /\ sources' = IF s \in sources THEN sources \ {s} ELSE sources \cup {s}
       /\ UNCHANGED <<mounts, wanted, found, holder, edit, entered>>

MountNext ==
  \/ \E e \in Editor : Begin(e)
  \/ \E e \in Editor : Lock(e)
  \/ \E e \in Editor : CheckEdit(e)
  \/ \E e \in Editor : Write(e)
  \/ \E e \in Editor : Fail(e)
  \/ \E b \in Entrant : Enter(b)
  \/ \E b \in Entrant : Leave(b)
  \/ UserMoves

MountSpec == MountInit /\ [][MountNext]_mountsVars

MountTypeOK ==
  /\ mounts \in Table /\ wanted \in Table
  /\ found \in [Target -> {"dir", "missing", "symlink"}]
  /\ sources \subseteq Source
  /\ holder \in Editor \cup {Nobody}
  /\ edit \in [Editor -> [step : {"start", "lock", "check", "write"},
                          verb : {"add", "remove"}, target : Target,
                          source : Source \cup {NoSource}, read : Table]]
  /\ entered \in [Entrant -> [step : {"start", "inside"}, table : Table]]

(* The table is every successful edit replayed in order, whichever         *)
(* commands waited for one another, failed or were killed: none loses      *)
(* another's change (mount_table_lock).                                    *)
NoEditLost == mounts = wanted

(* No declared target lies inside another, in the table or in a namespace  *)
(* built from it, however many edits were under way together               *)
(* (mount_command): an outer mount would hide the inner target.            *)
MountsDisjoint ==
  \A table \in {mounts} \cup {entered[b].table : b \in Entrant} :
    \A t, u \in Declared(table) : t # u => ~Overlap(t, u)

(* Both of the table: complete, and without one mount over another.        *)
MountsSound == NoEditLost /\ MountsDisjoint
=============================================================================
