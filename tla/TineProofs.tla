----------------------------- MODULE TineProofs -----------------------------
(***************************************************************************)
(* The commands of bin/tine.py (Mounts.tla, Checkout.tla, Commands.tla),   *)
(* for any number of commands, paths, pins and steps, and what they hand   *)
(* over (Buckconfig.tla), for any paths of cells.                          *)
(***************************************************************************)
EXTENDS Mounts, Checkout, Commands, Buckconfig, TLAPS

(***************************************************************************)
(* The mount table                                                         *)
(***************************************************************************)
Locked(e) == edit[e].step \in {"check", "write"}

\* The lock is held by whoever is between Lock and Write ...
LockInv == \A e \in Editor : Locked(e) => holder = e

\* ... so what it has read is the table until it writes, ...
ReadInv == \A e \in Editor : Locked(e) => edit[e].read = mounts

\* ... and what was checked of the two is still true then.
CheckedInv ==
  \A e \in Editor :
    EditorAt(e, "write") /\ edit[e].source # NoSource =>
      \A u \in Declared(mounts) : u # edit[e].target => ~Overlap(edit[e].target, u)

VerbInv == \A e \in Editor : edit[e].verb = "remove" => edit[e].source = NoSource

MountInv == MountTypeOK /\ LockInv /\ ReadInv /\ CheckedInv /\ VerbInv /\ MountsSound

\* Overlapping does not depend on which of the two is named first.
LEMMA OverlapSymmetric == \A a, b : Overlap(a, b) <=> Overlap(b, a)
  BY DEF Overlap

LEMMA MountInitInv == ASSUME MountAssumption PROVE MountInit => MountInv
<1> SUFFICES ASSUME MountInit PROVE MountInv
  OBVIOUS
<1> USE DEF MountInit
<1>1. Empty \in Table /\ Declared(Empty) = {}
  BY DEF Empty, Table, Declared
<1>2. (CHOOSE t \in Target : TRUE) \in Target
  BY DEF MountAssumption
<1>3. MountTypeOK
  BY <1>1, <1>2 DEF MountTypeOK
<1>4. LockInv /\ ReadInv /\ CheckedInv /\ VerbInv
  BY DEF LockInv, ReadInv, CheckedInv, VerbInv, Locked, EditorAt
<1>5. MountsSound
  BY <1>1 DEF MountsSound, NoEditLost, MountsDisjoint
<1> QED BY <1>3, <1>4, <1>5 DEF MountInv

LEMMA MountTypeKept == ASSUME MountAssumption, MountTypeOK, MountNext PROVE MountTypeOK'
<1> USE DEF MountTypeOK
<1>1. CASE \E e \in Editor : Begin(e)
  <2> PICK e \in Editor : Begin(e)
    BY <1>1
  <2>1. Empty \in Table
    BY DEF Empty, Table
  <2>2. PICK v \in {"add", "remove"}, t \in Target, s \in Source \cup {NoSource} :
          edit' = [edit EXCEPT ![e] = [step |-> "lock", verb |-> v, target |-> t, source |-> s, read |-> Empty]]
    BY DEF Begin
  <2>3. edit' \in [Editor -> [step : {"start", "lock", "check", "write"}, verb : {"add", "remove"}, target : Target,
                             source : Source \cup {NoSource}, read : Table]]
    BY <2>1, <2>2
  <2> QED BY <2>3 DEF Begin
<1>2. CASE \E e \in Editor : Lock(e)
  <2> PICK e \in Editor : Lock(e)
    BY <1>2
  <2> DEFINE r == [edit[e] EXCEPT !.step = "check", !.read = mounts]
  <2>1. r \in [step : {"start", "lock", "check", "write"}, verb : {"add", "remove"}, target : Target,
               source : Source \cup {NoSource}, read : Table]
    OBVIOUS
  <2>2. edit' = [edit EXCEPT ![e] = r]
    BY DEF Lock
  <2> QED BY <2>1, <2>2 DEF Lock
<1>3. CASE \E e \in Editor : CheckEdit(e)
  BY <1>3 DEF CheckEdit, EditorAt, Goes
<1>4. CASE \E e \in Editor : Write(e)
  <2> PICK e \in Editor : Write(e)
    BY <1>4
  <2> DEFINE m == edit[e]
  <2>1. [m.read EXCEPT ![m.target] = m.source] \in Table /\ [wanted EXCEPT ![m.target] = m.source] \in Table
    BY DEF Table
  <2>2. edit' = [edit EXCEPT ![e].step = "start"] /\ holder' = Nobody
    BY DEF Write, Goes
  <2> QED BY <2>1, <2>2, SMTT(40) DEF Write
<1>5. CASE \E e \in Editor : Fail(e)
  BY <1>5 DEF Fail, EditorAt, Goes
<1>6. CASE \E b \in Entrant : Enter(b)
  BY <1>6 DEF Enter
<1>7. CASE \E b \in Entrant : Leave(b)
  BY <1>7 DEF Leave, Empty, Table
<1>8. CASE UserMoves
  BY <1>8 DEF UserMoves
<1> QED BY <1>1, <1>2, <1>3, <1>4, <1>5, <1>6, <1>7, <1>8 DEF MountNext

LEMMA MountNextInv == ASSUME MountAssumption, MountInv, [MountNext]_mountsVars PROVE MountInv'
<1> USE DEF MountInv
<1>1. CASE UNCHANGED mountsVars
  BY <1>1 DEF mountsVars, MountTypeOK, LockInv, ReadInv, CheckedInv, VerbInv, MountsSound, NoEditLost,
     MountsDisjoint, Locked, EditorAt, Table
<1>2. CASE MountNext
  <2>1. MountTypeOK'
    BY <1>2, MountTypeKept
  <2>2. CASE \E e \in Editor : Begin(e)
    <3> PICK e \in Editor : Begin(e)
      BY <2>2
    <3>1. /\ ~Locked(e) /\ ~Locked(e)' /\ ~EditorAt(e, "write")'
          /\ \A f \in Editor \ {e} : edit'[f] = edit[f]
          /\ mounts' = mounts /\ wanted' = wanted /\ holder' = holder /\ entered' = entered
          /\ edit'[e].verb = "remove" => edit'[e].source = NoSource
      BY DEF Begin, EditorAt, Locked, MountTypeOK
    <3>2. LockInv' /\ ReadInv' /\ VerbInv'
      BY <3>1 DEF LockInv, ReadInv, VerbInv, Locked
    <3>3. CheckedInv'
      BY <3>1 DEF CheckedInv, EditorAt, Declared
    <3> QED BY <2>1, <3>1, <3>2, <3>3 DEF MountsSound, NoEditLost, MountsDisjoint
  <2>3. CASE \E e \in Editor : Lock(e)
    <3> PICK e \in Editor : Lock(e)
      BY <2>3
    <3>1. /\ holder = Nobody /\ holder' = e /\ edit'[e].read = mounts /\ ~EditorAt(e, "write")'
          /\ edit'[e].verb = edit[e].verb /\ edit'[e].source = edit[e].source
          /\ \A f \in Editor \ {e} : edit'[f] = edit[f]
          /\ mounts' = mounts /\ wanted' = wanted /\ entered' = entered
      BY DEF Lock, EditorAt, MountTypeOK
    <3>2. LockInv' /\ ReadInv' /\ VerbInv'
      BY <3>1 DEF LockInv, ReadInv, VerbInv, Locked, MountAssumption
    <3>3. CheckedInv'
      BY <3>1 DEF CheckedInv, EditorAt, Declared
    <3> QED BY <2>1, <3>1, <3>2, <3>3 DEF MountsSound, NoEditLost, MountsDisjoint
  <2>4. CASE \E e \in Editor : CheckEdit(e)
    <3> PICK e \in Editor : CheckEdit(e)
      BY <2>4
    <3>1. /\ Locked(e) /\ holder' = holder
          /\ edit'[e].verb = edit[e].verb /\ edit'[e].source = edit[e].source
          /\ edit'[e].read = edit[e].read /\ edit'[e].target = edit[e].target
          /\ \A f \in Editor \ {e} : edit'[f] = edit[f]
          /\ mounts' = mounts /\ wanted' = wanted /\ entered' = entered
      BY DEF CheckEdit, EditorAt, Goes, Locked, MountTypeOK
    <3>2. LockInv' /\ ReadInv' /\ VerbInv'
      BY <3>1 DEF LockInv, ReadInv, VerbInv, Locked
    <3>3. edit[e].read = mounts
      BY <3>1 DEF ReadInv
    <3>4. edit[e].source # NoSource => \A u \in Declared(mounts) : u # edit[e].target => ~Overlap(edit[e].target, u)
      BY <3>3 DEF CheckEdit, MayEdit, VerbInv
    <3>5. CheckedInv'
      BY <3>1, <3>4 DEF CheckedInv, EditorAt, Declared
    <3> QED BY <2>1, <3>1, <3>2, <3>5 DEF MountsSound, NoEditLost, MountsDisjoint
  <2>5. CASE \E e \in Editor : Write(e)
    <3> PICK e \in Editor : Write(e)
      BY <2>5
    <3> DEFINE t == edit[e].target
               s == edit[e].source
    <3>1. /\ EditorAt(e, "write") /\ Locked(e) /\ ~Locked(e)' /\ ~EditorAt(e, "write")'
          /\ edit'[e].verb = edit[e].verb /\ edit'[e].source = edit[e].source
          /\ \A f \in Editor \ {e} : edit'[f] = edit[f]
          /\ entered' = entered
      BY DEF Write, EditorAt, Goes, Locked, MountTypeOK
    <3>2. holder = e /\ edit[e].read = mounts
      BY <3>1 DEF LockInv, ReadInv
    <3>3. \A f \in Editor \ {e} : ~Locked(f) /\ ~Locked(f)' /\ ~EditorAt(f, "write")'
      BY <3>1, <3>2 DEF LockInv, Locked, EditorAt
    <3>4. LockInv' /\ ReadInv' /\ VerbInv' /\ CheckedInv'
      BY <3>1, <3>3 DEF LockInv, ReadInv, VerbInv, CheckedInv
    <3>5. mounts' = [mounts EXCEPT ![t] = s] /\ wanted' = [wanted EXCEPT ![t] = s]
      BY <3>2 DEF Write
    <3>6. NoEditLost'
      BY <3>5 DEF MountsSound, NoEditLost
    <3>7. t \in Target /\ mounts \in Table
      BY DEF MountTypeOK
    <3>8. \A u \in Target : mounts'[u] = IF u = t THEN s ELSE mounts[u]
      BY <3>5, <3>7 DEF Table
    <3>9. ASSUME NEW u \in Declared(mounts)', NEW w \in Declared(mounts)', u # w
          PROVE ~Overlap(u, w)
      <4>1. \A a \in Declared(mounts)' : a # t => a \in Declared(mounts)
        BY <3>8 DEF Declared
      <4>2. t \in Declared(mounts)' => s # NoSource
        BY <3>8, <3>7 DEF Declared
      <4>3. CASE u # t /\ w # t
        BY <3>9, <4>1, <4>3 DEF MountsSound, MountsDisjoint
      <4>4. CASE u = t
        BY <3>1, <3>9, <4>1, <4>2, <4>4 DEF CheckedInv
      <4>5. CASE w = t
        BY <3>1, <3>9, <4>1, <4>2, <4>5, OverlapSymmetric DEF CheckedInv
      <4> QED BY <4>3, <4>4, <4>5
    <3>10. MountsDisjoint'
      BY <3>1, <3>9 DEF MountsSound, MountsDisjoint, Declared
    <3> QED BY <2>1, <3>4, <3>6, <3>10 DEF MountsSound
  <2>6. CASE \E e \in Editor : Fail(e)
    <3> PICK e \in Editor : Fail(e)
      BY <2>6
    <3>1. /\ ~Locked(e)' /\ ~EditorAt(e, "write")'
          /\ edit'[e].verb = edit[e].verb /\ edit'[e].source = edit[e].source
          /\ \A f \in Editor \ {e} : edit'[f] = edit[f]
          /\ holder # e => holder' = holder
          /\ mounts' = mounts /\ wanted' = wanted /\ entered' = entered
      BY DEF Fail, EditorAt, Goes, Locked, MountTypeOK
    <3>2. LockInv' /\ ReadInv' /\ VerbInv'
      BY <3>1 DEF LockInv, ReadInv, VerbInv, Locked
    <3>3. CheckedInv'
      BY <3>1 DEF CheckedInv, EditorAt, Declared
    <3> QED BY <2>1, <3>1, <3>2, <3>3 DEF MountsSound, NoEditLost, MountsDisjoint
  <2>7. CASE (\E b \in Entrant : Enter(b) \/ Leave(b)) \/ UserMoves
    <3>1. /\ edit' = edit /\ holder' = holder /\ mounts' = mounts /\ wanted' = wanted
          /\ \A b \in Entrant : entered'[b].table \in {entered[b].table, mounts, Empty}
      BY <2>7 DEF Enter, Leave, UserMoves, MountTypeOK
    <3>2. LockInv' /\ ReadInv' /\ VerbInv'
      BY <3>1 DEF LockInv, ReadInv, VerbInv, Locked
    <3>3. CheckedInv'
      BY <3>1 DEF CheckedInv, EditorAt, Declared
    <3>4. Declared(Empty) = {}
      BY DEF Declared, Empty
    <3>5. MountsDisjoint'
      BY <3>1, <3>4 DEF MountsSound, MountsDisjoint, Declared
    <3> QED BY <2>1, <3>1, <3>2, <3>3, <3>5 DEF MountsSound, NoEditLost
  <2> QED BY <1>2, <2>2, <2>3, <2>4, <2>5, <2>6, <2>7 DEF MountNext
<1> QED BY <1>1, <1>2

(* Whatever commands overlap, fail or are killed, the table is every       *)
(* successful edit in order, and no declared target lies inside another    *)
(* (mount_command under mount_table_lock).                                 *)
THEOREM MountsAreSound == ASSUME MountAssumption PROVE MountSpec => []MountsSound
<1>1. MountInit => MountInv
  BY MountInitInv
<1>2. MountInv /\ [MountNext]_mountsVars => MountInv'
  BY MountNextInv
<1>3. MountInv => MountsSound
  BY DEF MountInv
<1> QED BY <1>1, <1>2, <1>3, PTL DEF MountSpec

(***************************************************************************)
(* Settings of a checkout                                                  *)
(***************************************************************************)
\* What initializes was told one cell, that of a configuration that is there, unless contended, ...
AloneInv ==
  \A p \in Command : command[p].step \in Initializing /\ ~contended =>
    /\ config # "absent" => config = command[p].cell
    /\ \A q \in Command : command[q].step \in Initializing => command[q].cell = command[p].cell

\* ... and has what was written before each of its steps, ...
WrittenInv ==
  \A p \in Command :
    /\ command[p].step \in {"ignore", "config"} => settings \in Cell /\ (contended \/ settings = command[p].cell)
    /\ command[p].step = "config" => ignored \in {"ours", "excludes"}

\* ... and what is installed is the whole of what was verified.
InstallInv == \A p \in Command : command[p].step = "install" => command[p].holds = "whole"

CheckoutInv == CheckoutTypeOK /\ AloneInv /\ WrittenInv /\ InstallInv /\ CheckoutSound

Processes ==
  [step : {"idle", "settings", "ignore", "config", "look", "fetch", "check", "unpack", "install", "run"},
   cell : Cell, pin : Pin, holds : Contents]

LEMMA IdleTyped == ASSUME CheckoutAssumption PROVE Idle \in Processes
  BY DEF CheckoutAssumption, Idle, Processes, Contents

LEMMA CheckoutInitInv == ASSUME CheckoutAssumption, CheckoutInit PROVE CheckoutInv
<1>1. CheckoutTypeOK
  BY IdleTyped DEF CheckoutInit, CheckoutTypeOK, Contents, Processes
<1>2. AloneInv /\ WrittenInv /\ InstallInv
  BY DEF CheckoutInit, AloneInv, WrittenInv, InstallInv, Initializing, Idle
<1>3. CheckoutSound
  BY DEF CheckoutInit, CheckoutSound, ConfigLast, OnlyVerified
<1> QED BY <1>1, <1>2, <1>3 DEF CheckoutInv

LEMMA ProcessFields ==
  ASSUME NEW r \in Processes, NEW step, NEW what
  PROVE  /\ [r EXCEPT !.step = step].step = step
         /\ [r EXCEPT !.step = step].cell = r.cell /\ [r EXCEPT !.step = step].holds = r.holds
         /\ [r EXCEPT !.step = step, !.holds = what].step = step
         /\ [r EXCEPT !.step = step, !.holds = what].holds = what
         /\ [r EXCEPT !.step = step, !.cell = what].step = step
         /\ [r EXCEPT !.step = step, !.cell = what].cell = what
  BY DEF Processes

\* A step of one process: the others stay where they are.
LEMMA OthersStay ==
  ASSUME CheckoutTypeOK, NEW p \in Command, NEW r, command' = [command EXCEPT ![p] = r]
  PROVE  command'[p] = r /\ \A q \in Command \ {p} : command'[q] = command[q]
  BY DEF CheckoutTypeOK

LEMMA GoesTo ==
  ASSUME CheckoutTypeOK, NEW p \in Command, NEW step, To(p, step)
  PROVE  /\ \A q \in Command \ {p} : command'[q] = command[q]
         /\ command'[p].step = step /\ command'[p].cell = command[p].cell
         /\ command'[p].holds = command[p].holds
<1> DEFINE r == [command[p] EXCEPT !.step = step]
<1>1. command' = [command EXCEPT ![p] = r] /\ command[p] \in Processes
  BY DEF To, CheckoutTypeOK, Processes
<1>2. r.step = step /\ r.cell = command[p].cell /\ r.holds = command[p].holds
  BY <1>1, ProcessFields
<1> QED BY <1>1, <1>2, OthersStay

LEMMA GoesWith ==
  ASSUME CheckoutTypeOK, NEW p \in Command, NEW step, NEW what, Has(p, step, what)
  PROVE  /\ \A q \in Command \ {p} : command'[q] = command[q]
         /\ command'[p].step = step /\ command'[p].holds = what
<1> DEFINE r == [command[p] EXCEPT !.step = step, !.holds = what]
<1>1. command' = [command EXCEPT ![p] = r] /\ command[p] \in Processes
  BY DEF Has, CheckoutTypeOK, Processes
<1>2. r.step = step /\ r.holds = what
  BY <1>1, ProcessFields
<1> QED BY <1>1, <1>2, OthersStay

LEMMA CheckoutTypeKept == ASSUME CheckoutAssumption, CheckoutTypeOK, CheckoutNext PROVE CheckoutTypeOK'
<1>1. CASE \E p \in Command : BeginInit(p) \/ BeginBuck(p)
  <2> PICK p \in Command : BeginInit(p) \/ BeginBuck(p)
    BY <1>1
  <2>1. \E r \in Processes : command' = [command EXCEPT ![p] = r]
    <3>1. CASE BeginInit(p)
      <4>1. PICK c \in Cell : command' = [command EXCEPT ![p] =
                [Idle EXCEPT !.step = IF settings = c THEN AfterSettings ELSE "settings", !.cell = c]]
        BY <3>1 DEF BeginInit
      <4> QED BY <4>1, IdleTyped DEF AfterSettings, Processes
    <3>2. CASE BeginBuck(p)
      BY <3>2, IdleTyped DEF BeginBuck, Processes
    <3> QED BY <3>1, <3>2
  <2>2. command' \in [Command -> Processes]
    BY <2>1 DEF CheckoutTypeOK, Processes
  <2>3. contended' \in BOOLEAN /\ UNCHANGED <<settings, ignored, config, cached, entry, ran>>
    BY DEF CheckoutTypeOK, BeginInit, BeginBuck, project, cache
  <2> QED BY <2>2, <2>3 DEF CheckoutTypeOK, Processes
<1>2. CASE \E p \in Command : WriteSettings(p) \/ KeepIgnored(p) \/ WriteConfig(p)
  BY <1>2 DEF CheckoutTypeOK, WriteSettings, KeepIgnored, WriteConfig, To, AfterSettings, cache
<1>3. CASE \E p \in Command : Look(p) \/ Fetch(p) \/ Check(p) \/ Unpack(p) \/ KillCommand(p)
  BY <1>3, SMTT(40) DEF CheckoutTypeOK, Look, Fetch, Check, Unpack, KillCommand, To, Has, Contents, project, cache
<1>4. CASE \E p \in Command : Install(p)
  <2> PICK p \in Command : Install(p)
    BY <1>4
  <2>1. command[p] \in Processes /\ command[p].holds \in Contents
    BY DEF CheckoutTypeOK, Processes
  <2>2. command' \in [Command -> Processes]
    BY <2>1 DEF Install, Has, CheckoutTypeOK, Processes, Contents
  <2>3. cached' \in [Pin -> Contents] /\ entry' \in [Pin -> BOOLEAN]
    BY <2>1 DEF Install, CheckoutTypeOK, project
  <2> QED BY <2>2, <2>3 DEF Install, CheckoutTypeOK, project, Processes
<1>5. CASE \E p \in Command : Run(p)
  <2> PICK p \in Command : Run(p)
    BY <1>5
  <2>1. command[p].pin \in Pin
    BY DEF CheckoutTypeOK
  <2>2. ran' \subseteq Contents
    BY <2>1 DEF Run, CheckoutTypeOK
  <2> QED BY <2>2 DEF Run, To, CheckoutTypeOK, project
<1>6. CASE \E h \in Pin : ClearCache(h)
  BY <1>6 DEF CheckoutTypeOK, ClearCache, project, Contents
<1> QED BY <1>1, <1>2, <1>3, <1>4, <1>5, <1>6 DEF CheckoutNext

LEMMA InitActions ==
  ASSUME CheckoutAssumption, CheckoutInv, NEW p \in Command,
         BeginInit(p) \/ WriteSettings(p) \/ KeepIgnored(p) \/ WriteConfig(p)
  PROVE  AloneInv' /\ WrittenInv' /\ InstallInv' /\ ConfigLast'
<1> USE DEF CheckoutInv, AloneInv, WrittenInv, InstallInv, Initializing, ConfigLast
<1>1. CASE BeginInit(p)
  <2>1. PICK c \in Cell :
          /\ settings \in {"absent", "own", c}
          /\ command' = [command EXCEPT ![p] =
               [Idle EXCEPT !.step = IF settings = c THEN AfterSettings ELSE "settings", !.cell = c]]
          /\ contended' = (contended \/ \E q \in Command : command[q].step \in Initializing /\ command[q].cell # c)
    BY <1>1 DEF BeginInit
  <2>2. /\ \A q \in Command \ {p} : command'[q] = command[q]
        /\ command'[p].step = IF settings = c THEN "ignore" ELSE "settings"
        /\ command'[p].cell = c
    <3> DEFINE s == IF settings = c THEN AfterSettings ELSE "settings"
               r == [Idle EXCEPT !.step = s, !.cell = c]
    <3>1. command' = [command EXCEPT ![p] = r] /\ s = IF settings = c THEN "ignore" ELSE "settings"
      BY <2>1 DEF AfterSettings
    <3>2. r.step = s /\ r.cell = c
      BY IdleTyped, ProcessFields
    <3> HIDE DEF r
    <3>3. command'[p] = r /\ \A q \in Command \ {p} : command'[q] = command[q]
      BY <3>1, OthersStay
    <3> QED BY <3>1, <3>2, <3>3
  <2>3. config = "absent" /\ config' = "absent" /\ settings' = settings /\ ignored' = ignored
    BY <1>1 DEF BeginInit
  <2>4. ~contended' => ~contended /\ \A q \in Command : command[q].step \in Initializing => command[q].cell = c
    BY <2>1 DEF CheckoutTypeOK
  <2>5. AloneInv'
    BY <2>2, <2>3, <2>4
  <2>6. \A q \in Command \ {p} :
          /\ command'[q].step \in {"ignore", "config"} => settings' \in Cell /\ (contended' \/ settings' = command'[q].cell)
          /\ command'[q].step = "config" => ignored' \in {"ours", "excludes"}
    BY <2>1, <2>2, <2>3
  <2>7. WrittenInv'
    BY <2>2, <2>3, <2>6
  <2> QED BY <2>2, <2>3, <2>5, <2>7
<1>2. CASE WriteSettings(p)
  <2>1. To(p, "ignore") /\ command[p].step = "settings" /\ settings' = command[p].cell
        /\ UNCHANGED <<ignored, config, contended>> /\ command[p].cell \in Cell
    BY <1>2 DEF WriteSettings, AfterSettings, At, CheckoutTypeOK
  <2>2. /\ \A q \in Command \ {p} : command'[q] = command[q]
        /\ command'[p].step = "ignore" /\ command'[p].cell = command[p].cell
    BY <2>1, GoesTo
  <2>3. AloneInv'
    BY <2>1, <2>2
  <2>4. \A q \in Command :
          /\ command'[q].step \in {"ignore", "config"} => settings' \in Cell /\ (contended' \/ settings' = command'[q].cell)
          /\ command'[q].step = "config" => ignored' \in {"ours", "excludes"}
    BY <2>1, <2>2
  <2>5. ConfigLast'
    BY <2>1 DEF CheckoutSound
  <2> QED BY <2>2, <2>3, <2>4, <2>5
<1>3. CASE KeepIgnored(p)
  <2>1. To(p, "config") /\ command[p].step = "ignore" /\ ignored' \in {"ours", "excludes"}
        /\ UNCHANGED <<settings, config, contended>>
    BY <1>3 DEF KeepIgnored, At
  <2>2. /\ \A q \in Command \ {p} : command'[q] = command[q]
        /\ command'[p].step = "config" /\ command'[p].cell = command[p].cell
    BY <2>1, GoesTo
  <2> QED BY <2>1, <2>2
<1>4. CASE WriteConfig(p)
  <2>1. To(p, "idle") /\ command[p].step = "config" /\ config' = command[p].cell
        /\ UNCHANGED <<settings, ignored, contended>>
    BY <1>4 DEF WriteConfig, At
  <2>2. /\ \A q \in Command \ {p} : command'[q] = command[q]
        /\ command'[p].step = "idle"
    BY <2>1, GoesTo
  <2> QED BY <2>1, <2>2
<1> QED BY <1>1, <1>2, <1>3, <1>4

\* None of the others touches what init writes, or is between its steps.
LEMMA BuckActions ==
  ASSUME CheckoutAssumption, CheckoutInv, NEW p \in Command,
         BeginBuck(p) \/ Look(p) \/ Fetch(p) \/ Check(p) \/ Unpack(p) \/ Install(p) \/ Run(p) \/ KillCommand(p)
  PROVE  AloneInv' /\ WrittenInv' /\ InstallInv' /\ ConfigLast'
<1>1. UNCHANGED project
  BY DEF BeginBuck, Look, Fetch, Check, Unpack, Install, Run, KillCommand, project
<1>2. /\ \A q \in Command \ {p} : command'[q] = command[q]
      /\ \/ command' = command
         \/ command'[p].step \in {"idle", "look", "fetch", "check", "unpack", "run"}
         \/ command'[p].step = "install" /\ command'[p].holds = "whole"
  <2>1. CASE BeginBuck(p)
    BY <2>1, ZenonT(60) DEF BeginBuck, CheckoutInv, CheckoutTypeOK, Idle
  <2>2. CASE Look(p) \/ Fetch(p) \/ Check(p)
    BY <2>2, GoesTo, GoesWith DEF Look, Fetch, Check, CheckoutInv
  <2>3. CASE Unpack(p)
    <3>1. Has(p, "unpack", "part") \/ Has(p, "install", "whole")
      BY <2>3 DEF Unpack
    <3>2. CASE Has(p, "unpack", "part")
      BY <3>2, GoesWith DEF CheckoutInv
    <3>3. CASE Has(p, "install", "whole")
      BY <3>3, GoesWith DEF CheckoutInv
    <3> QED BY <3>1, <3>2, <3>3
  <2>4. CASE Install(p) \/ Run(p) \/ KillCommand(p)
    BY <2>4, GoesTo, GoesWith DEF Install, Run, KillCommand, CheckoutInv
  <2> QED BY <2>1, <2>2, <2>3, <2>4
<1> QED BY <1>1, <1>2 DEF CheckoutInv, CheckoutSound, AloneInv, WrittenInv, InstallInv, Initializing, ConfigLast, project

LEMMA OnlyVerifiedKept == ASSUME CheckoutInv, CheckoutNext PROVE OnlyVerified'
<1> USE DEF CheckoutInv, CheckoutSound, OnlyVerified
<1>1. CASE UNCHANGED <<cached, ran>>
  BY <1>1
<1>2. CASE \E p \in Command : Install(p)
  <2> PICK p \in Command : Install(p)
    BY <1>2
  <2>1. command[p].holds = "whole"
    BY DEF Install, At, InstallInv
  <2> QED BY <2>1 DEF Install, CheckoutTypeOK, project
<1>3. CASE \E p \in Command : Run(p)
  <2> PICK p \in Command : Run(p)
    BY <1>3
  <2>1. command[p].pin \in Pin
    BY DEF CheckoutTypeOK
  <2> QED BY <2>1 DEF Run
<1>4. CASE \E h \in Pin : ClearCache(h)
  BY <1>4 DEF ClearCache, CheckoutTypeOK
<1> QED
  BY <1>1, <1>2, <1>3, <1>4 DEF CheckoutNext, BeginInit, WriteSettings, KeepIgnored, WriteConfig, BeginBuck, Look, Fetch,
     Check, Unpack, KillCommand, cache

LEMMA CheckoutNextInv == ASSUME CheckoutAssumption, CheckoutInv, [CheckoutNext]_checkoutVars PROVE CheckoutInv'
<1>1. CASE UNCHANGED checkoutVars
  BY <1>1 DEF checkoutVars, CheckoutInv, CheckoutTypeOK, AloneInv, WrittenInv, InstallInv, CheckoutSound, ConfigLast,
     OnlyVerified
<1>2. CASE CheckoutNext
  <2>1. CheckoutTypeOK' /\ OnlyVerified'
    BY <1>2, CheckoutTypeKept, OnlyVerifiedKept DEF CheckoutInv
  <2>2. CASE \E h \in Pin : ClearCache(h)
    BY <2>1, <2>2 DEF ClearCache, project, CheckoutInv, AloneInv, WrittenInv, InstallInv, CheckoutSound, ConfigLast
  <2>3. CASE ~\E h \in Pin : ClearCache(h)
    BY <1>2, <2>1, <2>3, InitActions, BuckActions DEF CheckoutNext, CheckoutInv, CheckoutSound
  <2> QED BY <2>2, <2>3
<1> QED BY <1>1, <1>2

(* Wherever an init was killed, a project that has its configuration has   *)
(* what is written before it, and only a Buck2 that was verified whole is  *)
(* in the cache or run (init_command, _download_binary): for any processes *)
(* and pins.                                                               *)
THEOREM CheckoutsAreSound == ASSUME CheckoutAssumption PROVE CheckoutSpec => []CheckoutSound
<1>1. CheckoutInit => CheckoutInv
  BY CheckoutInitInv
<1>2. CheckoutInv /\ [CheckoutNext]_checkoutVars => CheckoutInv'
  BY CheckoutNextInv
<1>3. CheckoutInv => CheckoutSound
  BY DEF CheckoutInv
<1> QED BY <1>1, <1>2, <1>3, PTL DEF CheckoutSpec

(***************************************************************************)
(* The lifetime of a command                                               *)
(***************************************************************************)
\* A signal that came is one that was passed on and counts in what run_step
\* returns, or came too late for that, or tine has ended of it.
SignalInv ==
  /\ missed <= signals
  /\ phase # "gone" /\ signals > missed =>
       \/ forwarded /\ phase \in {"watching", "interrupted", "reaped"}
       \/ phase = "returning" /\ returned # "ok"

\* Where tine is says what has become of its step, and that there is one to come.
StepInv ==
  /\ phase = "ready" => stepState \in {"none", "ok"}
  /\ phase \in {"spawned", "watching", "interrupted", "reaped", "returning"} => current < steps
  /\ phase \in {"reaped", "returning"} => stepState # "running"
  /\ phase = "returning" /\ returned = "ok" => stepState = "ok"
  /\ phase \in {"wrapper", "buck"} => current = steps /\ stepState \in {"none", "ok"}

\* The namespace is entered for mounts only, and left by nobody.
WrapperInv == inMounts => setup.mounts

CommandTypes ==
  /\ CommandTypeOK
  /\ steps \in Nat /\ signals \in Nat /\ missed \in Nat
  /\ inMounts \in BOOLEAN /\ setup.mounts \in BOOLEAN

CommandInv ==
  /\ CommandTypes /\ SignalInv /\ StepInv /\ WrapperInv /\ CommandSound
  /\ phase # "gone" => exit = "none"

LEMMA CommandInitInv == ASSUME CommandAssumption, CommandInit PROVE CommandInv
<1> USE DEF CommandInit
<1>1. steps \in Nat /\ current \in 1..steps
  BY DEF CommandAssumption
<1>2. setup.mounts \in BOOLEAN
  OBVIOUS
<1>3. CommandTypes
  BY <1>1, <1>2 DEF CommandTypes, CommandTypeOK
<1>4. SignalInv /\ StepInv /\ WrapperInv /\ CommandSound
  BY <1>1 DEF SignalInv, StepInv, WrapperInv, CommandSound
<1> QED BY <1>3, <1>4 DEF CommandInv

\* What no step of the commands changes.
LEMMA ConfiguredKept ==
  ASSUME UNCHANGED <<setup, wrapper, inMounts>>
  PROVE  Configured' = Configured
  BY DEF Configured

LEMMA StepActions ==
  ASSUME CommandInv, Spawn \/ SpawnFails \/ Listen \/ ChildEnds \/ Reap \/ Return \/ Restore \/ Exec
  PROVE  CommandInv'
<1> USE DEF CommandInv, CommandTypes, CommandTypeOK, SignalInv, StepInv, WrapperInv, CommandSound, stepVars, setupVars
<1>1. Configured' = Configured
  BY ConfiguredKept DEF Spawn, SpawnFails, Listen, ChildEnds, Reap, Return, Restore, Exec
<1>2. CASE Spawn
  BY <1>1, <1>2 DEF Spawn
<1>3. CASE SpawnFails
  BY <1>1, <1>3 DEF SpawnFails
<1>4. CASE Listen
  BY <1>1, <1>4 DEF Listen
<1>5. CASE ChildEnds
  BY <1>1, <1>5 DEF ChildEnds
<1>6. CASE Reap
  BY <1>1, <1>6 DEF Reap
<1>7. CASE Return
  BY <1>1, <1>7 DEF Return, Result
<1>9. CASE Restore
  <2>1. CASE returned = "ok"
    BY <1>1, <1>9, <2>1 DEF Restore
  <2>2. CASE returned # "ok"
    <3>1. phase' = "gone" /\ exit' = returned /\ current' = current
      BY <1>9, <2>2 DEF Restore
    <3> QED BY <1>1, <1>9, <2>2, <3>1 DEF Restore
  <2> QED BY <2>1, <2>2
<1>8. CASE Exec
  BY <1>1, <1>8 DEF Exec
<1> QED BY <1>2, <1>3, <1>4, <1>5, <1>6, <1>7, <1>8, <1>9

LEMMA SignalActions ==
  ASSUME CommandAssumption, CommandInv, Terminate \/ Interrupt
  PROVE  CommandInv'
<1> USE DEF CommandInv, CommandTypes, CommandTypeOK, SignalInv, StepInv, WrapperInv, CommandSound, setupVars,
        CommandAssumption, Dies
<1>1. Configured' = Configured
  BY ConfiguredKept DEF Terminate, Interrupt
<1>2. /\ signals' = signals + 1 /\ signals' \in Nat
      /\ UNCHANGED <<steps, current, stepState, returned, late, setupVars>>
  BY DEF Terminate, Interrupt
<1>3. CASE Terminate /\ phase \in {"watching", "interrupted", "reaped", "returning"}
  <2>1. forwarded' = TRUE /\ told' \in BOOLEAN /\ UNCHANGED <<phase, exit, lost>>
    BY <1>3 DEF Terminate
  <2>2. missed' = (IF phase = "returning" THEN missed + 1 ELSE missed)
    BY <1>3 DEF Terminate
  <2>3. CASE phase = "returning"
    BY <1>1, <1>2, <1>3, <2>1, <2>2, <2>3
  <2>4. CASE phase # "returning"
    BY <1>1, <1>2, <1>3, <2>1, <2>2, <2>4
  <2> QED BY <2>3, <2>4
<1>4. CASE Terminate /\ phase \notin {"watching", "interrupted", "reaped", "returning"}
  <2>1. phase' = "gone" /\ exit' = "killed" /\ UNCHANGED <<forwarded, told, missed>>
    BY <1>4 DEF Terminate
  <2>2. phase = "spawned" => lost'
    BY <1>4 DEF Terminate
  <2>3. phase # "spawned" => stepState # "running"
    BY <1>4 DEF Terminate
  <2> QED BY <1>1, <1>2, <2>1, <2>2, <2>3
<1>5. CASE Interrupt
  <2>1. told' \in BOOLEAN /\ (stepState = "running" => told') /\ UNCHANGED <<lost, missed>>
    BY <1>5 DEF Interrupt
  <2>2. CASE phase = "watching"
    <3>1. phase' = "interrupted" /\ forwarded' = TRUE /\ exit' = exit
      BY <1>5, <2>2 DEF Interrupt
    <3> QED BY <1>1, <1>2, <2>1, <2>2, <3>1
  <2>3. CASE phase # "watching"
    <3>1. phase' = "gone" /\ exit' = "interrupted" /\ forwarded' = forwarded
      BY <1>5, <2>3 DEF Interrupt
    <3> QED BY <1>1, <1>2, <2>1, <3>1
  <2> QED BY <2>2, <2>3
<1> QED BY <1>3, <1>4, <1>5

LEMMA WrapperActions ==
  ASSUME CommandInv, EnterMounts \/ HandOver \/ RunBuck \/ BuckEnds
  PROVE  CommandInv'
<1> USE DEF CommandInv, CommandTypes, CommandTypeOK, SignalInv, StepInv, WrapperInv, CommandSound, stepVars, setupVars
<1>1. CASE EnterMounts
  BY <1>1 DEF EnterMounts
<1>4. CASE HandOver
  BY <1>4 DEF HandOver
<1>2. CASE RunBuck
  BY <1>2, ConfiguredKept DEF RunBuck
<1>3. CASE BuckEnds
  BY <1>3, ConfiguredKept DEF BuckEnds, Dies
<1> QED BY <1>1, <1>2, <1>3, <1>4

LEMMA CommandNextInv == ASSUME CommandAssumption, CommandInv, [CommandNext]_commandVars PROVE CommandInv'
<1>1. CASE UNCHANGED commandVars
  BY <1>1, ConfiguredKept DEF commandVars, CommandInv, CommandTypes, CommandTypeOK, SignalInv, StepInv, WrapperInv, CommandSound
<1> QED BY <1>1, StepActions, SignalActions, WrapperActions DEF CommandNext

(* Whenever signals come, no step begins after one and tine does not end   *)
(* as if all had been well, but for those that come once run_step has      *)
(* settled what it returns; no step runs on that has not heard of one      *)
(* unless tine was killed first, and Buck is run by the wrapper the project*)
(* configures (run_project_command, reexec_configured_wrapper): for any    *)
(* number of steps and signals.                                            *)
THEOREM CommandsAreSound == ASSUME CommandAssumption PROVE CommandSpec => []CommandSound
<1>1. CommandInit => CommandInv
  BY CommandInitInv
<1>2. CommandInv /\ [CommandNext]_commandVars => CommandInv'
  BY CommandNextInv
<1>3. CommandInv => CommandSound
  BY DEF CommandInv
<1> QED BY <1>1, <1>2, <1>3, PTL DEF CommandSpec

(***************************************************************************)
(* The configuration a command hands over with (Buckconfig.tla)            *)
(***************************************************************************)
IsPaths(f) == f = [n \in CellNames |-> f[n]]

\* A layer that spells the section as `cells`, or has none.
IsLayer(l) == l = [cells |-> l.cells, repositories |-> NoCells] /\ IsPaths(l.cells)

LEMMA PathsOver ==
  ASSUME NEW f, NEW g
  PROVE  /\ IsPaths(Over(f, g))
         /\ \A n \in CellNames : Over(f, g)[n] = IF g[n] = NoPath THEN f[n] ELSE g[n]
BY DEF IsPaths, Over

LEMMA LayersOver ==
  ASSUME NEW l, NEW m, IsLayer(l), IsLayer(m)
  PROVE  IsLayer(Layered(l, m)) /\ Layered(l, m).cells = Over(l.cells, m.cells)
<1>1. Over(NoCells, NoCells) = NoCells
  BY DEF Over, NoCells
<1>2. l.repositories = NoCells /\ m.repositories = NoCells
  BY DEF IsLayer
<1>3. Layered(l, m) = [cells |-> Over(l.cells, m.cells), repositories |-> NoCells]
  BY <1>1, <1>2 DEF Layered
<1> QED BY <1>3, PathsOver DEF IsLayer

LEMMA CellsOfLayer == ASSUME NEW l, IsLayer(l) PROVE CellsOf(l) = l.cells
<1>1. l.repositories = NoCells
  BY DEF IsLayer
<1> QED BY <1>1 DEF CellsOf

\* What names the tine cell: the last layer that names it.
LEMMA TineOf ==
  ASSUME NEW d, NEW b, NEW toml, NEW l, IsLayer(d), IsLayer(b), IsPaths(toml), IsLayer(l)
  PROVE  CellsOf(ReadProject(d, b, toml, l))["tine"] =
           IF l.cells["tine"] # NoPath THEN l.cells["tine"]
           ELSE IF toml["tine"] # NoPath THEN toml["tine"]
           ELSE IF b.cells["tine"] # NoPath THEN b.cells["tine"] ELSE d.cells["tine"]
<1> DEFINE t == [cells |-> toml, repositories |-> NoCells]
           db == Layered(d, b)
           dbt == Layered(db, t)
           all == Layered(dbt, l)
<1>1. IsLayer(t) /\ t.cells = toml
  BY DEF IsLayer
<1>2. IsLayer(db) /\ db.cells = Over(d.cells, b.cells)
  BY LayersOver
<1>3. IsLayer(dbt) /\ dbt.cells = Over(db.cells, toml)
  <2> HIDE DEF db, t
  <2> QED BY <1>1, <1>2, LayersOver
<1>4. IsLayer(all) /\ all.cells = Over(dbt.cells, l.cells)
  <2> HIDE DEF dbt
  <2> QED BY <1>3, LayersOver
<1>5. CellsOf(ReadProject(d, b, toml, l)) = all.cells
  <2>1. ReadProject(d, b, toml, l) = all
    BY DEF ReadProject
  <2> HIDE DEF all
  <2> QED BY <2>1, <1>4, CellsOfLayer
<1>6. "tine" \in CellNames
  BY DEF CellNames
<1> HIDE DEF db, dbt, all
<1> QED BY <1>2, <1>3, <1>4, <1>5, <1>6, PathsOver

(* Refreshing `.buckconfig` leaves a command with the wrapper that it has  *)
(* handed over to, and does nothing the second time, whatever the layers   *)
(* of the project, tine.toml and the file being replaced name              *)
(* (reexec_configured_wrapper, refresh_project_buckconfig).                *)
THEOREM HandoverIsStable ==
  \A d, b, toml, l :
    IsLayer(d) /\ IsLayer(b) /\ IsPaths(toml) /\ IsLayer(l) => HandoverStableFor(d, b, toml, l)
<1> SUFFICES ASSUME NEW d, NEW b, NEW toml, NEW l, IsLayer(d), IsLayer(b), IsPaths(toml), IsLayer(l)
             PROVE  HandoverStableFor(d, b, toml, l)
  OBVIOUS
<1> DEFINE Tine(x) == CellsOf(ReadProject(d, x, toml, l))["tine"]
           fresh == Refreshed(d, b, toml, l)
           Refilled(x) == IF toml["tine"] # NoPath THEN toml ELSE Over(x, toml)
           Catalog(f) == IF f["catalog"] = NoPath /\ f["tine"] # NoPath THEN f["tine"] \o "/catalog" ELSE f["catalog"]
           Whole(f) == [f EXCEPT !["catalog"] = Catalog(f)]
<1>1. "tine" \in CellNames /\ "catalog" \in CellNames /\ \A n \in CellNames : n \in {"tine", "catalog"}
  BY DEF CellNames
<1>2. \A x : IsLayer(x) =>
        Refreshed(d, x, toml, l) =
          IF Tine(x) \in {NoPath, "."} THEN x ELSE [cells |-> Whole(Refilled(x.cells)), repositories |-> NoCells]
  BY CellsOfLayer DEF Refreshed
<1>3. \A x : IsLayer(x) =>
        Tine(x) = IF l.cells["tine"] # NoPath THEN l.cells["tine"]
                  ELSE IF toml["tine"] # NoPath THEN toml["tine"]
                  ELSE IF x.cells["tine"] # NoPath THEN x.cells["tine"] ELSE d.cells["tine"]
  BY TineOf
<1>4. CASE Tine(b) \in {NoPath, "."}
  <2>1. fresh = b
    BY <1>2, <1>4
  <2> QED BY <2>1 DEF HandoverStableFor
<1>5. CASE Tine(b) \notin {NoPath, "."}
  <2> DEFINE c == Refilled(b.cells)
  <2>1. IsPaths(c) /\ c["tine"] = IF toml["tine"] # NoPath THEN toml["tine"] ELSE b.cells["tine"]
    BY <1>1, PathsOver
  <2>2. fresh = [cells |-> Whole(c), repositories |-> NoCells]
    BY <1>2, <1>5
  <2> HIDE DEF c
  <2>3. IsPaths(Whole(c)) /\ Whole(c)["tine"] = c["tine"] /\ Whole(c)["catalog"] = Catalog(c)
    BY <1>1, <2>1 DEF IsPaths
  <2>4. IsLayer(fresh) /\ fresh.cells = Whole(c)
    BY <2>2, <2>3 DEF IsLayer
  <2> HIDE DEF fresh
  <2>5. Tine(fresh) = Tine(b)
    <3>1. fresh.cells["tine"] = IF toml["tine"] # NoPath THEN toml["tine"] ELSE b.cells["tine"]
      BY <2>1, <2>3, <2>4
    <3> DEFINE Named(x) == IF l.cells["tine"] # NoPath THEN l.cells["tine"]
                           ELSE IF toml["tine"] # NoPath THEN toml["tine"]
                           ELSE IF x.cells["tine"] # NoPath THEN x.cells["tine"] ELSE d.cells["tine"]
    <3> HIDE DEF Tine
    <3>2. Tine(b) = Named(b)
      BY <1>3
    <3>3. Tine(fresh) = Named(fresh)
      BY <1>3, <2>4
    <3>4. Named(fresh) = Named(b)
      BY <3>1
    <3> HIDE DEF Named
    <3> QED BY <3>2, <3>3, <3>4
  <2>6. Whole(Refilled(Whole(c))) = Whole(c)
    <3>1. CASE toml["tine"] # NoPath
      BY <3>1 DEF c
    <3>2. CASE toml["tine"] = NoPath
      <4> DEFINE w == Whole(c)
                 again == Over(w, toml)
      <4>1. c["catalog"] = IF toml["catalog"] = NoPath THEN b.cells["catalog"] ELSE toml["catalog"]
        <5>1. c = Over(b.cells, toml)
          BY <3>2, <1>5, CellsOfLayer DEF c
        <5> QED BY <5>1, <1>1, PathsOver
      <4>2. IsPaths(w) /\ w["catalog"] = Catalog(c) /\ w["tine"] = c["tine"]
        BY <2>3
      <4>3. toml["catalog"] # NoPath => w["catalog"] = toml["catalog"]
        BY <4>1, <4>2
      <4>4. Catalog(w) = w["catalog"]
        BY <4>2
      <4>5. Refilled(w) = again
        BY <3>2
      <4> HIDE DEF w
      <4>6. again["tine"] = w["tine"] /\ again["catalog"] = w["catalog"]
        BY <1>1, <3>2, <4>3, PathsOver
      <4>7. IsPaths(again)
        BY PathsOver
      <4> HIDE DEF again
      <4>8. again = w
        BY <1>1, <4>2, <4>6, <4>7 DEF IsPaths
      <4>9. Whole(w) = w
        BY <4>2, <4>4 DEF IsPaths
      <4>10. Whole(Refilled(w)) = w
        <5> HIDE DEF Refilled, Whole
        <5> QED BY <4>5, <4>8, <4>9
      <4> QED BY <4>10 DEF w
    <3> QED BY <3>1, <3>2
  <2>7. Refreshed(d, fresh, toml, l) = fresh
    <3> HIDE DEF Tine, Refilled, Whole
    <3> QED BY <1>2, <1>5, <2>2, <2>4, <2>5, <2>6
  <2> QED BY <2>5, <2>7 DEF HandoverStableFor, fresh
<1> QED BY <1>4, <1>5
=============================================================================
