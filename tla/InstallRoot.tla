----------------------------- MODULE InstallRoot -----------------------------
(***************************************************************************)
(* The install drivers of the three package systems: a closure of packages *)
(* goes into a fresh root or into a layer over lower ones, with the files  *)
(* around the packages that a build writes, and must take away again.      *)
(*                                                                         *)
(* A path stands for all files its driver treats alike.  A layer holds a   *)
(* path's content, a whiteout over a lower layer, or nothing.              *)
(***************************************************************************)
EXTENDS Naturals, Sequences, FiniteSets

CONSTANTS
  Packages,
  Ships,      \* per package: the paths of its files, among them Doc, License, Policy
  Bounded     \* the most layers of a root

VARIABLES
  manager,
  box,        \* whether the layers are those of a box
  linked,     \* whether packages ship the policy as a symbolic link
  layers,     \* those that were installed, the lowest first
  spec,       \* of the install under way: its packages, and whether it keeps docs
  upper,      \* its layer so far
  step,       \* what it does next
  putAside,   \* what denied_daemons found, and whether the machine id is fresh
  failed

installVars == <<manager, box, linked, layers, spec, upper, step, putAside, failed>>

\* A content is a set of marks.
Nothing == {}
Whiteout == {"whiteout"}
Doc == "doc"
License == "license"
Policy == "policy"            \* usr/sbin/policy-rc.d
MachineId == "machine-id"
Database == "database"        \* dpkg's status, alpm's local database, the rpmdb
Leftover == "leftover"        \* locks, journals, old versions, side files of the database
Scripted == "scripted"        \* what scriptlets write: aux-cache, random-seed, pacman's gnupg
Config == "config"            \* what _configure_box writes
RootPaths == {Doc, License, Policy, MachineId, Database, Leftover, Scripted, Config}
           \cup UNION {Ships[p] : p \in Packages}

\* A package's files are none of those that stand for what a driver writes itself.
InstallAssumption ==
  /\ Bounded \in Nat
  /\ \A p \in Packages :
       Ships[p] \cap {MachineId, Database, Leftover, Scripted, Config, "whiteout"} = {}
  /\ Packages \cap {Database, "parked", "whiteout"} = {}

EmptyLayer == [p \in RootPaths |-> Nothing]

\* The overlay's rule: the highest layer that says anything of a path decides.
Over(layer, below) ==
  [p \in RootPaths |-> IF layer[p] = Nothing THEN below[p] ELSE IF layer[p] = Whiteout THEN Nothing ELSE layer[p]]
Stacked(ls) ==
  LET upTo[k \in 0..Len(ls)] == IF k = 0 THEN EmptyLayer ELSE Over(ls[k], upTo[k - 1]) IN upTo[Len(ls)]

Below == Stacked(layers)
Root == Over(upper, Below)
Layered == layers # <<>>

Written(p, content) == [upper EXCEPT ![p] = content]
Unlinked(ps) ==
  [p \in RootPaths |-> IF p \notin ps THEN upper[p] ELSE IF Below[p] # Nothing THEN Whiteout ELSE Nothing]

\* What a package's file is; a link is not a regular file.
PolicyLink == {Policy, "link"}
FileOf(p) == IF p = Policy /\ linked THEN PolicyLink ELSE {p}

\* A database has its packages, and whether it was parked: the same whenever it is built.
Known(content) == content \cap Packages
Parked(packages) == packages \cup {Database, "parked"}

----------------------------------------------------------------------------
NoInstall == [packages |-> {}, docs |-> TRUE]
NotKept == [policy |-> Nothing, fresh |-> FALSE]

InstallInit ==
  /\ manager \in {"deb", "alpm", "rpm"} /\ box \in BOOLEAN
  /\ linked \in IF manager = "deb" THEN BOOLEAN ELSE {FALSE}
  /\ layers = <<>> /\ spec = NoInstall /\ upper = EmptyLayer
  /\ step = "idle" /\ putAside = NotKept /\ failed = FALSE

\* A closure leaves out what the layers below have.
BeginInstall ==
  /\ step = "idle" /\ Len(layers) < Bounded
  /\ \E packages \in SUBSET (Packages \ Known(Below[Database])), docs \in BOOLEAN :
       /\ box => docs
       /\ spec' = [packages |-> packages, docs |-> docs]
  /\ upper' = EmptyLayer /\ step' = "mark" /\ putAside' = NotKept
  /\ UNCHANGED <<manager, box, linked, layers, failed>>

Stop ==
  /\ failed' = TRUE /\ step' = "stopped"
  /\ UNCHANGED <<manager, box, linked, layers, spec, putAside>>

FreshRoot == Root[Database] = Nothing

\* fresh_machine_id, and whether there is anything to install.
Mark ==
  /\ step = "mark"
  /\ IF manager = "deb" /\ spec.packages = {} /\ FreshRoot THEN Stop /\ UNCHANGED upper
     ELSE /\ putAside' = [putAside EXCEPT !.fresh = Root[MachineId] = Nothing]
          /\ upper' = IF Root[MachineId] = Nothing THEN Written(MachineId, {"uninitialized"}) ELSE upper
          /\ step' = IF manager = "rpm" THEN "transaction"
                     ELSE IF spec.packages = {} THEN "remark"
                     ELSE IF manager = "deb" THEN "lay down" ELSE "transaction"
          /\ UNCHANGED <<manager, box, linked, layers, spec, failed>>

Shipped == UNION {Ships[p] : p \in spec.packages}

\* prepare touches the database, and into a fresh root lay_down extracts the packages
\* and removes what the install leaves out, licenses among the documentation included.
LayDown ==
  /\ step = "lay down"
  /\ upper' = [p \in RootPaths |->
       CASE p = Database -> Parked(Known(Root[Database]))
         [] FreshRoot /\ p \in Shipped -> IF ~spec.docs /\ p \in {Doc, License} THEN Nothing ELSE FileOf(p)
         [] OTHER -> upper[p]]
  /\ step' = "deny"
  /\ UNCHANGED <<manager, box, linked, layers, spec, putAside, failed>>

\* denied_daemons: a regular file is kept, if there is one; whatever is there is replaced.
Deny ==
  /\ step = "deny"
  /\ putAside' = [putAside EXCEPT !.policy = IF Root[Policy] = PolicyLink THEN Nothing ELSE Root[Policy]]
  /\ upper' = Written(Policy, {"deny"})
  /\ step' = "transaction"
  /\ UNCHANGED <<manager, box, linked, layers, spec, failed>>

\* What the package manager keeps of a package's files when it unpacks it.
Unpacked == Shipped \ (IF spec.docs THEN {} ELSE {Doc})

\* What an install writes, and what scriptlets that it runs write or delete.
Installs ==
  \E scripted \in SUBSET {MachineId, Scripted}, deleted \in SUBSET UNION {Ships[p] : p \in Packages} :
    /\ deleted \cap ({Doc, License, Policy} \cup Unpacked) = {}
    /\ upper' = [p \in RootPaths |->
         CASE p = Database -> Known(Root[Database]) \cup spec.packages \cup {Database}
           [] p \in Unpacked -> FileOf(p)
           [] p = Leftover -> {"left"}
           [] p \in scripted -> {"scripted"}
           [] p \in deleted -> Unlinked({p})[p]
           [] OTHER -> upper[p]]

AptInstall ==
  /\ step = "transaction" /\ manager = "deb" /\ Installs
  /\ step' = "allow"
  /\ UNCHANGED <<manager, box, linked, layers, spec, putAside, failed>>

PacmanInstall ==
  /\ step = "transaction" /\ manager = "alpm" /\ Installs
  /\ step' = "remark"
  /\ UNCHANGED <<manager, box, linked, layers, spec, putAside, failed>>

\* rpm's driver runs the transaction of nothing, too.
DnfInstall ==
  /\ step = "transaction" /\ manager = "rpm"
  /\ IF spec.packages = {} THEN UNCHANGED upper ELSE Installs
  /\ step' = "remark"
  /\ UNCHANGED <<manager, box, linked, layers, spec, putAside, failed>>

\* apt-get, pacman and libdnf5 fail at any time; deb's driver still takes its policy back.
FailInstall ==
  /\ step = "transaction" /\ spec.packages # {}
  /\ IF manager = "deb"
       THEN failed' = TRUE /\ step' = "allow" /\ UNCHANGED <<manager, box, linked, layers, spec, upper, putAside>>
       ELSE Stop /\ UNCHANGED upper

Allow ==
  /\ step = "allow"
  /\ upper' = IF putAside.policy # Nothing THEN Written(Policy, putAside.policy) ELSE Unlinked({Policy})
  /\ step' = IF failed THEN "stopped" ELSE "remark"
  /\ UNCHANGED <<manager, box, linked, layers, spec, putAside, failed>>

\* The end of fresh_machine_id: packages may have replaced the marker.
Remark ==
  /\ step = "remark"
  /\ upper' = IF putAside.fresh THEN Written(MachineId, {"uninitialized"}) ELSE upper
  /\ step' = "park"
  /\ UNCHANGED <<manager, box, linked, layers, spec, putAside, failed>>

\* parkdb of alpm writes only what it changes; apt has nothing that tells the time.
Park ==
  /\ step = "park" /\ manager # "rpm"
  /\ LET db == Root[Database] IN
     IF db = Nothing /\ manager = "alpm" THEN Stop /\ UNCHANGED upper
     ELSE /\ upper' = IF db # Nothing /\ "parked" \notin db THEN Written(Database, Parked(Known(db))) ELSE upper
          /\ step' = "scrub"
          /\ UNCHANGED <<manager, box, linked, layers, spec, putAside, failed>>

\* ... of rpm compacts whatever is there.
ParkRpm ==
  /\ step = "park" /\ manager = "rpm"
  /\ LET db == Root[Database] IN
     IF db = Nothing THEN Stop /\ UNCHANGED upper
     ELSE /\ upper' = Written(Database, Parked(Known(db)))
          /\ step' = "scrub"
          /\ UNCHANGED <<manager, box, linked, layers, spec, putAside, failed>>

\* deb's leftovers are searched for after every install.
ScrubMutant ==
  /\ step = "scrub"
  /\ upper' = Unlinked({Leftover, Database})
  /\ step' = "normalize"
  /\ UNCHANGED <<manager, box, linked, layers, spec, putAside, failed>>

\* scrub: deb's only after a transaction, which no layer below has left anything of.
Scrub ==
  /\ step = "scrub"
  /\ upper' = IF manager = "deb" /\ spec.packages = {} THEN upper ELSE Unlinked({Leftover})
  /\ step' = "normalize"
  /\ UNCHANGED <<manager, box, linked, layers, spec, putAside, failed>>

Normalize ==
  /\ step = "normalize"
  /\ upper' = [Unlinked({Scripted}) EXCEPT ![Config] = IF box THEN {Config} ELSE @]
  /\ step' = "finish"
  /\ UNCHANGED <<manager, box, linked, layers, spec, putAside, failed>>

\* The sandbox stacks the layers of a box without turning markers into whiteouts.
Deletions == {p \in RootPaths : upper[p] = Whiteout}

FinishInstall ==
  /\ step = "finish"
  /\ IF Layered /\ box /\ Deletions # {} THEN Stop /\ UNCHANGED upper
     ELSE /\ layers' = Append(layers, upper)
          /\ step' = "idle" /\ upper' = EmptyLayer
          /\ UNCHANGED <<manager, box, linked, spec, putAside, failed>>

InstallNext ==
  \/ BeginInstall \/ Mark \/ LayDown \/ Deny \/ AptInstall \/ PacmanInstall \/ DnfInstall
  \/ FailInstall \/ Allow \/ Remark \/ Park \/ ParkRpm \/ Scrub \/ Normalize \/ FinishInstall

InstallSpec == InstallInit /\ [][InstallNext]_installVars

----------------------------------------------------------------------------
InstallTypeOK ==
  /\ Len(layers) <= Bounded
  /\ spec.packages \subseteq Packages
  /\ failed \in BOOLEAN

\* What a layer's files are where nothing turns its markers into whiteouts.
Naive(ls) ==
  [p \in RootPaths |->
     LET says == {k \in DOMAIN ls : ls[k][p] \notin {Nothing, Whiteout}} IN
     IF says = {} THEN Nothing ELSE ls[CHOOSE k \in says : \A j \in says : j <= k][p]]

(* A root holds its packages and nothing a build wrote around them: the    *)
(* policy is the one before, unless that was a link, no leftovers stay,    *)
(* the machine id of a first root waits for its boot, docs that were left  *)
(* out are out and licenses in, and the database is parked.  A box's       *)
(* layers need no whiteouts to say so.  A deb or alpm layer that installs  *)
(* nothing is empty.                                                       *)
InstallSound ==
  /\ step \in {"idle", "stopped"} => Root[Policy] # {"deny"}
  /\ step = "idle" /\ Layered =>
       /\ "parked" \in Below[Database]
       /\ Below[Leftover] = Nothing /\ Below[Scripted] = Nothing
       /\ Known(Below[Database]) # {}
       /\ layers[1][MachineId] = {"uninitialized"}
       /\ ~linked /\ (\E p \in Known(layers[1][Database]) : Policy \in Ships[p]) => Below[Policy] = {Policy}
       /\ box => Naive(layers) = Below
       /\ spec.packages = {} /\ manager # "rpm" =>
            \A p \in RootPaths \ {Config} : layers[Len(layers)][p] = Nothing
       /\ \A p \in spec.packages :
            Ships[p] \ (IF spec.docs THEN {} ELSE {Doc}) \subseteq
              {f \in RootPaths : Below[f] # Nothing} \cup {Policy}
       /\ ~spec.docs /\ Len(layers) = 1 => Below[Doc] = Nothing
=============================================================================
