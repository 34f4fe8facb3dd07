--------------------------- MODULE KernelModules ---------------------------
(***************************************************************************)
(* Which kernel modules and firmware an initrd carries (kmod/kmod.py):     *)
(* patterns pick modules, a worklist closes them over libkmod's            *)
(* dependencies, and what they and their firmware are in the image is      *)
(* packed, with every symbolic link on the way there.                      *)
(*                                                                         *)
(* A module is its name, a pattern the set of names its glob matches, a    *)
(* path a sequence of names below the image root.  An image is a record:   *)
(*   tree      paths -> [kind, target, absolute, up]: a relative target is *)
(*             looked for that many directories up                         *)
(*   found     the modules with a file below the module directory          *)
(*   where     modules -> the path depmod's index has, BuiltIn or Nowhere  *)
(*   needs     modules -> the modules they depend on, softly or not        *)
(*   firmware  modules -> the names of the firmware they declare           *)
(*   files     those names -> the candidate paths                          *)
(*   outside   those of the names that lead out of the firmware directory  *)
(*   indexed, firmwared, modinfo: whether there is modules.dep.bin, a      *)
(*             firmware directory and modules.builtin.modinfo              *)
(***************************************************************************)
EXTENDS Naturals, Sequences, FiniteSets

CONSTANTS
  Module,      \* the names of modules
  Inquiry,     \* what builds ask for: [image, patterns]
  LinkDepth    \* _LINK_DEPTH

BuiltIn == <<"built in">>
Nowhere == <<"nowhere">>
Path == Seq(STRING)

\* A file system: what a path leads through is there.
IsTree(tree) ==
  /\ DOMAIN tree \subseteq Path
  /\ \A p \in DOMAIN tree :
       /\ tree[p] \in [kind : {"file", "dir", "link"}, target : Path, absolute : BOOLEAN, up : Nat]
       /\ \A n \in 1..Len(p) - 1 : SubSeq(p, 1, n) \in DOMAIN tree

ASSUME KmodAssumption ==
  /\ LinkDepth \in Nat \ {0}
  /\ \A q \in Inquiry :
       /\ IsTree(q.image.tree)
       /\ q.image.found \subseteq Module
       /\ q.image.where \in [Module -> Path]
       /\ q.image.needs \in [Module -> SUBSET Module]
       /\ DOMAIN q.image.firmware = Module
       /\ \A m \in Module : \A f \in q.image.firmware[m] : q.image.files[f] \subseteq Path
       /\ q.patterns \in Seq([matches : SUBSET Module, exclude : BOOLEAN])

VARIABLES
  inquiry,    \* <<>> before there is one
  doing,
  todo,       \* the worklist, of <<name, whose dependency it is>>
  seen, modules, missing, neededBy,   \* the variables of closure()
  packing,    \* the paths still to carry
  walk,       \* the path being carried, <<>> between two
  carried,
  packed      \* the Selection, <<>> until there is one

modulesVars == <<inquiry, doing, todo, seen, modules, missing, neededBy, packing, walk, carried, packed>>
closureVars == <<seen, modules, missing, neededBy>>

Image == inquiry.image

----------------------------------------------------------------------------
(* select()                                                                *)

\* A later pattern overrides what earlier ones said.
Keeps(patterns, m) ==
  LET keep[i \in 0..Len(patterns)] ==
        IF i = 0 THEN FALSE
        ELSE IF m \in patterns[i].matches THEN ~patterns[i].exclude ELSE keep[i - 1]
  IN  keep[Len(patterns)]

Picked == {m \in Image.found : Keeps(inquiry.patterns, m)}
Linked == {m \in Module : Image.where[m] = BuiltIn}

\* The patterns that matched neither a file nor a built-in module.
Unmatched == {i \in DOMAIN inquiry.patterns : inquiry.patterns[i].matches \cap (Image.found \cup Linked) = {}}

\* A built-in module has its firmware carried too, where there is any.
Seeds == Picked \cup IF Image.firmwared THEN Linked ELSE {}

ModulesInit ==
  /\ inquiry = <<>> /\ doing = "starting"
  /\ todo = {} /\ seen = {} /\ modules = {} /\ missing = {} /\ neededBy = {}
  /\ packing = {} /\ walk = <<>> /\ carried = {} /\ packed = <<>>

\* initrd_modules() is called.
Ask ==
  /\ doing = "starting" /\ doing' = "selecting"
  /\ inquiry' \in Inquiry
  /\ UNCHANGED <<todo, closureVars, packing, walk, carried, packed>>

\* Who asks for a seed.
Patterns == "patterns"

\* Without depmod's index there would be no dependencies to find.
Select ==
  /\ doing = "selecting"
  /\ doing' = IF Seeds # {} /\ ~Image.indexed THEN "failed" ELSE "closing"
  /\ todo' = {<<m, Patterns>> : m \in Seeds}
  /\ UNCHANGED <<inquiry, closureVars, packing, walk, carried, packed>>

----------------------------------------------------------------------------
(* Kmod.closure(): a turn of the loop takes some entry off the worklist.   *)

\* libkmod knows of a file, or has the fields of a built-in module.
Answered(m) == Image.where[m] # Nowhere /\ (Image.where[m] = BuiltIn => Image.modinfo)

SkipSeen(e) ==
  /\ e[1] \in seen
  /\ todo' = todo \ {e}
  /\ UNCHANGED closureVars

Lack(e) ==
  /\ e[1] \notin seen /\ ~Answered(e[1])
  /\ seen' = seen \cup {e[1]}
  /\ missing' = missing \cup {e[1]}
  /\ todo' = todo \ {e}
  /\ UNCHANGED <<modules, neededBy>>

\* Every requester is recorded, but only what was not seen is put on the list.
Include(e) ==
  LET m == e[1] IN
  /\ m \notin seen /\ Answered(m)
  /\ seen' = seen \cup {m}
  /\ modules' = modules \cup {m}
  /\ neededBy' = neededBy \cup {<<d, m>> : d \in Image.needs[m]}
  /\ todo' = (todo \ {e}) \cup {<<d, m>> : d \in Image.needs[m] \ seen'}
  /\ UNCHANGED missing

Pop ==
  /\ doing = "closing"
  /\ \E e \in todo : SkipSeen(e) \/ Lack(e) \/ Include(e)
  /\ UNCHANGED <<inquiry, doing, packing, walk, carried, packed>>

----------------------------------------------------------------------------
(* Links                                                                   *)

IsLink(tree, p) == p \in DOMAIN tree /\ tree[p].kind = "link"

\* Where on a path the links are that a walk has still to follow, `at` names in.
LinksFrom(tree, path, at) == {n \in at + 1..Len(path) : IsLink(tree, SubSeq(path, 1, n))}

First(places) == CHOOSE n \in places : \A k \in places : n <= k

\* The directory a link's target is looked for in.
RelativeTo(tree, link) ==
  IF tree[link].absolute THEN <<>> ELSE SubSeq(link, 1, Len(link) - 1 - tree[link].up)

\* The path with the link `n` names in replaced by its target.
Replaced(tree, path, n) ==
  LET link == SubSeq(path, 1, n) IN
  RelativeTo(tree, link) \o tree[link].target \o SubSeq(path, n + 1, Len(path))

\* What the operating system makes of a path, link by link, and finds in the end.
Followed(tree, path) ==
  LET links == LinksFrom(tree, path, 0) IN
  IF links = {} THEN path ELSE Replaced(tree, path, First(links))

Trail(tree, path) ==
  LET trail[n \in 0..LinkDepth] == IF n = 0 THEN path ELSE Followed(tree, trail[n - 1]) IN trail

Resolve(tree, path) ==
  LET end == Trail(tree, path)[LinkDepth] IN
  IF LinksFrom(tree, end, 0) = {} /\ end \in DOMAIN tree THEN end ELSE Nowhere

----------------------------------------------------------------------------
(* initrd_modules() with firmware_files(), carry() and entries()           *)

Firmware == IF Image.firmwared THEN UNION {Image.firmware[m] : m \in modules} ELSE {}

\* Something is there, if only a link to nothing, through directories that may be links.
IsThere(tree, p) ==
  Resolve(tree, p) # Nowhere \/ \E n \in 0..LinkDepth : IsLink(tree, Trail(tree, p)[n])

Matches(f) == {p \in Image.files[f] : IsThere(Image.tree, p)}

ToCarry ==
  {Image.where[m] : m \in {n \in modules : Image.where[n] # BuiltIn}}
    \cup UNION {Matches(f) : f \in Firmware}

\* The closure is complete; no firmware may be outside its directory.
Closed ==
  /\ doing = "closing" /\ todo = {}
  /\ IF Firmware \cap Image.outside # {}
       THEN doing' = "failed" /\ UNCHANGED packing
       ELSE doing' = "packing" /\ packing' = ToCarry
  /\ UNCHANGED <<inquiry, todo, closureVars, walk, carried, packed>>

\* carry() of one path, which _chase() follows ...
Carry ==
  /\ doing = "packing" /\ walk = <<>>
  /\ \E p \in packing :
       /\ packing' = packing \ {p}
       /\ walk' = [from |-> p, path |-> p, at |-> 0, links |-> 0]
  /\ UNCHANGED <<inquiry, doing, todo, closureVars, carried, packed>>

Walking == doing = "packing" /\ walk # <<>> /\ walk.links < LinkDepth

\* A faulty walk that looks at the last name only.
AheadMutant == {n \in {Len(walk.path)} : IsLink(Image.tree, walk.path)}

Ahead == LinksFrom(Image.tree, walk.path, walk.at)

\* ... over one link, which is carried, ...
Chase ==
  /\ Walking /\ Ahead # {}
  /\ LET n == First(Ahead)
         link == SubSeq(walk.path, 1, n)
     IN  /\ carried' = carried \cup {link}
         /\ walk' = [walk EXCEPT !.path = Replaced(Image.tree, @, n),
                                 !.at = Len(RelativeTo(Image.tree, link)),
                                 !.links = @ + 1]
  /\ UNCHANGED <<inquiry, doing, todo, closureVars, packing, packed>>

\* ... to what has no more, which is carried if the image has it, ...
Arrive ==
  /\ Walking /\ Ahead = {}
  /\ carried' = carried \cup ({walk.path} \cap DOMAIN Image.tree)
  /\ walk' = <<>>
  /\ UNCHANGED <<inquiry, doing, todo, closureVars, packing, packed>>

\* ... or gives up on.
GiveUp ==
  /\ doing = "packing" /\ walk # <<>> /\ walk.links = LinkDepth
  /\ doing' = "failed"
  /\ UNCHANGED <<inquiry, todo, closureVars, packing, walk, carried, packed>>

\* entries(): what is carried, below directories.
Directory == [kind |-> "dir", target |-> <<>>, absolute |-> FALSE, up |-> 0]
Parents(paths) == UNION {{SubSeq(p, 1, n) : n \in 1..Len(p) - 1} : p \in paths}
Entries == [p \in carried \cup Parents(carried) |-> IF p \in carried THEN Image.tree[p] ELSE Directory]

\* A built-in module that kmod knows nothing about is not missing.
Pack ==
  /\ doing = "packing" /\ packing = {} /\ walk = <<>>
  /\ doing' = "packed"
  /\ packed' = [entries |-> Entries, missing |-> missing \ Linked,
                absent |-> {f \in Firmware : Matches(f) = {}}, unmatched |-> Unmatched]
  /\ UNCHANGED <<inquiry, todo, closureVars, packing, walk, carried>>

ModulesNext == Ask \/ Select \/ Pop \/ Closed \/ Carry \/ Chase \/ Arrive \/ GiveUp \/ Pack
ModulesSpec == ModulesInit /\ [][ModulesNext]_modulesVars

----------------------------------------------------------------------------
ModulesTypeOK ==
  /\ doing \in {"starting", "selecting", "closing", "packing", "packed", "failed"}
  /\ todo \in SUBSET (Module \X (Module \cup {Patterns}))
  /\ seen \subseteq Module /\ modules \subseteq Module /\ missing \subseteq Module
  /\ neededBy \subseteq Module \X Module
  /\ packing \subseteq Path /\ (carried # {} => carried \subseteq DOMAIN Image.tree)
  /\ walk # <<>> => walk \in [from : Path, path : Path, at : Nat, links : 0..LinkDepth]

(* What an initrd should hold, said without the worklist and the walk.     *)

\* The pattern that decides for m is the last that matches it.
LastSays(patterns, m) ==
  \E i \in DOMAIN patterns :
    /\ m \in patterns[i].matches /\ ~patterns[i].exclude
    /\ \A k \in i + 1..Len(patterns) : m \notin patterns[k].matches

\* What every set has that has the seeds and what its installed modules need.
IsClosed(ms) == \A m \in ms : Answered(m) => Image.needs[m] \subseteq ms
Needed(seeds) ==
  {m \in Module : \A ms \in SUBSET Module : seeds \subseteq ms /\ IsClosed(ms) => m \in ms}

\* An initrd boots with what it carries: every installed module that its patterns,
\* the last match deciding, select or those need, and their firmware, is found in
\* the carried entries alone where the image has it, through links in any name of
\* the path; what is not installed or not there is reported; and every requester
\* of a module is named, whatever order the worklist took.
InitrdComplete ==
  LET selected == {m \in Image.found : LastSays(inquiry.patterns, m)}
      all == Needed(selected \cup IF Image.firmwared THEN Linked ELSE {})
      got == {m \in all : Answered(m)}
      firmware == IF Image.firmwared THEN UNION {Image.firmware[m] : m \in got} ELSE {}
      candidates == UNION {Image.files[f] : f \in firmware}
      wanted == {Image.where[m] : m \in got \ Linked}
                  \cup {p \in candidates : Resolve(Image.tree, p) # Nowhere}
  IN  doing = "packed" =>
        /\ \A p \in wanted : Resolve(packed.entries, p) = Resolve(Image.tree, p)
        /\ packed.missing = {m \in all : Image.where[m] = Nowhere}
        /\ packed.absent = {f \in firmware : \A p \in Image.files[f] : ~IsThere(Image.tree, p)}
        /\ neededBy = {e \in Module \X got : e[1] \in Image.needs[e[2]]}
=============================================================================
