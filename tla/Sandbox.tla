------------------------------- MODULE Sandbox -------------------------------
(***************************************************************************)
(* What a command run in a sandbox sees (box/sandbox.py, box/isolation.py):*)
(* the filesystems a request asks for, and the root that mounting them one *)
(* after another makes.  Entering the user namespace is Namespace.         *)
(*                                                                         *)
(* A tree maps paths, sequences of names, to nodes: a directory, a file or *)
(* a link to an absolute path.  In the new root a node is also of one of   *)
(* the request's filesystems, by its number, 0 for the root they are       *)
(* mounted over, and can be written to or not.                             *)
(***************************************************************************)
EXTENDS Naturals, Sequences, SequencesExt

CONSTANTS
  Host,       \* the host's tree
  Tools,      \* the trees of tools a box may have, merged from its layers
  RoBinds,    \* lists of [source, target] a caller may ask for
  Alphabet,   \* every name, in alphabetical order
  Project,    \* where the caller is
  Scratch     \* the action's scratch directory, below it

VARIABLES
  request,    \* [tools, relaxed, bindCwd, network, scratch, binds]
  root,       \* the new root
  todo,       \* the filesystems still to be mounted, by number
  made        \* what mount points were made in

sandboxVars == <<request, root, todo, made>>

Dir == [kind |-> "dir", to |-> <<>>]
Root == <<>>
Provided == {"proc", "sys", "dev", "run", "tmp", "boot"}
ToolsDirs == {"usr", "opt"}
ToolsLinks == {"bin", "lib"}
HostSkip == {"proc", "nix", "etc"} \cup ToolsDirs \cup ToolsLinks
Var == <<"var", "tmp">>
ResolvConf == <<"etc", "resolv.conf">>
MachineId == <<"etc", "machine-id">>
ProjectDir == <<"tine", "project">>

Is(tree, path, kind) == path \in DOMAIN tree /\ tree[path].kind = kind

\* realpath: links are followed wherever they lead, what is missing is kept.
RECURSIVE Real(_, _, _)
Real(tree, done, rest) ==
  IF rest = <<>> THEN done
  ELSE LET next == Append(done, Head(rest)) IN
       IF Is(tree, next, "link") THEN Real(tree, <<>>, tree[next].to \o Tail(rest))
       ELSE Real(tree, next, Tail(rest))

\* _resolve, and the same without following the last name.
Resolve(tree, path) == Real(tree, Root, path)
NoFollow(tree, path) == IF path = Root THEN Root ELSE Append(Resolve(tree, Front(path)), Last(path))

(***************************************************************************)
(* The filesystems of a request                                            *)
(***************************************************************************)
Rank(name) == CHOOSE k \in DOMAIN Alphabet : Alphabet[k] = name

FS(type, stage, source, target, readonly, nofollow) ==
  [type |-> type, stage |-> stage, source |-> source, target |-> target,
   readonly |-> readonly, nofollow |-> nofollow]
Bind(stage, source, target, readonly) == FS("bind", stage, source, target, readonly, FALSE)
Mount(type, target) == FS(type, "none", Root, target, FALSE, FALSE)
Symlink(to, target) == FS("link", "none", to, target, FALSE, FALSE)
Resolver == FS("bind", "host", ResolvConf, ResolvConf, TRUE, TRUE)

\* A top-level entry of a tree: a link again, or a bind of the directory.
Entry(tree, stage, name, readonly) ==
  IF Is(tree, <<name>>, "link") THEN <<Symlink(tree[<<name>>].to, <<name>>)>>
  ELSE IF Is(tree, <<name>>, "dir") THEN <<Bind(stage, <<name>>, <<name>>, readonly)>>
  ELSE <<>>

Entries(tree, stage, names, readonly) ==
  FoldLeft(LAMBDA out, name : out \o Entry(tree, stage, name, readonly), <<>>,
           SelectSeq(Alphabet, LAMBDA n : n \in names))

When(condition, list) == IF condition THEN list ELSE <<>>

\* _relaxed and _identity
Relaxed(tools) ==
  Entries(tools, "tools", ToolsDirs, TRUE) \o Entries(tools, "tools", ToolsLinks, TRUE)
  \o Entries(Host, "host", ToSet(Alphabet) \ HostSkip, FALSE)
  \o Entries(tools, "tools", {"etc"}, TRUE)
  \o When(MachineId \in DOMAIN Host \cap DOMAIN tools, <<Bind("host", MachineId, MachineId, TRUE)>>)
  \o <<Bind("files", <<"etc", "passwd">>, <<"etc", "passwd">>, TRUE),
       Bind("files", <<"etc", "group">>, <<"etc", "group">>, TRUE)>>

HostRun == Bind("host", <<"run">>, <<"run">>, TRUE)

\* _launch
Filesystems(q) ==
  (IF q.relaxed THEN Relaxed(q.tools)
   ELSE Entries(q.tools, "tools", ToSet(Alphabet) \ Provided, TRUE))
  \o [i \in DOMAIN q.binds |-> Bind("host", q.binds[i].source, q.binds[i].target, TRUE)]
  \o When(q.bindCwd, <<Bind("host", Project, ProjectDir, FALSE)>>)
  \o <<Bind("host", <<"proc">>, <<"proc">>, FALSE)>>
  \o When(~q.relaxed,
          <<Mount("devices", <<"dev">>), Mount("tmpfs", <<"run">>), Mount("tmpfs", <<"tmp">>),
            IF q.bindCwd /\ q.scratch THEN Bind("host", Scratch, Var, FALSE)
            ELSE Mount("tmpfs", Var)>>)
  \o When(q.relaxed /\ ResolvConf \in DOMAIN Host, <<Resolver>>)
  \o When(~q.relaxed /\ q.network, <<Resolver, HostRun>>)

(***************************************************************************)
(* Mounting them                                                           *)
(***************************************************************************)
\* In the order they were asked for.
BeforeMutant(list, i, j) == i < j

\* _filesystem_key: by the names of the target, binds last of one target.
Before(list, i, j) ==
  LET a == list[i].target
      b == list[j].target
      differ == {k \in 1..Len(a) : k <= Len(b) /\ a[k] # b[k]}
      first == CHOOSE k \in differ : \A l \in differ : k <= l
      late(f) == f.type = "bind"
  IN  IF differ # {} THEN Rank(a[first]) < Rank(b[first])
      ELSE IF a # b THEN Len(a) < Len(b)
      ELSE IF late(list[i]) # late(list[j]) THEN late(list[j])
      ELSE i < j

Ordered(list) == SortSeq([i \in DOMAIN list |-> i], LAMBDA i, j : Before(list, i, j))

\* The trees that sources are taken from; File writes its own just before.
Stage(q, stage) ==
  CASE stage = "host" -> Host
    [] stage = "tools" -> q.tools
    [] stage = "files" -> [p \in {<<"etc", n>> : n \in {"passwd", "group"}} |-> [kind |-> "file", to |-> Root]]

\* Everything at a path and below it gives way to the tree that is mounted.
Mounted(at, content, i, readonly) ==
  [p \in {at \o q : q \in DOMAIN content} |->
     content[SubSeq(p, Len(at) + 1, Len(p))] @@ [by |-> i, readonly |-> readonly]]
  @@ [p \in {p \in DOMAIN root : ~IsPrefix(at, p)} |-> root[p]]

\* makedirs; what the last name is made as is covered.
Missing(path) == {p \in Prefixes(path) : p \notin DOMAIN root}
Parent(path) == root[CHOOSE p \in Prefixes(path) \cap DOMAIN root :
                        \A o \in Prefixes(path) \cap DOMAIN root : Len(o) <= Len(p)]
CanMake(path) == Missing(path) # {} => Parent(path).kind = "dir" /\ ~Parent(path).readonly
Made(path) ==
  [p \in Missing(path) \ {path} |-> Dir @@ [by |-> Parent(path).by, readonly |-> FALSE]]

Below(tree, path) ==
  [p \in {SubSeq(q, Len(path) + 1, Len(q)) : q \in {q \in DOMAIN tree : IsPrefix(path, q)}} |->
     tree[path \o p]]

(* Where a filesystem goes, the tree it shows there and what has to be     *)
(* there first: Bind, File, Devices, Tmpfs and Overlay each by its mount().*)
Place(f) ==
  LET source == IF f.nofollow THEN NoFollow(Stage(request, f.stage), f.source)
                ELSE Resolve(Stage(request, f.stage), f.source)
      content == Below(Stage(request, f.stage), source)
      unresolved == NoFollow(root, f.target)
  IN  CASE f.type \in {"tmpfs", "devices"} -> [at |-> Resolve(root, f.target), content |-> Root :> Dir, found |-> TRUE]
        [] f.type = "link" -> [at |-> unresolved, content |-> Root :> [kind |-> "link", to |-> f.source], found |-> TRUE]
        [] OTHER ->
             [at |-> IF Root \in DOMAIN content /\ content[Root].kind # "dir" /\ Is(root, unresolved, "link")
                       THEN unresolved ELSE Resolve(root, f.target),
              content |-> content, found |-> Root \in DOMAIN content]

Makes(path) == IF Missing(path) = {} THEN made ELSE made \cup {Parent(path).by}

\* One filesystem; what the kernel refuses ends the command.
Fits(f, p) ==
  /\ p.found /\ CanMake(p.at)
  /\ p.at \in DOMAIN root =>
       IF f.type = "link" THEN root[p.at].kind = "link" /\ root[p.at].to = f.source
       ELSE (root[p.at].kind = "dir") = (p.content[Root].kind = "dir")

MountNext ==
  LET i == Head(todo)
      f == Filesystems(request)[i]
      p == Place(f)
  IN  /\ todo # <<>> /\ Fits(f, p)
      /\ root' = IF f.type = "link" /\ p.at \in DOMAIN root THEN root
                 ELSE Mounted(p.at, p.content, i, f.readonly) @@ Made(p.at)
      /\ made' = Makes(p.at)
      /\ todo' = Tail(todo)
      /\ UNCHANGED request

Requests ==
  [tools : Tools, relaxed : BOOLEAN, bindCwd : BOOLEAN, network : BOOLEAN, scratch : BOOLEAN, binds : RoBinds]

Init ==
  /\ request \in {q \in Requests : q.relaxed => ~q.bindCwd}
  /\ root = Root :> (Dir @@ [by |-> 0, readonly |-> FALSE])
  /\ todo = Ordered(Filesystems(request))
  /\ made = {}

Next == MountNext

Spec == Init /\ [][Next]_sandboxVars

(***************************************************************************)
(* Properties                                                              *)
(***************************************************************************)
Declared == Filesystems(request)

\* No link on the way to the target, which would be mounted before what it leads to.
Straight(target) == \A p \in Prefixes(Front(target)) : ~Is(root, p, "link")

\* Of several for one target the one that is meant: a bind, and then the last.
Meant(i) ==
  \A j \in DOMAIN Declared \ {i} :
    Declared[j].target = Declared[i].target =>
      IF (Declared[i].type = "bind") = (Declared[j].type = "bind") THEN j < i
      ELSE Declared[i].type = "bind"

(* A command that is run sees every filesystem it was promised where it    *)
(* was promised, whatever else was asked for in whichever order, nested or *)
(* at the same place (_filesystem_key); and in a hermetic sandbox no mount *)
(* point was made in a directory of the host's.                            *)
ShowsDeclared ==
  todo = <<>> =>
    /\ \A i \in DOMAIN Declared :
         LET t == Declared[i].target IN
         Straight(t) /\ Meant(i) => t \in DOMAIN root /\ root[t].by = i
    /\ ~request.relaxed => \A i \in made \ {0} : Declared[i].type \in {"tmpfs", "devices"}
=============================================================================
