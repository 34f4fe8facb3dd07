------------------------------ MODULE MCTools ------------------------------
(***************************************************************************)
(* The components that never meet while they run, side by side for TLC:    *)
(* each behaviour is one of `subject`, the variables of the others at      *)
(* "off".  A pure algorithm is a behaviour of one step, to one of its      *)
(* inputs.                                                                 *)
(***************************************************************************)
EXTENDS Naturals, Sequences, FiniteSets, TLC,
        Lifetimes, Mounts, Checkout, Commands, SnapshotUpload, BotGate, Namespace, Supply,
        InstallRoot, Catalog, Importer, KernelModules

CONSTANT MaxTroubles   \* bound on what the environment does to the keys and the shims

VARIABLES
  subject,
  input,      \* of a pure algorithm, <<>> before it is chosen
  troubles,   \* what the environment has done to the keys and the shims
  \* the variables of a subject that is an instance, in the order it takes them
  v1, v2, v3, v4

(***************************************************************************)
(* Instances and bounds                                                    *)
(***************************************************************************)
CaUntils == "ca" :> 3 @@ "short" :> 2
Nested == {<<"pq", "p">>}
Holdings == "r1" :> {"p", "q"} @@ "r2" :> {"q"} @@ "t" :> {"x"} @@ "u" :> {"x"}
Suites == "r1" :> "s" @@ "r2" :> "s" @@ "t" :> "testing" @@ "u" :> "s"
SignedOn == "r1" :> 0 @@ "r2" :> 2 @@ "t" :> 0 @@ "u" :> 0
ExpiresOn == "r1" :> 1 @@ "r2" :> 3 @@ "t" :> 9 @@ "u" :> 9
KeyExpires == "p" :> 9 @@ "q" :> 2
ShipsOf == "p" :> {"f", "doc", "license"} @@ "q" :> {"g", "policy"}
Passes == <<{"r1", "r2"}, {"a1"}>>
SeriesOf == [r \in Repo |-> IF r = "a1" THEN "a" ELSE "f"]
DepsOf == [b1 |-> {"r1", "a1"}, b2 |-> {"r1", "r2"}]

CD == INSTANCE Cooldown WITH Asker <- {"t1", "t2"}, CoolFor <- 2,
  reachable <- v1, resting <- v2, asking <- v3
\* Names like the markers of rootfs.py and its escapes, in every role.
Plain == <<"a">>
Odd == <<"\\", "%">>
Escaped == <<".esc.", "%", "5C">>
Chain(x, y, z) == {<<x>>, <<x, y>>, <<x, y, z>>}
OV == INSTANCE Overlay WITH
  Trees <- {Chain(Plain, Odd, Escaped), Chain(Odd, Plain, Odd), Chain(Escaped, Plain, Plain)},
  MaxLayers <- 3,
  tree <- v1, native <- v2, stored <- v3

(***************************************************************************)
(* Trees of a host and of tools, and what callers bind in a sandbox: keys  *)
(* under /run/tine, as image/sign.bzl asks for them, and odder places.     *)
(***************************************************************************)
TreeOf(dirs, files, links) ==
  [p \in {<<>>} \cup dirs \cup files \cup DOMAIN links |->
     [kind |-> IF p \in files THEN "file" ELSE IF p \in DOMAIN links THEN "link" ELSE "dir",
      to |-> IF p \in DOMAIN links THEN links[p] ELSE <<>>]]
ResolvConf == <<"etc", "resolv.conf">>
Stub == <<"run", "stub">>
Keys == <<"keys">>
Socket == <<"keys", "sock">>
PinFile == <<"keys", "pin">>
HostTree ==
  TreeOf({<<"run">>, <<"etc">>, Keys, Socket, <<"p">>, <<"p", "scratch">>, <<"proc">>, <<"dev">>, <<"usr">>},
         {Stub, PinFile, <<"etc", "machine-id">>}, ResolvConf :> Stub)
ToolsDirs == {<<"usr">>, <<"usr", "lib">>, <<"etc">>, <<"run">>}
Tables == {<<"etc", "passwd">>, <<"etc", "group">>, <<"etc", "machine-id">>}
ToolsTrees ==
  {TreeOf(ToolsDirs \cup {<<"var">>, <<"var", "tmp">>}, Tables \cup {ResolvConf}, <<"lib">> :> <<"usr", "lib">>),
   TreeOf(ToolsDirs, Tables, <<"lib">> :> <<"usr", "lib">> @@ ResolvConf :> Stub),
   TreeOf(ToolsDirs \cup {<<"var">>, <<"lib">>}, Tables, <<>>)}
BindOf(s, t) == [source |-> s, target |-> t]
InRun(s) == BindOf(s, <<"run", "tine">> \o s)
RoBinds ==
  {<<>>, <<InRun(Socket), InRun(PinFile)>>, <<InRun(PinFile), InRun(Keys)>>, <<InRun(Keys), InRun(PinFile)>>,
   <<BindOf(PinFile, <<"tmp", "pin">>)>>, <<BindOf(Keys, <<"lib", "k">>), BindOf(PinFile, <<"etc", "passwd">>)>>}
Alphabet ==
  <<"boot", "dev", "etc", "group", "k", "keys", "lib", "machine-id", "p", "passwd", "pin", "proc", "project",
    "resolv.conf", "run", "scratch", "sock", "stub", "tine", "tmp", "usr", "var">>
SB == INSTANCE Sandbox WITH
  Host <- HostTree, Tools <- ToolsTrees, RoBinds <- RoBinds, Alphabet <- Alphabet,
  Project <- <<"p">>, Scratch <- <<"p", "scratch">>,
  request <- v1, root <- v2, todo <- v3, made <- v4

PL == INSTANCE Plan
BC == INSTANCE Buckconfig
VR == INSTANCE Versions
CP == INSTANCE Cpio
MF == INSTANCE Manifest

ASSUME InstanceAssumptions ==
  LifeAssumption /\ CD!CoolAssumption /\ MountAssumption /\ UploadAssumption /\ CatalogAssumption
  /\ SupplyAssumption /\ CheckoutAssumption /\ CommandAssumption /\ InstallAssumption /\ ImporterAssumption
  /\ KmodAssumption

(***************************************************************************)
(* Inputs of the pure algorithms                                           *)
(***************************************************************************)
ConfigLines ==
  {BC!Line("section", s, "", FALSE) : s \in {"tine", "project", "buck2_re_client", "x"}}
  \cup {BC!Line("entry", k, k, m) : k \in {"dev", "ignore"}, m \in BOOLEAN}
  \cup {BC!Line("entry", k, "1", FALSE) : k \in {"k"} \cup BC!Unchecked}
  \cup {BC!Line("blank", "", "", FALSE), BC!Line("comment", "", "#", FALSE), BC!Line("comment", "", "#", TRUE),
        BC!Line("include", "f", "<f>", FALSE), BC!Line("include", "g", "<g>", FALSE)}
Section == BC!Line("section", "x", "", FALSE)
Own == {p \o r : p \in {<<>>, <<Section, BC!Line("entry", "k", "1", FALSE)>>},
                 r \in UNION {[1..n -> ConfigLines] : n \in 0..2}}
Included == [f |-> <<BC!Line("section", "tine", "", FALSE), BC!Line("entry", "k", "2", TRUE)>>]
Older == BC!Block([versions |-> TRUE, dev |-> TRUE, ignores |-> 2, cache |-> "uploads"])
\* Each set of settings in [tine], with either kind of cache and lists of ignores of each length.
Wants ==
  {c \in BC!Told : /\ c.ignores = (IF c.versions THEN 2 ELSE IF c.dev THEN 1 ELSE 0)
                  /\ c.cache # (IF c.dev THEN "reads" ELSE "uploads")}
BlockInput ==
  \E own \in Own, old \in {<<>>, Older}, at \in 0..4, wants \in Wants :
    /\ at <= Len(own) /\ (old = <<>> => at = 0)
    /\ input' = <<own, old, at, Included, wants>>

Paths == [BC!CellNames -> {BC!NoPath, "p", "q"}]
Layouts == [cells : Paths, repositories : {BC!NoCells}]
HandoverInput ==
  \E d, b \in Layouts, toml \in Paths, l \in Layouts : input' = <<d, b, toml, l>>

Mods == {"a", "b", "c"}
Node(kind, to, absolute, up) == [kind |-> kind, target |-> to, absolute |-> absolute, up |-> up]
F == Node("file", <<>>, FALSE, 0)
D == Directory
EF == <<"e", "f">>
EG == <<"e", "g">>
DG == <<"d", "g">>
Nodes == {F, Node("link", <<"g">>, FALSE, 0), Node("link", EF, TRUE, 0), Node("link", DG, FALSE, 1)}
Tree(d, f, g, dg) ==
  <<"d">> :> d @@ <<"e">> :> D @@ EF :> f @@ EG :> g @@ (IF d = D THEN DG :> dg ELSE << >>)
Where(b, c) == "a" :> EF @@ "b" :> b @@ "c" :> c
Needs(a, b, c) == "a" :> a @@ "b" :> b @@ "c" :> c
Installation(tree, index, needs) ==
  [tree |-> tree, found |-> {"a"} \cup {m \in {"b", "c"} : index[m] \notin {BuiltIn, Nowhere}},
   where |-> index, needs |-> needs, firmware |-> [m \in Mods |-> IF m = "b" THEN {"fw"} ELSE {}],
   files |-> [f \in {"fw"} |-> {DG}], outside |-> {}, indexed |-> TRUE, firmwared |-> TRUE, modinfo |-> TRUE]
\* Images with anything amiss but their modules and links.
Amiss(i) == {i, [i EXCEPT !.indexed = FALSE], [i EXCEPT !.firmwared = FALSE], [i EXCEPT !.modinfo = FALSE],
                [i EXCEPT !.outside = {"fw"}], [i EXCEPT !.where["a"] = Nowhere]}
KernelPatterns == [matches : {{"a"}, {"a", "b"}, {"c"}}, exclude : BOOLEAN]
Asked(i, ps) == [image |-> i, patterns |-> ps]
AllOf == [matches |-> {"a", "b"}, exclude |-> FALSE]
AnyWhere == {Where(b, c) : b \in {BuiltIn, Nowhere, EG}, c \in {BuiltIn, Nowhere, DG}}
PlainTree == Tree(D, F, F, F)
Inquiries ==
  UNION
    {{Asked(Installation(PlainTree, w, Needs(na, nb, nc)), <<AllOf>>) :
        w \in AnyWhere, na \in SUBSET {"b", "c"}, nb \in SUBSET {"a", "c"}, nc \in SUBSET {"a", "b"}},
     {Asked(i, <<q, r>>) : q, r \in KernelPatterns,
        i \in UNION {Amiss(Installation(PlainTree, w, Needs({"b"}, {"c"}, {"a"}))) : w \in AnyWhere}},
     {Asked(Installation(Tree(d, f, g, dg), Where(BuiltIn, EG), Needs({"c"}, {}, {})), <<AllOf>>) :
        d \in {D, Node("link", <<"e">>, FALSE, 0)}, f, g, dg \in Nodes}}

Versions(x, y, z) == "a" :> x @@ "b" :> y @@ "c" :> z
Repository(p, b, c) == [priority |-> p, holds |-> Versions(1, b, c)]
PlanInput ==
  \E s \in {"deb", "alpm", "rpm"}, p \in {<<1, 2>>, <<2, 1>>, <<1, 1>>}, b \in {<<1, 2>>, <<2, 1>>}, c \in 0..1,
     i \in {{"a"}, {"b"}, {"a", "c"}, {"b", "c"}, {"cap"}}, l \in {Versions(0, 0, 0), Versions(0, 2, 0), Versions(0, 0, 1)},
     n \in {{}, {"cap"}, {"b"}}, provided \in {{}, {"cap"}}, x \in {{}, {"b"}} :
    input' = <<[system |-> s, repos |-> <<Repository(p[1], b[1], 0), Repository(p[2], b[2], c)>>,
                install |-> i, installed |-> l, needs |-> Versions(n, {}, {}),
                provides |-> Versions({}, {"cap"}, provided), replaces |-> Versions({}, {}, x)]>>
\* Of a parent with fewer packages, resolved on this day or another.
OlderRequests(w) ==
  IF PL!Carried(w) # {} THEN {}
  ELSE {[w EXCEPT !.install = {i}, !.repos = r] :
          i \in w.install, r \in {w.repos, <<Repository(1, 1, 1), Repository(2, 1, 1)>>}}

\* Every string of up to two of "0", "1", "a", "~", "-", "+", of three where a separator hides
\* between markers, and some with "." and longer numbers.
VersionStrings ==
  UNION {[1..n -> {48, 49, 97, 126, 45, 43}] : n \in 0..2}
  \cup {<<m, 43, c>> : m \in {126, 45}, c \in {49, 126, 45}} \cup {<<49, m, c>> : m \in {126, 45}, c \in {49, 126, 45}}
  \cup {<<49, 46, 49>>, <<49, 46, 49, 48>>, <<49, 46, 57>>, <<49, 46>>, <<49, 94>>, <<45, 46>>, <<46, 45>>}
Nine == <<54, 46, 57>>
Ten == <<54, 46, 49, 48>>
Rc == Ten \o <<126>>
Uki(release, path, linux, initrd) == [release |-> release, path |-> path, linux |-> linux, initrd |-> initrd]
StandaloneKernel(release, path) == [release |-> release, path |-> path]
BootInput ==
  \E u \in SUBSET {Uki(Nine, <<1, 1>>, TRUE, TRUE), Uki(Ten, <<1, 2>>, TRUE, FALSE), Uki(Rc, <<2, 1>>, TRUE, TRUE),
                   Uki(Ten, <<2, 2>>, TRUE, TRUE), Uki(<<>>, <<1, 3>>, TRUE, TRUE), Uki(Ten, <<2, 3>>, FALSE, TRUE)},
     m \in SUBSET {StandaloneKernel(Nine, <<3>>), StandaloneKernel(Rc, <<4>>)},
     b \in SUBSET {StandaloneKernel(Nine, <<5>>), StandaloneKernel(Ten, <<6>>)}, i \in SUBSET {Nine, Ten, Rc} :
    input' = <<[ukis |-> u, modules |-> m, boot |-> b, initrds |-> [r \in i |-> <<7>> \o r]]>>
ReleaseOrder == <<>> :> 0 @@ Nine :> 1 @@ Rc :> 2 @@ Ten :> 3

Regular(path, ino, links, data) ==
  [name |-> path, kind |-> "file", ino |-> ino, links |-> links, data |-> data, mode |-> "m", target |-> ""]
SymbolicLink(path, target) == [Regular(path, 9, 1, 0) EXCEPT !.kind = "link", !.target = target]
\* The names of a file in some order, one or none of which has the content.
Hardlinks(names, ino, data) ==
  {[k \in DOMAIN names |-> Regular(names[k], ino, Len(names), IF k = c THEN data ELSE 0)] : c \in 0..Len(names)}
Others ==
  {Regular("p", 1, 1, 5), Regular("p", 3, 1, 0), SymbolicLink("p", "a"), [Regular("d", 8, 1, 0) EXCEPT !.kind = "device"]}
Between(s, o) == {SubSeq(s, 1, k) \o <<o>> \o SubSeq(s, k + 1, Len(s)) : k \in {1, Len(s)}}
CpioArchives ==
  UNION {Between(s, o) : s \in UNION {Hardlinks(n, 1, 7) : n \in {<<"a", "b", "c">>, <<"b", "a">>}}
                               \cup Hardlinks(<<"e", "f">>, 1, 6), o \in Others}
  \cup {a \o b : a \in Hardlinks(<<"a", "b">>, 1, 7), b \in Hardlinks(<<"e", "f">>, 2, 6)}
Payloads == [name : {1, 3985, 3986, 4095}, size : {0, 5, 4096, 4099}]
ArchiveInput ==
  \/ \E a, b \in CpioArchives : input' = <<<<a, b>>>>
  \/ \E e \in UNION {[1..n -> Payloads] : n \in 0..2}, aligned \in BOOLEAN, start \in {0, 6} :
       input' = <<e, aligned, start>>

\* "a", "a." and "b", on either side of a slash in the order of bytes, and "c", a link to the top.
Dotted == <<97, 46>>
Inode(path, dir, ino, links) == path :> [dir |-> dir, ino |-> ino, links |-> links, to |-> path]
Here == <<<<99>>>>
ImageTree(i, j, k) ==
  Inode(<<<<97>>>>, TRUE, 8, 2) @@ Inode(<<<<97>>, <<97>>>>, FALSE, 1, 3) @@ Inode(<<<<97>>, <<98>>>>, FALSE, i, 3)
  @@ Inode(<<Dotted>>, TRUE, 9, 2) @@ Inode(<<Dotted, <<97>>>>, FALSE, j, 3) @@ Inode(<<<<98>>>>, FALSE, k, 3)
  @@ Here :> [dir |-> FALSE, ino |-> 7, links |-> 1, to |-> <<>>]
Parts ==
  [tree : {ImageTree(1, 1, 2), ImageTree(2, 1, 2), ImageTree(2, 3, 3)},
   roots : {{<<>>, <<<<97>>>>}, {<<<<97>>>>, <<Dotted>>}, {<<Dotted>>, <<<<97>>, <<98>>>>},
            {<<<<97>>>>, <<<<97>>, <<97>>>>, <<<<98>>>>, <<<<98>>, <<98>>>>},
            {Here \o <<Dotted>>, <<Dotted>>, Here \o Here \o <<<<97>>, <<97>>>>}, {Here, Here \o <<Dotted>>}}]
ManifestInput == \E a, b \in Parts : input' = <<a, b>>

(***************************************************************************)
(* The behaviours                                                          *)
(***************************************************************************)
Pure == {"buckconfig", "handover", "plan", "versions", "boot", "archive", "manifest"}
Extended ==
  {"signing", "mount", "init", "command", "ami", "bot", "namespace", "supply", "install", "catalog", "importer", "modules"}

Off4 == v4 = "off"
AllOff == v1 = "off" /\ v2 = "off" /\ v3 = "off" /\ Off4
others == <<v1, v2, v3, v4>>

\* Every component but the subject is in one initial state, and stays in it.
Init ==
  /\ input = <<>> /\ troubles = 0
  /\ \/ subject \in Pure \cup Extended /\ AllOff
     \/ subject = "cooldown" /\ CD!Init /\ Off4
     \/ subject = "rootfs" /\ OV!Init /\ Off4
     \/ subject = "sandbox" /\ SB!Init
  /\ BotInit /\ NamespaceInit
  /\ LifeInit /\ (subject # "signing" => file.ca = "ca" /\ file.until = 3)
  /\ MountInit /\ (subject # "mount" => \A t \in Target : found[t] = "dir")
  /\ CheckoutInit /\ (subject # "init" => settings = "absent" /\ ignored = "nobody")
  /\ SupplyInit /\ (subject # "supply" => system = "deb" /\ rolling)
  /\ CommandInit
  /\ subject # "command" => steps = 1 /\ setup = [mounts |-> FALSE, checkout |-> "own", mounted |-> "own"]
  /\ UploadInit
  /\ subject # "ami" => name = "free" /\ ~compressed /\ \A u \in DOMAIN disk : disk[u] = "hole"
  /\ InstallInit /\ (subject # "install" => manager = "deb" /\ box /\ ~linked)
  /\ CatalogInit /\ (subject # "catalog" => \A r \in Repo : checkout[r] = 1)
  /\ ImporterInit /\ (subject # "importer" => autorelease)
  /\ ModulesInit

Trouble == Provision \/ StopBuilder \/ PublishFails \/ RestartReader("r")

SigningStep ==
  /\ subject = "signing" /\ LifeNext
  /\ troubles' = troubles + (IF Trouble THEN 1 ELSE 0) /\ troubles' <= MaxTroubles
  /\ UNCHANGED <<subject, input, others, mountsVars, checkoutVars, commandVars, uploadVars, botVars, namespaceVars,
                 supplyVars, installVars, catalogVars, importerVars, modulesVars>>

MountStep ==
  /\ subject = "mount" /\ MountNext
  /\ UNCHANGED <<subject, input, troubles, others, lifeVars, checkoutVars, commandVars, uploadVars, botVars,
                 namespaceVars, supplyVars, installVars, catalogVars, importerVars, modulesVars>>

InitStep ==
  /\ subject = "init" /\ CheckoutNext
  /\ UNCHANGED <<subject, input, troubles, others, lifeVars, mountsVars, commandVars, uploadVars, botVars,
                 namespaceVars, supplyVars, installVars, catalogVars, importerVars, modulesVars>>

CommandStep ==
  /\ subject = "command" /\ CommandNext
  /\ UNCHANGED <<subject, input, troubles, others, lifeVars, mountsVars, checkoutVars, uploadVars, botVars,
                 namespaceVars, supplyVars, installVars, catalogVars, importerVars, modulesVars>>

AmiStep ==
  /\ subject = "ami" /\ UploadNext
  /\ UNCHANGED <<subject, input, troubles, others, lifeVars, mountsVars, checkoutVars, commandVars, botVars,
                 namespaceVars, supplyVars, installVars, catalogVars, importerVars, modulesVars>>

BotStep ==
  /\ subject = "bot" /\ BotNext
  /\ UNCHANGED <<subject, input, troubles, others, lifeVars, mountsVars, checkoutVars, commandVars, uploadVars,
                 namespaceVars, supplyVars, installVars, catalogVars, importerVars, modulesVars>>

NamespaceStep ==
  /\ subject = "namespace" /\ NamespaceNext
  /\ UNCHANGED <<subject, input, troubles, others, lifeVars, mountsVars, checkoutVars, commandVars, uploadVars,
                 botVars, supplyVars, installVars, catalogVars, importerVars, modulesVars>>

SupplyStep ==
  /\ subject = "supply" /\ SupplyNext
  /\ UNCHANGED <<subject, input, troubles, others, lifeVars, mountsVars, checkoutVars, commandVars, uploadVars,
                 botVars, namespaceVars, installVars, catalogVars, importerVars, modulesVars>>

InstallStep ==
  /\ subject = "install" /\ InstallNext
  /\ UNCHANGED <<subject, input, troubles, others, lifeVars, mountsVars, checkoutVars, commandVars, uploadVars,
                 botVars, namespaceVars, supplyVars, catalogVars, importerVars, modulesVars>>

CatalogStep ==
  /\ subject = "catalog" /\ CatalogNext
  /\ UNCHANGED <<subject, input, troubles, others, lifeVars, mountsVars, checkoutVars, commandVars, uploadVars,
                 botVars, namespaceVars, supplyVars, installVars, importerVars, modulesVars>>

ImporterStep ==
  /\ subject = "importer" /\ ImporterNext
  /\ UNCHANGED <<subject, input, troubles, others, lifeVars, mountsVars, checkoutVars, commandVars, uploadVars,
                 botVars, namespaceVars, supplyVars, installVars, catalogVars, modulesVars>>

ModulesStep ==
  /\ subject = "modules" /\ ModulesNext
  /\ UNCHANGED <<subject, input, troubles, others, lifeVars, mountsVars, checkoutVars, commandVars, uploadVars,
                 botVars, namespaceVars, supplyVars, installVars, catalogVars, importerVars>>

extended ==
  <<lifeVars, mountsVars, checkoutVars, commandVars, uploadVars, botVars, namespaceVars, supplyVars,
    installVars, catalogVars, importerVars, modulesVars>>
toolsVars == <<subject, input, troubles, others, extended>>

CooldownStep ==
  /\ subject = "cooldown" /\ CD!Next
  /\ UNCHANGED <<subject, input, troubles, v4, extended>>

RootfsStep ==
  /\ subject = "rootfs" /\ OV!Next
  /\ UNCHANGED <<subject, input, troubles, v4, extended>>

SandboxStep ==
  /\ subject = "sandbox" /\ SB!Next
  /\ UNCHANGED <<subject, input, troubles, extended>>

Pick ==
  /\ input = <<>>
  /\ \/ subject = "buckconfig" /\ BlockInput
     \/ subject = "handover" /\ HandoverInput
     \/ subject = "plan" /\ PlanInput
     \/ subject = "versions" /\ input' = VR!Places(VersionStrings)
     \/ subject = "boot" /\ BootInput
     \/ subject = "archive" /\ ArchiveInput
     \/ subject = "manifest" /\ ManifestInput
  /\ UNCHANGED <<subject, troubles, others, extended>>

Next ==
  \/ SigningStep \/ CooldownStep \/ MountStep \/ InitStep \/ RootfsStep
  \/ AmiStep \/ BotStep \/ ImporterStep \/ CatalogStep \/ NamespaceStep \/ SandboxStep
  \/ SupplyStep \/ InstallStep \/ CommandStep \/ ModulesStep \/ Pick

\* A step of the endpoint is no step of the others, and needs no fairness.
Spec ==
  /\ Init /\ [][Next]_toolsVars
  /\ WF_toolsVars(CooldownStep /\ CD!Pass)
  /\ \A t \in {"t1", "t2"} : WF_toolsVars(CooldownStep /\ CD!Finish(t))

(***************************************************************************)
(* Properties of the instances, each of the behaviours it is about; those of  *)
(* the modules this one extends are theirs.                                *)
(***************************************************************************)
\* The machines with variables of their own keep them in their types.  The instances on v1 to
\* v4 (namespace, cooldown, rootfs, sandbox) and the algorithms have none stated here.
TypeOK ==
  CASE subject = "signing" -> LifeTypeOK
    [] subject = "mount" -> MountTypeOK
    [] subject = "init" -> CheckoutTypeOK
    [] subject = "ami" -> UploadTypeOK
    [] subject = "bot" -> BotTypeOK
    [] subject = "importer" -> ImporterTypeOK
    [] subject = "catalog" -> CatalogTypeOK
    [] subject = "supply" -> SupplyTypeOK
    [] subject = "command" -> CommandTypeOK
    [] subject = "install" -> InstallTypeOK
    [] subject = "modules" -> ModulesTypeOK
    [] OTHER -> TRUE

\* Cooldown: an endpoint that can be reached for good is asked again.
AskedAgain == <>[](subject = "cooldown" /\ v1) => <>[](subject = "cooldown" /\ v2 = 0)
\* Overlay: the deltas that were captured make the tree again.
CapturedTreeReturns == subject = "rootfs" => OV!CapturedTreeReturns
\* Buckconfig: the block tine writes takes effect, whatever it is put into, and a project
\* configuration that was handed over stays as it was handed over.
GeneratedConfigSound ==
  input # <<>> =>
    CASE subject = "buckconfig" -> BC!BlockTakesEffectFor(input[1], input[2], input[3], input[4], input[5])
      [] subject = "handover" -> BC!HandoverStableFor(input[1], input[2], input[3], input[4])
      [] OTHER -> TRUE
\* Sandbox: what was promised is seen, and the host has no mount point made in it.
ShowsDeclared == subject = "sandbox" => SB!ShowsDeclared
\* Plan: an accepted plan is what was asked for, and box layers are the lock of their box.
PlanSound ==
  subject = "plan" /\ input # <<>> =>
    PL!PlanSoundFor(input[1]) /\ \A older \in OlderRequests(input[1]) : PL!LayersMakeLockFor(input[1], older)

\* Versions: the order of versions is one, and the newest boots with its own initrd.
VersionsSound ==
  input # <<>> =>
    CASE subject = "versions" -> \A v \in DOMAIN input : VR!OrderFor(DOMAIN input, input, v)
      [] subject = "boot" -> VR!BootsNewestFor(input[1], ReleaseOrder)
      [] OTHER -> TRUE
\* Cpio: what was packed is read, and what was archived is unpacked.
ArchiveSound ==
  subject = "archive" /\ input # <<>> =>
    IF Len(input) = 3 THEN CP!LayoutSoundFor(input[1], input[2], input[3]) ELSE CP!TreeReturnsFor(input[1])
\* Manifest: the listings of parts and of the whole are what the parts hold.
ManifestSound == subject = "manifest" /\ input # <<>> => MF!ManifestSoundFor(input)
=============================================================================
