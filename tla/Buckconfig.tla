----------------------------- MODULE Buckconfig -----------------------------
(***************************************************************************)
(* How tine reads the configuration Buck reads, and what it writes into it *)
(* (bin/tine.py).  A line is what it is by its first character, the text   *)
(* after it, and whether a backslash ends it:                              *)
(*   [kind, name, text, more]                                              *)
(* with the section or the key in `name`.  Values are sequences of texts,  *)
(* the first from the entry, the others from lines it continues in.        *)
(***************************************************************************)
EXTENDS Naturals, Sequences, SequencesExt

Line(kind, name, text, more) == [kind |-> kind, name |-> name, text |-> text, more |-> more]
BlockBegin == Line("begin", "", "begin", FALSE)
BlockEnd == Line("end", "", "end", FALSE)

(***************************************************************************)
(* Reading                                                                 *)
(***************************************************************************)
\* _split_generated_block of a file whose block is whole.
Kept(file) ==
  LET step(st, l) ==
        CASE l.kind = "begin" -> [st EXCEPT !.inside = TRUE]
          [] l.kind = "end" -> [st EXCEPT !.inside = FALSE]
          [] OTHER -> IF st.inside THEN st ELSE [st EXCEPT !.kept = Append(@, l)]
  IN  FoldLeft(step, [inside |-> FALSE, kept |-> <<>>], file).kept

\* A comment that ends in a backslash takes nothing with it.
LogicalMutant(lines) ==
  LET step(st, l) ==
        IF st.more
          THEN [out |-> IF st.out = <<>> THEN st.out
                        ELSE [st.out EXCEPT ![Len(st.out)].value = Append(@, l.text)],
                kept |-> st.kept, more |-> l.more]
          ELSE LET keep == l.kind \notin {"blank", "comment", "begin", "end"} IN
               [out |-> IF keep THEN Append(st.out, [line |-> l, value |-> <<l.text>>]) ELSE st.out,
                kept |-> keep, more |-> l.more]
  IN  FoldLeft(step, [out |-> <<>>, kept |-> FALSE, more |-> FALSE], lines).out

(* _logical_buckconfig_lines: continuations joined, comments and blanks    *)
(* dropped, with what continues a comment dropped like the comment.        *)
Logical(lines) ==
  LET step(st, l) ==
        IF st.more
          THEN [out |-> IF st.kept THEN [st.out EXCEPT ![Len(st.out)].value = Append(@, l.text)]
                        ELSE st.out,
                kept |-> st.kept, more |-> l.more]
          ELSE LET keep == l.kind \notin {"blank", "comment", "begin", "end"} IN
               [out |-> IF keep THEN Append(st.out, [line |-> l, value |-> <<l.text>>]) ELSE st.out,
                kept |-> keep, more |-> l.more]
  IN  FoldLeft(step, [out |-> <<>>, kept |-> FALSE, more |-> FALSE], lines).out

(* _parse_buckconfig_lines, and _parse_buckconfig_file for a line that     *)
(* includes a file: files maps the names of those that exist to lines that *)
(* include nothing.  A configuration is the set of its sections and its    *)
(* entries [section, key, value]; a later entry replaces an earlier.       *)
Entered(config, section, key, value) ==
  [sections |-> config.sections \cup {section},
   entries |-> {e \in config.entries : e.section # section \/ e.key # key}
               \cup {[section |-> section, key |-> key, value |-> value]}]

ParseLines(lines, files) ==
  LET opened(st, name) == [section |-> name, config |-> [st.config EXCEPT !.sections = @ \cup {name}]]
      one(st, l) ==
        CASE l.line.kind = "section" -> opened(st, l.line.name)
          [] l.line.kind = "entry" ->
               [st EXCEPT !.config = Entered(@, st.section, l.line.name, l.value)]
          [] OTHER -> st
      step(st, l) ==
        IF l.line.kind = "include" /\ l.line.name \in DOMAIN files
          THEN FoldLeft(one, opened(st, st.section), Logical(Kept(files[l.line.name])))
          ELSE one(st, l)
  IN  FoldLeft(step, [section |-> "", config |-> [sections |-> {""}, entries |-> {}]],
               Logical(lines)).config

HasEntry(config, section, key) ==
  \E e \in config.entries : e.section = section /\ e.key = key

(***************************************************************************)
(* Writing                                                                 *)
(***************************************************************************)
\* What a command has to tell Buck: what versions derive from, one key for all of it; mounts;
\* project ignores; a cache, which takes uploads or only answers.
Told == [versions : BOOLEAN, dev : BOOLEAN, ignores : 0..2, cache : {"none", "reads", "uploads"}]

\* A section of the block, which is left out without entries.
Entries(section, entries) ==
  IF entries = <<>> THEN <<>> ELSE <<Line("section", section, "", FALSE)>> \o entries
Given(told, entry) == IF told THEN <<entry>> ELSE <<>>
Uploads(c) == IF c.cache = "uploads" THEN "true" ELSE "false"

\* render_local_config_block; the list of ignores goes on over several lines.
Block(c) ==
  <<BlockBegin, Line("comment", "", "note", FALSE)>>
  \o Given(~c.versions, Line("comment", "", "no version components", FALSE))
  \o Entries("tine", Given(c.versions, Line("entry", "version-base", "base", FALSE))
                     \o Given(c.dev, Line("entry", "dev", "mounts", FALSE))
                     \o Given(c.cache # "none", Line("entry", "cache-uploads", Uploads(c), FALSE)))
  \o Entries("project", Given(c.ignores > 0, Line("entry", "ignore", "first", c.ignores = 2))
                        \o Given(c.ignores = 2, Line("text", "", "second", FALSE)))
  \o Entries("buck2_re_client", Given(c.cache # "none", Line("entry", "address", "shim", FALSE)))
  \o <<BlockEnd>>

Setting(section, key, value) == [section |-> section, key |-> key, value |-> value]
Generated(c) ==
  (IF c.versions THEN {Setting("tine", "version-base", <<"base">>)} ELSE {})
  \cup (IF c.dev THEN {Setting("tine", "dev", <<"mounts">>)} ELSE {})
  \cup (CASE c.ignores = 0 -> {}
           [] c.ignores = 1 -> {Setting("project", "ignore", <<"first">>)}
           [] c.ignores = 2 -> {Setting("project", "ignore", <<"first", "second">>)})
  \cup (IF c.cache = "none" THEN {}
        ELSE {Setting("tine", "cache-uploads", <<Uploads(c)>>), Setting("buck2_re_client", "address", <<"shim">>)})

\* merge_generated_config_block: the block, a blank, what else the file holds.
Merge(file, block) ==
  LET kept == Kept(file)
      written == {i \in DOMAIN kept : kept[i].kind # "blank"}
      rest == IF written = {} THEN <<>>
              ELSE SubSeq(kept, CHOOSE i \in written : \A j \in written : i <= j, Len(kept))
  IN  block \o (IF rest = <<>> THEN <<>> ELSE <<Line("blank", "", "", FALSE)>> \o rest)

(* dev_targets, collect_project_ignores and buck_command: entries of the   *)
(* user's that would replace a generated one stop the command.  Nothing    *)
(* looks for those of Unchecked.                                           *)
Refused(file, files, c) ==
  LET own == ParseLines(Kept(file), files) IN
  \/ c.dev /\ HasEntry(own, "tine", "dev")
  \/ HasEntry(own, "project", "ignore")
  \/ c.cache # "none" /\ "buck2_re_client" \in own.sections

Unchecked == {"version-base", "cache-uploads"}

(***************************************************************************)
(* How Buck reads, as the code's comments describe it: an include is its   *)
(* text as far as the end of its file, any line may continue, and the last *)
(* entry wins.                                                             *)
(***************************************************************************)
WholeFile(lines) == [i \in DOMAIN lines |-> IF i = Len(lines) THEN [lines[i] EXCEPT !.more = FALSE] ELSE lines[i]]

BuckText(lines, files) ==
  FlattenSeq([i \in DOMAIN lines |->
    IF lines[i].kind = "include" /\ (i = 1 \/ ~lines[i - 1].more)
      THEN IF lines[i].name \in DOMAIN files THEN WholeFile(files[lines[i].name]) ELSE <<>>
      ELSE <<lines[i]>>])

BuckReads(text) ==
  LET Opens(i) == i = 1 \/ ~text[i - 1].more
      In(i) ==
        LET marks == {j \in 1..i : Opens(j) /\ text[j].kind = "section"} IN
        IF marks = {} THEN "" ELSE text[CHOOSE j \in marks : \A k \in marks : k <= j].name
      Ends(i) == CHOOSE j \in i..Len(text) :
        /\ \A k \in i..(j - 1) : text[k].more
        /\ ~text[j].more \/ j = Len(text)
      Entry(i) == Opens(i) /\ text[i].kind = "entry"
      Same(i, j) == Entry(j) /\ text[j].name = text[i].name /\ In(j) = In(i)
  IN  {[section |-> In(i), key |-> text[i].name,
        value |-> [k \in 1..(Ends(i) - i + 1) |-> text[i + k - 1].text]] :
         i \in {n \in DOMAIN text : Entry(n) /\ ~\E j \in (n + 1)..Len(text) : Same(n, j)}}

(* Whatever the user keeps in `.buckconfig.local`, above or below an older *)
(* block, Buck reads every entry of the user's as without the block, and   *)
(* every generated value as generated, unless the command was refused or   *)
(* the user has an entry for one of the two keys of [tine] that nothing    *)
(* refuses (render_local_config_block): such an entry comes last, and      *)
(* replaces the generated one.  The user's lines are all kept.  They have  *)
(* to open a section first: an entry above every section would be read in  *)
(* the block's last one.                                                   *)
OpensSection(lines) == Logical(lines) = <<>> \/ Logical(lines)[1].line.kind = "section"

BlockTakesEffectFor(own, old, at, files, c) ==
  LET file == SubSeq(own, 1, at) \o old \o SubSeq(own, at + 1, Len(own))
      merged == Merge(file, Block(c))
      theirs == BuckReads(BuckText(own, files))
      Replaced(g) == g.section = "tine" /\ g.key \in Unchecked
                     /\ \E e \in theirs : e.section = g.section /\ e.key = g.key
  IN  OpensSection(own) /\ ~Refused(file, files, c) =>
        /\ BuckReads(BuckText(merged, files)) = {g \in Generated(c) : ~Replaced(g)} \cup theirs
        /\ ParseLines(own, files).entries = theirs
        /\ Merge(merged, Block(c)) = merged

(***************************************************************************)
(* The project's layers: `.buckconfig.d`, `.buckconfig` with what tine.toml*)
(* overrides, `.buckconfig.local`.  A layer is the paths of its cells, in  *)
(* one section or the other: [cells |-> f, repositories |-> g], with       *)
(* NoPath for a cell that is not named; a layer without entries has no     *)
(* section.                                                                *)
(***************************************************************************)
CellNames == {"tine", "catalog"}
NoPath == "no path"
NoCells == [n \in CellNames |-> NoPath]
Over(f, g) == [n \in CellNames |-> IF g[n] = NoPath THEN f[n] ELSE g[n]]
Layered(f, g) == [cells |-> Over(f.cells, g.cells), repositories |-> Over(f.repositories, g.repositories)]

\* cells_of: the older spelling only where the newer is absent.
CellsOf(l) == IF l.cells # NoCells THEN l.cells ELSE l.repositories

\* read_project_buckconfig
ReadProject(d, b, toml, l) ==
  Layered(Layered(Layered(d, b), [cells |-> toml, repositories |-> NoCells]), l)

(* refresh_project_buckconfig and render_project_buckconfig: the defaults  *)
(* of the checkout, without the paths of its own cells; the cells of       *)
(* tine.toml, or of the file being replaced where it names no tine cell;   *)
(* and the catalog inside the tine cell unless one is named.               *)
Refreshed(d, b, toml, l) ==
  IF CellsOf(ReadProject(d, b, toml, l))["tine"] \in {NoPath, "."} THEN b
  ELSE LET cells == IF toml["tine"] # NoPath THEN toml ELSE Over(CellsOf(b), toml)
           catalog == IF cells["catalog"] = NoPath /\ cells["tine"] # NoPath
                        THEN cells["tine"] \o "/catalog" ELSE cells["catalog"]
       IN  [cells |-> [cells EXCEPT !["catalog"] = catalog], repositories |-> NoCells]

(* The wrapper a command hands over to before it refreshes `.buckconfig`   *)
(* is the one the refreshed configuration names, and refreshing again      *)
(* changes nothing, where all the files spell the section alike            *)
(* (reexec_configured_wrapper, refresh_project_buckconfig).                *)
HandoverStableFor(d, b, toml, l) ==
  LET fresh == Refreshed(d, b, toml, l) IN
  /\ CellsOf(ReadProject(d, fresh, toml, l))["tine"] = CellsOf(ReadProject(d, b, toml, l))["tine"]
  /\ Refreshed(d, fresh, toml, l) = fresh
=============================================================================
