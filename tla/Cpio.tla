-------------------------------- MODULE Cpio --------------------------------
(***************************************************************************)
(* Archives in newc format: archive/cpio.py, and package_system/rpm's      *)
(* extraction of package payloads with it.                                 *)
(*                                                                         *)
(* First the places of things in an archive, in bytes; then the tree that  *)
(* several archives are unpacked into, where files are inodes.  The names  *)
(* of a tree are flat: directories are made where they are needed.         *)
(***************************************************************************)
EXTENDS Integers, Sequences, FiniteSets, SequencesExt

(***************************************************************************)
(* Writer and read: an entry to write is [name, size], the length of its   *)
(* name and of its payload; a record is where it was put.                  *)
(***************************************************************************)
Header == 110
Block == 4096
PathMax == 4096

Roundup(n, align) == ((n + align - 1) \div align) * align

\* The name's field is stretched up to a boundary, unless the kernel would
\* take the name for one that is too long.
NameSize(pos, entry, blockAlign) ==
  LET plain == entry.name + 1
      padded == Roundup(pos + Header + plain, Block) - (pos + Header)
  IN  IF blockAlign /\ entry.size >= Block /\ padded <= PathMax THEN padded ELSE plain

Record(at, entry, blockAlign) ==
  LET namesize == NameSize(at, entry, blockAlign)
      data == Roundup(at + Header + namesize, 4)
  IN  [at |-> at, name |-> entry.name, namesize |-> namesize, size |-> entry.size,
       data |-> data, next |-> Roundup(data + entry.size, 4)]

Put(records, entry, blockAlign) ==
  Append(records, Record(IF records = <<>> THEN 0 ELSE records[Len(records)].next, entry, blockAlign))

\* The trailer is the last record.
Trailer == [name |-> 10, size |-> 0]
Written(entries, blockAlign) ==
  LET records[n \in 0..Len(entries)] ==
        IF n = 0 THEN <<>> ELSE Put(records[n - 1], entries[n], blockAlign)
  IN  Put(records[Len(entries)], Trailer, FALSE)

\* The archive begins at `start` of what is read; nothing else is a header.
Align(start, pos) == start + Roundup(pos - start, 4)

\* A turn of the loop: where there is no header it raises, and never ends well.
ReadTurn(records, start, seen) ==
  LET headers == {r \in Range(records) : start + r.at = seen.off}
      r == CHOOSE r \in headers : TRUE
      data == Align(start, seen.off + Header + r.namesize)
  IN  IF headers = {} THEN seen
      ELSE IF r.at = records[Len(records)].at THEN [seen EXCEPT !.ended = TRUE]
      ELSE [off |-> Align(start, data + r.size), ended |-> FALSE,
            found |-> Append(seen.found, [name |-> r.name, size |-> r.size, data |-> data])]

\* No loop takes more turns than there are records.
Read(records, start) ==
  LET turn[n \in 0..Len(records)] ==
        IF n = 0 THEN [off |-> start, ended |-> FALSE, found |-> <<>>]
        ELSE ReadTurn(records, start, turn[n - 1])
  IN  turn[Len(records)]

(***************************************************************************)
(* _extract: an entry is [name, kind, ino, links, data, mode, target], its *)
(* data 0 when it has none.  `at` says what each name is, `files` holds    *)
(* the inodes.                                                             *)
(***************************************************************************)
NoFiles == [at |-> << >>, files |-> <<>>]
Named(tree, name) == name \in DOMAIN tree.at

\* os.open follows a link, and writes into the inode that is there.
Follow(tree, name) ==
  IF Named(tree, name) /\ tree.at[name].kind = "link" THEN tree.at[name].target ELSE name

PutRegular(tree, name, data, mode) ==
  LET place == Follow(tree, name)
      file == [data |-> data, mode |-> mode]
  IN  IF Named(tree, place) THEN [tree EXCEPT !.files[tree.at[place].ino] = file]
      ELSE [at |-> [n \in {place} |-> [kind |-> "file", ino |-> Len(tree.files) + 1, target |-> name]] @@ tree.at,
            files |-> Append(tree.files, file)]

Relink(tree, name, node) == [tree EXCEPT !.at = [n \in {name} |-> node] @@ @]
Hardlink(tree, name, target) == Relink(tree, name, tree.at[Follow(tree, target)])
Symlink(tree, name, target) == Relink(tree, name, [kind |-> "link", ino |-> 0, target |-> target])

\* Whether an entry is one name of several of its file.
ManyNamed(e) == e.kind = "file" /\ e.links > 1

\* What one entry does: a name without content waits for the one that has it.
Unpacked(seen, e) ==
  LET known == ManyNamed(e) /\ e.ino \in DOMAIN seen.canonical
      Waits(x) == ManyNamed(x) /\ x.ino = e.ino
      put == PutRegular(seen.tree, e.name, e.data, e.mode)
      flushed == FoldLeft(LAMBDA tree, x : Hardlink(tree, x.name, e.name), put, SelectSeq(seen.pending, Waits))
  IN  CASE e.kind = "link" -> [seen EXCEPT !.tree = Symlink(@, e.name, e.target)]
        [] e.kind = "device" -> seen
        [] ManyNamed(e) /\ e.data = 0 /\ known ->
             [seen EXCEPT !.tree = Hardlink(@, e.name, seen.canonical[e.ino])]
        [] ManyNamed(e) /\ e.data = 0 /\ ~known -> [seen EXCEPT !.pending = Append(@, e)]
        [] OTHER ->
             IF ~ManyNamed(e) THEN [seen EXCEPT !.tree = put]
             ELSE [tree |-> flushed, canonical |-> [i \in {e.ino} |-> e.name] @@ seen.canonical,
                   pending |-> SelectSeq(seen.pending, LAMBDA x : ~Waits(x))]

\* What is still waiting at the end has no content in this archive.
UnpackMutant(tree, archive) == FoldLeft(Unpacked, [tree |-> tree, canonical |-> << >>, pending |-> <<>>], archive).tree

Unpack(tree, archive) ==
  LET seen == FoldLeft(Unpacked, [tree |-> tree, canonical |-> << >>, pending |-> <<>>], archive)
  IN  FoldLeft(LAMBDA t, e : PutRegular(t, e.name, 0, e.mode), seen.tree, seen.pending)

UnpackAll(archives) == FoldLeft(Unpack, NoFiles, archives)

-----------------------------------------------------------------------------
(* What was written is what is read, wherever the archive lies in a file;  *)
(* payloads lie where the file system can share them, and no name field is *)
(* longer than the kernel accepts unless the name itself is.               *)
LayoutSoundFor(entries, blockAlign, start) ==
  LET records == Written(entries, blockAlign)
      read == Read(records, start)
      found == read.found
  IN  /\ read.ended /\ Len(found) = Len(entries)
      /\ \A i \in DOMAIN found :
           /\ found[i] = [name |-> entries[i].name, size |-> entries[i].size, data |-> start + records[i].data]
           /\ records[i].data >= records[i].at + Header + entries[i].name + 1
           /\ records[i].data + entries[i].size <= records[i + 1].at
           /\ records[i].namesize <= PathMax \/ entries[i].name >= PathMax
           /\ blockAlign /\ entries[i].size >= Block =>
                \/ records[i].data % Block = 0
                \/ records[i].namesize = entries[i].name + 1

\* Packages that are installed together say the same of a name.
Files(archive) == {e \in Range(archive) : e.kind # "device"}
DataOf(archive, e) ==
  IF \E x \in Range(archive) : ManyNamed(e) /\ ManyNamed(x) /\ x.ino = e.ino /\ x.data # 0
    THEN (CHOOSE x \in Range(archive) : ManyNamed(x) /\ x.ino = e.ino /\ x.data # 0).data
    ELSE e.data
Agree(archives) ==
  \A i, j \in DOMAIN archives : \A e \in Files(archives[i]), x \in Files(archives[j]) :
    e.name = x.name =>
      /\ e.kind = x.kind /\ e.target = x.target /\ e.mode = x.mode
      /\ DataOf(archives[i], e) = DataOf(archives[j], x)
      /\ ManyNamed(e) = ManyNamed(x)
      /\ {y.name : y \in {z \in Range(archives[i]) : ManyNamed(z) /\ z.ino = e.ino}} =
         {y.name : y \in {z \in Range(archives[j]) : ManyNamed(z) /\ z.ino = x.ino}}

(* Every name is there with its content and mode, nothing else is, and two *)
(* names are one file when an archive with their content says they are --  *)
(* in whatever order the names of a file come, whichever of them carries   *)
(* its content, and whatever number another archive gave it.               *)
TreeReturnsFor(archives) ==
  LET tree == UnpackAll(archives)
      File(name) == tree.files[tree.at[name].ino]
  IN  Agree(archives) =>
        /\ DOMAIN tree.at = UNION {{e.name : e \in Files(archives[i])} : i \in DOMAIN archives}
        /\ \A i \in DOMAIN archives : \A e \in Files(archives[i]) :
             /\ tree.at[e.name].kind = e.kind
             /\ e.kind = "link" => tree.at[e.name].target = e.target
             /\ e.kind = "file" => File(e.name) = [data |-> DataOf(archives[i], e), mode |-> e.mode]
             /\ \A x \in Files(archives[i]) :
                  e.kind = "file" /\ x.kind = "file" /\ e.name # x.name =>
                    (tree.at[e.name].ino = tree.at[x.name].ino <=>
                       ManyNamed(e) /\ ManyNamed(x) /\ e.ino = x.ino /\ DataOf(archives[i], e) # 0)
=============================================================================
