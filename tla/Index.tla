-------------------------------- MODULE Index --------------------------------
(***************************************************************************)
(* The container index (cipherfs-core v2.rs): how pack lays files out in   *)
(* the data region (scan_source in pack.rs), and what open accepts         *)
(* (validate_index).  u64 arithmetic is checked: a result beyond MaxU64 is *)
(* an error, never a wrapped number.                                       *)
(***************************************************************************)
EXTENDS WindowsNames

CONSTANTS CHUNK_SIZE, TAG_SIZE,
          MaxU64,                  \* u64::MAX, scaled down
          MAX_DEPTH, MAX_ENTRIES

ASSUME IndexAssumption ==
  /\ CHUNK_SIZE \in Nat \ {0} /\ TAG_SIZE \in Nat \ {0}
  /\ {MaxU64, MAX_DEPTH} \subseteq Nat /\ MAX_ENTRIES \in Nat \ {0}

Fits(n) == n <= MaxU64

(* Chunks and bytes of a file's ciphertext: an empty file has none. *)
encrypted_file_size(size) ==
  LET chunks    == (size + CHUNK_SIZE - 1) \div CHUNK_SIZE
      encrypted == size + chunks * TAG_SIZE
  IN  [ok |-> size = 0 \/ (Fits(size + CHUNK_SIZE - 1) /\ Fits(encrypted)),
       chunks |-> chunks, encrypted |-> encrypted]

Kinds == {"Directory", "File"}
Entry == [id : Nat, parent_id : Nat, name : Names, depth : Nat, kind : Kinds, file_id : Nat,
          size : Nat, data_offset : Nat, encrypted_size : Nat, chunk_count : Nat]

NoFile == 0                        \* the all-zero file id
Root == [id |-> 1, parent_id |-> 1, name |-> <<"", 0, <<>> >>, depth |-> 0,
         kind |-> "Directory", file_id |-> NoFile, size |-> 0, data_offset |-> 0,
         encrypted_size |-> 0, chunk_count |-> 0]

Platforms == {"unix", "windows"}

Special == {"", ".."}
Slashed == {"q/"}                  \* Path::components drops what ends it
UnixOnly == {"q:"}                 \* more than one component to Windows' Path

(* Path::components of the running platform finds one normal component.     *)
(* See WindowsNames for names; with a suffix a special one is normal and a  *)
(* separator no longer ends it.                                             *)
validate_name(platform, name) ==
  /\ name[1] \in Special => name[3] # <<>>
  /\ name[1] \in Slashed => name[3] = <<>>
  /\ name[1] \in UnixOnly => platform = "unix"

(* What the walk of a source tree finds: parents first, no name twice in a  *)
(* directory, and a file system's names have no separator.                  *)
IsWalk(items) ==
  /\ items \in Seq([parent : Nat, kind : Kinds, name : Names, size : Nat])
  /\ \A i \in DOMAIN items :
       items[i].parent = 1 \/ \E j \in 1..(i - 1) : items[i].parent = j + 1 /\ items[j].kind = "Directory"
  /\ IsInjective([i \in DOMAIN items |-> <<items[i].parent, items[i].name>>])
  /\ \A i \in DOMAIN items : items[i].name[1] \notin Slashed

(* One item of the walk: ids count up, a parent has been visited before,    *)
(* file ids are fresh, and data follows data.                               *)
ScanItem(platform, acc, item) ==
  LET id     == Len(acc.entries) + 1
      parent == acc.entries[item.parent]
      layout == encrypted_file_size(item.size)
      entry  == [id |-> id, parent_id |-> item.parent, name |-> item.name,
                 depth |-> parent.depth + 1, kind |-> item.kind,
                 file_id |-> NoFile, size |-> 0, data_offset |-> 0,
                 encrypted_size |-> 0, chunk_count |-> 0]
      file   == [entry EXCEPT !.file_id = id, !.size = item.size,
                              !.data_offset = acc.data_offset,
                              !.encrypted_size = layout.encrypted, !.chunk_count = layout.chunks]
      limits == /\ validate_name(platform, item.name)
                /\ entry.depth <= MAX_DEPTH /\ Len(acc.entries) < MAX_ENTRIES
      fits   == /\ layout.ok
                /\ Fits(acc.plaintext + item.size)
                /\ Fits(acc.data_offset + layout.encrypted)
  IN  IF item.kind = "Directory"
      THEN [acc EXCEPT !.ok = @ /\ limits, !.entries = Append(@, entry)]
      ELSE [acc EXCEPT !.ok = @ /\ limits /\ fits, !.entries = Append(@, file),
                       !.plaintext = @ + item.size,
                       !.data_offset = @ + layout.encrypted]

(* The index of a source tree given as the items of its walk, parents first.*)
scan_source(platform, items) ==
  FoldLeft(LAMBDA acc, item : ScanItem(platform, acc, item),
           [ok |-> TRUE, entries |-> <<Root>>, plaintext |-> 0, data_offset |-> 0], items)

----------------------------------------------------------------------------

RootOk(e) == e.parent_id = 1 /\ e.depth = 0 /\ e.kind = "Directory" /\ e.name = Root.name

DirectoryOk(e) ==
  <<e.size, e.data_offset, e.encrypted_size, e.chunk_count, e.file_id>> = <<0, 0, 0, 0, NoFile>>

FileOk(e) ==
  LET layout == encrypted_file_size(e.size)
  IN  /\ e.file_id # NoFile
      /\ layout.ok
      /\ e.chunk_count = layout.chunks /\ e.encrypted_size = layout.encrypted

(* What the loop over the entries asks of each. *)
EntryOk(platform, e) ==
  /\ e.id # 0 /\ e.depth <= MAX_DEPTH
  /\ IF e.id = 1 THEN RootOk(e) ELSE validate_name(platform, e.name)
  /\ IF e.kind = "Directory" THEN DirectoryOk(e) ELSE FileOk(e)

FilesOf(entries) == {i \in DOMAIN entries : entries[i].kind = "File"}
Below(entries) == {i \in DOMAIN entries : entries[i].id # 1}

(* The depth of the parent is not compared. *)
MutLinkOk(e, entries) ==
  \E p \in Range(entries) : p.id = e.parent_id /\ p.kind = "Directory"

(* The parent exists, is a directory and is one level higher. *)
LinkOk(e, entries) ==
  \E p \in Range(entries) :
    p.id = e.parent_id /\ p.kind = "Directory" /\ p.depth + 1 = e.depth

(* An unstable sort: a file may come before an empty one at its offset.     *)
MutByOffset(i, j, entries) ==
  \/ entries[i].data_offset < entries[j].data_offset
  \/ entries[i].data_offset = entries[j].data_offset /\ i > j

(* sort_by_key on the offset, which is stable. *)
ByOffset(i, j, entries) ==
  \/ entries[i].data_offset < entries[j].data_offset
  \/ entries[i].data_offset = entries[j].data_offset /\ i < j

Sorted(entries) ==
  LET files == FilesOf(entries)
  IN  InOrder(files, {p \in files \X files : ByOffset(p[1], p[2], entries)})

(* In the order of their offsets each file begins where the one before      *)
(* ends, and the last ends the data region.                                 *)
LayoutOk(entries, data_size) ==
  LET s == Sorted(entries)
      End(k) == IF k = 0 THEN 0 ELSE entries[s[k]].data_offset + entries[s[k]].encrypted_size
  IN  /\ \A k \in DOMAIN s : entries[s[k]].data_offset = End(k - 1) /\ Fits(End(k))
      /\ End(Len(s)) = data_size

validate_index(platform, header, entries) ==
  /\ Len(entries) = header.entry_count /\ Len(entries) <= MAX_ENTRIES
  /\ \A i \in DOMAIN entries : EntryOk(platform, entries[i])
  /\ IsInjective([i \in DOMAIN entries |-> entries[i].id])
  /\ IsInjective([i \in FilesOf(entries) |-> entries[i].file_id])
  /\ \E i \in DOMAIN entries : entries[i].id = 1
  /\ \A i \in Below(entries) : LinkOk(entries[i], entries)
  /\ IsInjective([i \in Below(entries) |-> <<entries[i].parent_id, entries[i].name>>])
  /\ LayoutOk(entries, header.data_size)
=============================================================================
