-------------------------------- MODULE Volume --------------------------------
(***************************************************************************)
(* A container from its index to what a mounted volume shows: pack's scan  *)
(* or any authenticated index, open with validate_index (Index), the FUSE  *)
(* and WinFsp adapters (cipherfs-fuse, cipherfs-winfsp lib.rs) over        *)
(* ReadOnlyFs, with the Windows names (WindowsNames), and a kernel that    *)
(* opens one node and lists it buffer by buffer.                           *)
(***************************************************************************)
EXTENDS Index

CONSTANTS Sources,     \* walks of source trees
          RawIndexes,  \* [header, entries] records that some writer authenticated
          MaxBuffer    \* bound: entries that fit in a reply

ASSUME VolumeAssumption ==
  /\ MaxBuffer \in Nat \ {0}
  /\ \A items \in Sources : IsWalk(items)
  /\ \A r \in RawIndexes :
       r.entries \in Seq(Entry) /\ {r.header.entry_count, r.header.data_size} \subseteq Nat

VARIABLES
  origin,    \* "packed" by scan_source, or "raw"
  header,    \* entry_count and data_size
  index,     \* the entries, in order
  vol,       \* "closed", "open" or "refused"
  adapter,   \* "fuse" or "winfsp"
  names,     \* winfsp: what each node is shown as
  asked,     \* the node whose path the kernel opens
  handle,    \* the node the adapter found; 0: none
  listing,   \* the sorted directory; the code sorts it anew in every call
  cursor,    \* fuse: the offset; winfsp: the marker, an id, 0 for none
  got,       \* ids listed so far
  done       \* the kernel has seen the end of the directory

vars == <<origin, header, index, vol, adapter, names, asked, handle, listing, cursor, got, done>>

(* Where the adapter runs; the container may come from anywhere. *)
Platform == IF adapter = "fuse" THEN "unix" ELSE "windows"

Packed == {scan_source(p, items) : p \in Platforms, items \in Sources}

Init ==
  /\ \/ /\ origin = "packed"
        /\ \E p \in {q \in Packed : q.ok} :
             /\ index = p.entries
             /\ header = [entry_count |-> Len(p.entries), data_size |-> p.data_offset]
     \/ origin = "raw" /\ \E r \in RawIndexes : index = r.entries /\ header = r.header
  /\ vol = "closed" /\ adapter \in {"fuse", "winfsp"}
  /\ names = <<>> /\ asked = 0 /\ handle = 0 /\ listing = <<>> /\ cursor = 0 /\ got = <<>> /\ done = FALSE

volumeVars == <<origin, header, index, adapter>>

Node(id) == CHOOSE e \in Range(index) : e.id = id
Children(id) == {e \in Range(index) : e.id # 1 /\ e.parent_id = id}
NodeIds == {e.id : e \in Range(index)}

(* WindowsNameMap::new, directory by directory. *)
NameMap == [id \in NodeIds \ {1} |-> DisplayNames(Children(Node(id).parent_id))[id]]

(* ReadOnlyFs::open; WinFspCipherFs::open also makes the names.             *)
Open ==
  /\ vol = "closed"
  /\ \/ /\ validate_index(Platform, header, index)
        /\ vol' = "open"
        /\ names' = IF adapter = "winfsp" THEN NameMap ELSE names
     \/ ~validate_index(Platform, header, index) /\ vol' = "refused" /\ UNCHANGED names
  /\ UNCHANGED <<volumeVars, asked, handle, listing, cursor, got, done>>

----------------------------------------------------------------------------

(* The path of a node, as the ids from the root's child down to it.         *)
PathOf(id) ==
  LET depth == Node(id).depth
      up[k \in 0..depth] == IF k = 0 THEN id ELSE Node(up[k - 1]).parent_id
  IN  [k \in 1..depth |-> up[depth - k]]

(* What a kernel asks fuse for, given a shown name: no separator is in it.  *)
Component(name) == IF name[1] \in Slashed THEN <<"q", name[2], name[3]>> ELSE name

(* One component of a path: lookup in fuse, the name map in winfsp.         *)
Step(parent, id) ==
  IF adapter = "fuse"
  THEN LET same == {e \in Children(parent) : e.name = Component(Node(id).name)}
       IN  IF same = {} THEN 0 ELSE (CHOOSE e \in same : TRUE).id
  ELSE lookup(Children(parent), names, names[id])

(* resolve: from the root, component by component. *)
Resolve(path) == FoldLeft(LAMBDA at, id : IF at = 0 THEN 0 ELSE Step(at, id), 1, path)

(* The ids of children by a key, and by id where it is equal.               *)
SortedIds(children, key) ==
  LET s == InOrder(children, {p \in children \X children :
             \/ key[p[1]] < key[p[2]]
             \/ key[p[1]] = key[p[2]] /\ p[1].id < p[2].id})
  IN  [k \in DOMAIN s |-> s[k].id]

(* read_dir sorts by the bytes of the name. *)
ReadDir(id) ==
  LET children == Children(id)
  IN  SortedIds(children, [e \in children |-> ByteOrder(e.name)])

Least(m, n) == Min({m, n})

(* read_directory sorts by what is shown, as Windows compares it. *)
WinListing(id) ==
  LET children == Children(id)
  IN  SortedIds(children, [e \in children |-> compare_display_names(names[e.id])])

(* readdir begins with "." and "..". *)
FuseListing(id) == <<id, Node(id).parent_id>> \o ReadDir(id)

(* The kernel opens a node by the path it was shown; what is not found or   *)
(* is a file has no listing (ENOENT, ENOTDIR).                              *)
OpenNode(id) ==
  /\ vol = "open" /\ asked = 0
  /\ asked' = id /\ handle' = Resolve(PathOf(id))
  /\ IF handle' = 0 \/ Node(handle').kind = "File"
     THEN done' = TRUE /\ UNCHANGED listing
     ELSE /\ listing' = IF adapter = "fuse" THEN FuseListing(handle') ELSE WinListing(handle')
          /\ UNCHANGED done
  /\ UNCHANGED <<volumeVars, vol, names, cursor, got>>

(* An entry at position i, from 0, carries the offset i + 1. *)
OffsetAfter(position) == position + 1

(* readdir: n entries fit. *)
FuseReaddir(n) ==
  LET last == Least(Len(listing), cursor + n)
  IN  /\ adapter = "fuse" /\ handle # 0 /\ ~done
      /\ got' = got \o SubSeq(listing, cursor + 1, last)
      /\ cursor' = IF last > cursor THEN OffsetAfter(last - 1) ELSE cursor
      /\ done' = (last <= cursor)
      /\ UNCHANGED <<volumeVars, vol, names, asked, handle, listing>>

(* The marker is compared with the names in the container. *)
MutMarked(child, marker) == equivalent(Node(child).name, marker)

Marked(child, marker) == equivalent(names[child], marker)

(* Where a listing goes on: after the first child the marker names, or from *)
(* the beginning if there is none.                                          *)
Start ==
  LET hits == {k \in DOMAIN listing : cursor # 0 /\ Marked(listing[k], names[cursor])}
  IN  IF hits = {} THEN 0 ELSE Min(hits)

(* The buffer is not finalised. *)
MutFinalized(spare, empty) == FALSE

(* finalize_buffer always follows the entries and takes two bytes; spare    *)
(* says that they are there, as in an empty buffer they are.  WinFsp reads  *)
(* what it adds as the end of the directory.                                *)
Finalized(spare, empty) == spare \/ empty

(* read_directory: n of the children fit. *)
WinReadDirectory(n, spare) ==
  LET start == Start
      last  == Least(Len(listing), start + n)
  IN  /\ adapter = "winfsp" /\ handle # 0 /\ ~done
      /\ got' = got \o SubSeq(listing, start + 1, last)
      /\ cursor' = IF last > start THEN listing[last] ELSE cursor
      /\ done' = Finalized(spare, last = start)
      /\ UNCHANGED <<volumeVars, vol, names, asked, handle, listing>>

List == \E n \in 1..MaxBuffer :
          FuseReaddir(n) \/ \E spare \in BOOLEAN : WinReadDirectory(n, spare)

Done == (vol = "refused" \/ done) /\ UNCHANGED vars

Next == Open \/ (\E id \in NodeIds : OpenNode(id)) \/ List \/ Done

(* A kernel that lists a directory asks until it has seen the end. *)
Spec == Init /\ [][Next]_vars /\ WF_vars(List)

----------------------------------------------------------------------------

(* What pack's scan lays out, empty files included, open accepts: the check *)
(* of contiguous offsets never turns against a container of our own.  The   *)
(* one cause of a refusal is a name from Unix that Windows' Path takes      *)
(* apart, as a:b (validate_name).                                           *)
PackedIsAccepted ==
  origin = "packed" /\ vol = "refused" =>
    /\ adapter = "winfsp"
    /\ \E e \in Range(index) : e.id # 1 /\ ~validate_name("windows", e.name)

(* An accepted index is sound.  Its parents lead to the root, each node     *)
(* once: no cycle, no orphan and no two siblings of one name, although only *)
(* the depths of neighbours are compared.  The records of its files cover   *)
(* the data region, each byte once, and a record is never shorter than its  *)
(* plaintext and tags (validate_index, encrypted_file_size).                *)
OpenedIsSound ==
  vol = "open" =>
    LET Reached[d \in 0..MAX_DEPTH] ==
          IF d = 0 THEN {1}
          ELSE Reached[d - 1] \cup {e.id : e \in UNION {Children(id) : id \in Reached[d - 1]}}
        Bytes(e) == (e.data_offset + 1)..(e.data_offset + e.encrypted_size)
        files    == {e \in Range(index) : e.kind = "File"}
    IN  /\ Reached[MAX_DEPTH] = NodeIds
        /\ Cardinality(NodeIds) = Len(index)
        /\ \A d, e \in Range(index) :
             d.id # e.id => d.parent_id # e.parent_id \/ d.name # e.name
        /\ UNION {Bytes(e) : e \in files} = 1..header.data_size
        /\ \A e, f \in files : e.id # f.id => Bytes(e) \cap Bytes(f) = {}
        /\ \A e \in files : /\ e.chunk_count * CHUNK_SIZE >= e.size
                            /\ e.encrypted_size = e.size + e.chunk_count * TAG_SIZE

(* A path that was shown leads back to the node it was shown for, also when *)
(* names collide in Windows, or with a name made up for another file        *)
(* (WindowsNameMap::new, lookup).  Only under fuse, in an index that pack   *)
(* did not write, a name that ends with a separator, which validate_name    *)
(* lets through, may lead elsewhere or nowhere.                             *)
ShownPathResolves ==
  handle # asked =>
    /\ origin = "raw" /\ adapter = "fuse"
    /\ \E k \in DOMAIN PathOf(asked) : Node(PathOf(asked)[k]).name[1] \in Slashed

(* Nothing is listed twice and nothing is passed over: what has been listed *)
(* is the beginning of the directory, whatever the sizes of the buffers;    *)
(* fuse reports the end only after the last entry (readdir, read_directory).*)
ListedInOrder ==
  handle # 0 =>
    /\ IsPrefix(got, listing)
    /\ adapter = "fuse" /\ done => got = listing

(* A listing ends: a marker that is not found starts it anew, so every      *)
(* marker must be found (read_directory).                                   *)
ListingEnds == (handle # 0) ~> done

(* "Files with names that are greater than (not equal to) this marker ...   *)
(* should be returned" (winfsp.h): at the end of a listing every child has  *)
(* been returned.                                                           *)
WinListsAll ==
  adapter = "winfsp" /\ done =>
    Range(got) = Range(listing)
=============================================================================
