------------------------------- MODULE MCVolume -------------------------------
EXTENDS Volume

Plain(stem) == <<stem, 1, <<>> >>

(* Walks: every way to name three files of one directory; a directory with  *)
(* files below it; sizes around the chunk and the u64 boundary.             *)
MCNames == {Plain(s) : s \in {"a", "con", "con.x", "q:", "q?", "q_", "t."}}
           \cup {<<s, 2, <<>> >> : s \in {"a", "con"}}
           \cup {<<"q_", 1, << <<2, 0>> >> >>, <<"q_", 1, << <<3, 0>> >> >>, <<"t", 2, << <<2, 0>> >> >>}
Item(parent, kind, name, size) == [parent |-> parent, kind |-> kind, name |-> name, size |-> size]
MCNamed ==
  {s \in [1..3 -> {Item(1, "File", n, 0) : n \in MCNames}] :
     \A i, j \in 1..3 : i # j => s[i].name # s[j].name}
MCNested == {<<Item(1, "Directory", m, 0), Item(2, "File", n, x), Item(1, "File", Plain("t"), y)>> :
               m, n \in {Plain("a"), Plain("con"), <<"a", 2, <<>> >>}, x, y \in {0, 1, 2, 5}}
MCSized == {<<Item(1, "File", Plain("a"), x), Item(1, "File", Plain("q_"), y), Item(1, "File", Plain("t"), z)>> :
               x, y, z \in {0, 1, 2, 3, 11, 12}}
MCAllSources == MCNamed \cup MCNested \cup MCSized

(* Raw indexes: any links between the root and two more entries; any        *)
(* offsets of three files; one file with any fields.                        *)
Dir(id, parent, name, depth) ==
  [Root EXCEPT !.id = id, !.parent_id = parent, !.name = Plain(name), !.depth = depth]
File(id, name, offset, size, chunks, encrypted) ==
  [Dir(id, 1, name, 1) EXCEPT !.kind = "File", !.file_id = id, !.size = size,
     !.data_offset = offset, !.chunk_count = chunks, !.encrypted_size = encrypted]
Good(id, name, offset, size) ==
  LET layout == encrypted_file_size(size) IN File(id, name, offset, size, layout.chunks, layout.encrypted)
Raw(entries, count, bytes) ==
  [entries |-> entries, header |-> [entry_count |-> count, data_size |-> bytes]]
MCLinks ==
  {Raw(<<Root, Dir(i, p, m, d), Dir(j, q, n, e)>>, 3, 0) :
     i \in {0, 1, 2}, j \in {2, 3}, p, q \in 1..4, m \in {"a", "q/", "q:", ".."}, n \in {"a", "q"},
     d, e \in 0..3}
MCLayouts ==
  {Raw(<<Root, Good(2, "a", o, x), Good(3, "q_", p, y), Good(4, "t", q, z)>>, 4, bytes) :
     o, p, q \in {0, 2, 3, 5}, x, y, z \in {0, 1, 2}, bytes \in {2, 5, 6}}
MCFields ==
  {Raw(<<Root, File(2, "a", o, x, c, y)>>, n, y) :
     o \in {0, 1}, x \in {0, 1, 2, 3, 11, 12}, c \in 0..6, y \in 0..12, n \in {2, 3}}
MCRaw == MCLinks \cup MCLayouts \cup MCFields
=============================================================================
