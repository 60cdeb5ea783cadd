---------------------------- MODULE WindowsNames ----------------------------
(***************************************************************************)
(* The names Windows is shown (cipherfs-core windows_names.rs).            *)
(*                                                                         *)
(* A name is <<stem, spelling, suffixes>>: names that differ only in the   *)
(* spelling are one name to Windows' ordinal comparison, and a suffix      *)
(* <<id, attempt>> is "~cfs-id" or, from the second attempt on,            *)
(* "~cfs-id-attempt".  A file may already be called so in the container.   *)
(* The stems stand for the cases of needs_mapping: an invalid character    *)
(* (q?, cleaned to q_), a trailing dot (t.), a device name (con) and one   *)
(* with an extension (con.x); and for those of validate_name (Index): a    *)
(* trailing separator (q/) and what is one component only on Unix (q:, for *)
(* names as a:b and a\b).                                                  *)
(***************************************************************************)
EXTENDS Naturals, Sequences, SequencesExt, FiniteSetsExt, Ordered

Stems == 
  <<"", "..", "a", "con", "con.x", "q", "q/", "q:", "q?", "q_", "t", "t.">>   \* in byte order

Names == Range(Stems) \X Nat \X Seq(Nat \X Nat)

(* Numbers that stand for the order of names: of their bytes, and of their  *)
(* ordinal keys, in which the spelling has no part.                         *)
Rank(stem) == CHOOSE i \in DOMAIN Stems : Stems[i] = stem
Code(suffixes) == FoldLeft(LAMBDA acc, s : acc * 100 + s[1] * 10 + s[2] + 1, 0, suffixes)
ByteOrder(name) == (Rank(name[1]) * 10 + name[2]) * 10000 + Code(name[3])
compare_display_names(name) == Rank(name[1]) * 10000 + Code(name[3])

Invalid == {"q/", "q:", "q?"}
Trailing == {"t."}
Devices == {"con"}
DevicesWithExtension == {"con.x"}

(* OrdinalName: what Windows compares. *)
OrdinalName(name) == <<name[1], name[3]>>
equivalent(m, n) == OrdinalName(m) = OrdinalName(n)

(* A device name is recognised by the part before the first dot.  A suffix  *)
(* comes after the extension, so it does not change that part of con.x.     *)
needs_mapping(name) ==
  \/ name[1] \in Invalid \cup DevicesWithExtension
  \/ name[1] \in Trailing \cup Devices /\ name[3] = <<>>

Cleaned(stem) == CASE stem \in Invalid -> "q_"
                   [] stem \in Trailing -> "t"
                   [] OTHER -> stem

mapped_name(name, id, attempt) ==
  <<Cleaned(name[1]), name[2], Append(name[3], <<id, attempt>>)>>

Collides(node, siblings) == \E s \in siblings : s.id # node.id /\ equivalent(s.name, node.name)

Kept(node, siblings) == ~needs_mapping(node.name) /\ ~Collides(node, siblings)

(* The first attempt whose name is not used. *)
FreeName(node, used) ==
  LET attempt == CHOOSE a \in 0..Cardinality(used) :
        /\ OrdinalName(mapped_name(node.name, node.id, a)) \notin used
        /\ \A b \in 0..(a - 1) : OrdinalName(mapped_name(node.name, node.id, b)) \in used
  IN  mapped_name(node.name, node.id, attempt)

(* Kept names are not counted as used. *)
MutUsedByKept(kept) == {}

UsedByKept(kept) == {OrdinalName(n.name) : n \in kept}

ById(siblings) == {p \in siblings \X siblings : p[1].id < p[2].id}
OwnNames(siblings) == [id \in {n.id : n \in siblings} |-> (CHOOSE n \in siblings : n.id = id).name]

(* The names of one directory: those that can be kept are used first, then  *)
(* the others get theirs in the order of their ids.                         *)
DisplayNames(siblings) ==
  LET kept == {n \in siblings : Kept(n, siblings)}
      rest == InOrder(siblings \ kept, ById(siblings))
      Name(acc, n) ==
        LET name == FreeName(n, acc.used)
        IN  [used  |-> acc.used \cup {OrdinalName(name)},
             names |-> [acc.names EXCEPT ![n.id] = name]]
  IN  FoldLeft(Name, [used |-> UsedByKept(kept), names |-> OwnNames(siblings)], rest).names

(* lookup: the sibling shown under that name, or 0.  A later one would have *)
(* replaced an earlier one of the same name in the map.                     *)
lookup(siblings, names, name) ==
  Max({0} \cup {n.id : n \in {m \in siblings : equivalent(names[m.id], name)}})
=============================================================================
