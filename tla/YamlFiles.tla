----------------------------- MODULE YamlFiles -----------------------------
(***************************************************************************)
(* The directory of YAML files that the parser loads and the validator     *)
(* checks, and what ryml makes of a file.  Both are external to the        *)
(* program; both readers see the same disk.                                *)
(*                                                                         *)
(* A YAML node is a map (a sequence of keys with their nodes), a list, or  *)
(* a scalar.  Of a scalar's text four things matter: its components (a     *)
(* text with "::" has several), what std::stoull makes of it (-1 when it   *)
(* throws), whether that takes a plain unsigned number and nothing else    *)
(* (no sign, no trailing characters), and whether it is a number to ryml.  *)
(* val() of a node that is no scalar is the empty text, as with ryml's     *)
(* assertions compiled out.                                                *)
(***************************************************************************)
EXTENDS Integers, Sequences

CONSTANTS
  Trees,   \* what may be on the disk: functions from names to nodes
  Base,    \* the base path: mProtocolBasePath, --yaml-dir
  Nodes    \* the YAML nodes that occur in files

(***************************************************************************)
(* An entry is a directory, one that cannot be read, a regular file, a     *)
(* link to a directory, or something else.  A file has an extension and    *)
(* the root that ryml finds in it, or a reason why there is none: it       *)
(* cannot be opened, it is empty, or its text is no YAML and ryml ends the *)
(* process.  A file is "full" when its length is a multiple of the page    *)
(* size, so that no zero byte follows it in memory.                        *)
(***************************************************************************)
ASSUME TreesAssumption ==
  \A t \in Trees : \A n \in DOMAIN t :
    /\ t[n].kind \in {"dir", "closed", "file", "link", "special"}
    /\ t[n].kind = "dir" => t[n].entries \subseteq DOMAIN t
    /\ t[n].kind = "link" => t[n].to \in DOMAIN t /\ t[t[n].to].kind \in {"dir", "closed"}
    /\ t[n].kind = "file" =>
         /\ t[n].ext \in {".yaml", ".yml", ""} /\ t[n].full \in BOOLEAN
         /\ t[n].root.t \in {"map", "list", "val", "unopened", "empty", "broken"}

\* The roots of the files that may be on the disk.
Roots == UNION {{t[n].root : n \in {x \in DOMAIN t : t[x].kind = "file"}} : t \in Trees}

\* The components of a text, at least one; the empty text has one, too.
NoName == <<"">>

\* A node of one of the files, and everything below it, is a node.
ASSUME NodesAssumption ==
  /\ Roots \subseteq Nodes
  /\ \A n \in Nodes :
       /\ n.t = "val" => /\ n.text \in Seq(STRING) \ {<<>>} /\ n.ull \in Nat \cup {-1}
                         /\ n.plain \in BOOLEAN /\ n.number \in BOOLEAN
       /\ n.t = "list" => n.items \in Seq(Nodes)
       /\ n.t = "map" => n.items \in Seq([key : STRING, node : Nodes])

VARIABLE tree

\* The entry that a path leads to: links are followed.
Real(n) == IF tree[n].kind = "link" THEN tree[n].to ELSE n

At(n) == tree[Real(n)]

KeyAt(n, k) == {i \in DOMAIN n.items : n.items[i].key = k}

Has(n, k) == n.t = "map" /\ KeyAt(n, k) # {}

First(S) == CHOOSE i \in S : \A j \in S : i <= j

\* Of several children with one key, the first.
Get(n, k) == n.items[First(KeyAt(n, k))].node

Text(n) == IF n.t = "val" THEN n.text ELSE NoName

\* What stoull returns for a node's text; -1 when it throws.
Stoull(n) == IF n.t = "val" THEN n.ull ELSE -1

ListAt(n, k) == IF Has(n, k) /\ Get(n, k).t = "list" THEN Get(n, k).items ELSE <<>>
=============================================================================
