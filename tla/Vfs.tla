-------------------------------- MODULE Vfs ---------------------------------
(***************************************************************************)
(* The in-memory virtual file system of fs/mod.rs and fs/node.rs: a table  *)
(* of nodes that only grows, each with the number of its parent and of its *)
(* children.  Node numbers are indices into `nodes`, from 1: Root is index *)
(* 0 of the code.  A path is the sequence of its components.  Contents     *)
(* are abstracted to their length; inode numbers (0 for everything but the *)
(* root, since create_* overwrites what alloc_node set), permissions and   *)
(* ref_count are never read and left out.                                  *)
(***************************************************************************)
EXTENDS Naturals, Sequences

CONSTANTS
  Names,      \* names that callers use
  LongNames,  \* those of more than NAME_LEN bytes
  Cut,        \* the first NAME_LEN bytes of the long names
  MaxNodes,   \* bound on the length of the table
  MaxPath,    \* bound on the components of a path
  Lengths     \* lengths of the data callers write

ASSUME VfsAssumption ==
  /\ LongNames \subseteq Names /\ Cut \notin LongNames
  /\ {"", ".", ".."} \intersect ((Names \ {".."}) \union {Cut}) = {}
  /\ MaxNodes \in Nat /\ MaxPath \in Nat
  /\ Lengths \subseteq Nat

Root == 1
Components == Names \union {Cut, ".", ".."}
Paths == UNION {[1..k -> Components] : k \in 0..MaxPath}

VARIABLE nodes

\* A deleted node looks like an empty, nameless file in the root directory.
empty == [name |-> "", kind |-> "File", parent |-> Root, children |-> <<>>, size |-> 0]

\* new_file, new_dir: the name is cut to NAME_LEN bytes.
stored(name) == IF name \in LongNames THEN Cut ELSE name
new_node(kind, name, parent) ==
  [empty EXCEPT !.kind = kind, !.name = stored(name), !.parent = parent]

VfsInit == nodes = <<[empty EXCEPT !.name = "/", !.kind = "Directory"]>>

\* Mutant of lookup_child: the last child of that name.
lookup_child_last(p, name) ==
  LET named == {k \in DOMAIN nodes[p].children : nodes[nodes[p].children[k]].name = name}
  IN  IF named = {} THEN 0
      ELSE nodes[p].children[CHOOSE k \in named : \A l \in named : k >= l]

\* lookup_child: the first child of that name, 0 if there is none.
lookup_child(p, name) ==
  LET named == {k \in DOMAIN nodes[p].children : nodes[nodes[p].children[k]].name = name}
  IN  IF named = {} THEN 0
      ELSE nodes[p].children[CHOOSE k \in named : \A l \in named : k <= l]

\* A ".." component (lines 90-96).
step_up(i) == IF nodes[i].parent # Root THEN nodes[i].parent ELSE i

\* resolve_path: the node of a path, 0 for None.
resolve_path(path) ==
  LET walk[k \in 0..Len(path)] ==
        IF k = 0 THEN Root
        ELSE LET i == walk[k - 1] IN
             CASE i = 0 -> 0
               [] i # 0 /\ path[k] = "." -> i
               [] i # 0 /\ path[k] = ".." -> step_up(i)
               [] OTHER -> lookup_child(i, path[k])
  IN  walk[Len(path)]

\* The nodes that a path given by a caller leads to.
Resolved == {resolve_path(path) : path \in Paths} \ {0}

\* alloc_node: always a new slot at the end.
alloc_node == Len(nodes) + 1

\* The table with a new node at place i, entered last in its parent's list.
Created(i, kind, name, p) ==
  [k \in 1..(IF i > Len(nodes) THEN i ELSE Len(nodes)) |->
     IF k = i THEN new_node(kind, name, p)
     ELSE IF k = p THEN [nodes[p] EXCEPT !.children = Append(@, i)]
     ELSE nodes[k]]

\* create_file and create_dir in p, the node of the parent path: p may be a file, and
\* the name may be taken.
create(kind, p, name) ==
  /\ Len(nodes) < MaxNodes
  /\ nodes' = Created(alloc_node, kind, name, p)

\* write_file of n bytes to node i, at offset 0, as all its callers do.
write_file(i, n) ==
  /\ nodes[i].kind = "File"
  /\ nodes' = [nodes EXCEPT ![i].size = IF n > @ THEN n ELSE @]

\* Mutant of deletable: a directory with children, too.
deletable_full(i) == i # Root

\* delete_node's checks: not the root, not a directory with children.
deletable(i) ==
  /\ i # Root
  /\ ~(nodes[i].kind = "Directory" /\ nodes[i].children # <<>>)

\* The table after delete_node: the number leaves its parent's list, and the slot
\* stays, emptied.
unlink(i) ==
  [nodes EXCEPT ![nodes[i].parent].children = SelectSeq(@, LAMBDA c : c # i), ![i] = empty]

\* delete of a name in p, the node of the parent path.
delete(p, name) ==
  LET i == lookup_child(p, name) IN
  /\ i # 0
  /\ deletable(i)
  /\ nodes' = unlink(i)

VfsNext ==
  \E i \in Resolved :
    \/ \E kind \in {"File", "Directory"}, name \in Names : create(kind, i, name)
    \/ \E n \in Lengths : write_file(i, n)
    \/ \E name \in Components : delete(i, name)

-----------------------------------------------------------------------------
Children(i) == {nodes[i].children[k] : k \in DOMAIN nodes[i].children}
Live == {i \in DOMAIN nodes : nodes[i].name # ""}

\* What a directory lists, it lists until that node itself is deleted.  (A file may
\* have children, too, since create_* accepts it as a parent; it is deleted with them
\* still listed, and they are lost.)
ListedUntilDeleted ==
  [][\A p \in DOMAIN nodes : \A c \in Children(p) :
       nodes[p].kind = "Directory" => c \in Children(p)' \/ c \notin Live']_nodes

\* The path of a node that the tree reaches, and the nodes along it.
Lineage(i) ==
  LET up[k \in 0..Len(nodes)] ==
        IF k = 0 THEN <<i>>
        ELSE LET s == up[k - 1] IN IF s[1] = Root THEN s ELSE <<nodes[s[1]].parent>> \o s
  IN  up[Len(nodes)]
PathOf(i) == [k \in 1..(Len(Lineage(i)) - 1) |-> nodes[Lineage(i)[k + 1]].name]

\* Nothing on the way to i has an older namesake, and no name on it is read as a
\* step up.
Unshadowed(i) ==
  \A k \in 2..Len(Lineage(i)) :
    LET c == Lineage(i)[k] IN
    /\ nodes[c].name # ".."
    /\ c \in Children(nodes[c].parent)
    /\ \A d \in Children(nodes[c].parent) : nodes[d].name = nodes[c].name => c <= d

\* resolve_path finds a node by its path when nothing shadows it, and then ".."
\* leads to its parent, except that a child of the root stays where it is.
PathsFindNodes ==
  \A i \in Live : Unshadowed(i) =>
    /\ resolve_path(PathOf(i)) = i
    /\ resolve_path(PathOf(i) \o <<"..">>) =
         IF nodes[i].parent = Root THEN i ELSE nodes[i].parent
=============================================================================
