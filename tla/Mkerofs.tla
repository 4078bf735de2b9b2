------------------------------ MODULE Mkerofs ------------------------------
(***************************************************************************)
(* mkerofs (metropolis/node/build/mkerofs/main.go): build a tree of       *)
(* entrySpecs from an FSSpec, then write it to the EROFS writer.          *)
(*                                                                         *)
(* main places every directory, then every file, then every symbolic      *)
(* link of the spec at its path (pathRef cleans the path and creates a    *)
(* directory of mode 0555 for every missing component), refuses special   *)
(* files, and calls writeRecursive on the root, which writes a directory  *)
(* with its sorted children names and then each child, and writes files   *)
(* and links as leaves.                                                     *)
(*                                                                         *)
(* A path is a sequence of components (split at "/"); an inode is its     *)
(* kind and the index of the spec entry that set it (0: created by         *)
(* pathRef). The EROFS writer is reduced to the sequence of Create calls.  *)
(***************************************************************************)
EXTENDS Naturals, Sequences, SequencesExt

CONSTANTS
    NameOrder,   \* the path component names, in Go's byte order
    MaxDepth,    \* bound on the components of a spec path
    MaxDirs, MaxFiles, MaxLinks   \* bounds on the entries of each kind

Names == ToSet(NameOrder)

\* What a spec path may contain: names, and ".." (which sorts first).
Components == Names \cup {".."}

RawPaths == SeqOf(Components, MaxDepth)

VARIABLES
    spec,     \* the FSSpec: [dirs, files, links : Seq(RawPaths), special : BOOLEAN]
    i,        \* the next entry of Entries to place
    tree,     \* the entrySpec tree: cleaned path -> [kind, src]
    out,      \* the Create calls made on the writer
    pc        \* "place", "done" or "fatal"

vars == <<spec, i, tree, out, pc>>

\* The spec's entries in the order main places them.
Entries ==
    LET Tag(s, k) == [j \in 1..Len(s) |-> [kind |-> k, path |-> s[j]]]
    IN  Tag(spec.dirs, "dir") \o Tag(spec.files, "file") \o Tag(spec.links, "link")

\* path.Clean("./" + p) split at "/": "." and empty components vanish, ".."
\* removes the name before it and is kept when there is none.
RECURSIVE CleanFrom(_, _)
CleanFrom(stack, p) ==
    IF p = <<>> THEN stack
    ELSE LET c == Head(p)
             s == CASE c \in {"", "."} -> stack
                    [] c = ".." /\ stack # <<>> /\ Last(stack) # ".." -> Front(stack)
                    [] OTHER -> Append(stack, c)
         IN  CleanFrom(s, Tail(p))

Clean(p) == CleanFrom(<<>>, p)

\* A directory pathRef creates for a missing component.
Implicit == [kind |-> "dir", src |-> 0]

Init ==
    /\ \E d \in SeqOf(RawPaths, MaxDirs), f \in SeqOf(RawPaths, MaxFiles),
          l \in SeqOf(RawPaths, MaxLinks), sp \in BOOLEAN :
          spec = [dirs |-> d, files |-> f, links |-> l, special |-> sp]
    /\ i = 1
    /\ tree = [q \in {<<>>} |-> Implicit]
    /\ out = <<>>
    /\ pc = "place"

-----------------------------------------------------------------------------
(* Building the tree.                                                      *)

\* Variant: every component gets a fresh directory, existing or not.
PathRefAlwaysNew(t, p) ==
    LET lost == {q \in DOMAIN t : \E r \in Prefixes(p) : r # <<>> /\ IsPrefix(r, q)}
        kept == DOMAIN t \ lost
    IN  [q \in kept \cup Prefixes(p) |-> IF q \in kept THEN t[q] ELSE Implicit]

\* entrySpec.pathRef: walk the cleaned path from the root, creating a
\* directory for every component that is not a child yet.
PathRef(t, p) ==
    [q \in DOMAIN t \cup Prefixes(p) |-> IF q \in DOMAIN t THEN t[q] ELSE Implicit]

\* One iteration of main's loops: entryRef.data.Type = the entry.
Place ==
    /\ pc = "place" /\ i <= Len(Entries)
    /\ LET p == Clean(Entries[i].path)
       IN  tree' = [PathRef(tree, p) EXCEPT ![p] = [kind |-> Entries[i].kind, src |-> i]]
    /\ i' = i + 1
    /\ UNCHANGED <<spec, out, pc>>

-----------------------------------------------------------------------------
(* Writing the tree.                                                       *)

NameBefore(x, y) ==
    \/ x = ".." /\ y # ".."
    \/ \E j, k \in 1..Len(NameOrder) : j < k /\ NameOrder[j] = x /\ NameOrder[k] = y

\* The names of the children of p, sorted (sort.Strings).
SortedChildren(t, p) ==
    SetToSortSeq({Last(q) : q \in {q \in DOMAIN t : q # <<>> /\ Front(q) = p}}, NameBefore)

\* The Create call for p.
Created(t, p) ==
    [path |-> p, node |-> t[p],
     children |-> IF t[p].kind = "dir" THEN SortedChildren(t, p) ELSE <<>>]

\* Variant: the children are written before their directory.
RECURSIVE WriteRecursiveChildrenFirst(_, _), WriteChildrenFirst(_, _, _)
WriteChildrenFirst(t, p, cs) ==
    IF cs = <<>> THEN <<>>
    ELSE WriteRecursiveChildrenFirst(t, p \o <<Head(cs)>>) \o WriteChildrenFirst(t, p, Tail(cs))
WriteRecursiveChildrenFirst(t, p) ==
    IF t[p].kind = "dir"
    THEN WriteChildrenFirst(t, p, SortedChildren(t, p)) \o <<Created(t, p)>>
    ELSE <<Created(t, p)>>

\* entrySpec.writeRecursive: a directory is created with its sorted
\* children, then each child is written; a file or a symbolic link is
\* created and its children, if any, are never visited.
RECURSIVE WriteRecursive(_, _), WriteChildren(_, _, _)
WriteChildren(t, p, cs) ==
    IF cs = <<>> THEN <<>>
    ELSE WriteRecursive(t, p \o <<Head(cs)>>) \o WriteChildren(t, p, Tail(cs))
WriteRecursive(t, p) ==
    IF t[p].kind = "dir"
    THEN <<Created(t, p)>> \o WriteChildren(t, p, SortedChildren(t, p))
    ELSE <<Created(t, p)>>

\* After the loops: special files are fatal, otherwise the root is written.
Write ==
    /\ pc = "place" /\ i > Len(Entries)
    /\ \/ spec.special /\ pc' = "fatal" /\ UNCHANGED out
       \/ ~spec.special /\ pc' = "done" /\ out' = WriteRecursive(tree, <<>>)
    /\ UNCHANGED <<spec, i, tree>>

Next == Place \/ Write

Spec == Init /\ [][Next]_vars

-----------------------------------------------------------------------------
(* Properties, checked against definitions made from the spec directly.    *)

WrittenPaths == {out[j].path : j \in 1..Len(out)}

\* The inode the image should hold at cleaned path p: that of the last
\* entry placed there, or a 0555 directory when no entry names p.
Expected(p) ==
    LET at == {k \in 1..Len(Entries) : Clean(Entries[k].path) = p}
    IN  IF at = {} THEN Implicit
        ELSE LET k == CHOOSE k \in at : \A j \in at : j <= k
             IN  [kind |-> Entries[k].kind, src |-> k]

\* Every inode the image holds is the one the spec gives its path (later
\* entries override earlier ones, a file or link overrides a directory),
\* and a directory mkerofs invents only stands for a component of some
\* entry's path: pathRef neither loses nor invents entries.
ImageFaithful ==
    pc = "done" =>
        \A j \in 1..Len(out) :
            /\ out[j].node = Expected(out[j].path)
            /\ out[j].node.src = 0 =>
                 out[j].path = <<>> \/
                 \E k \in 1..Len(Entries) : IsStrictPrefix(out[j].path, Clean(Entries[k].path))

\* The written image is a tree the writer can lay out: the root comes
\* first, every path is created once, after the directory that lists it,
\* and every name a directory lists is created, in sorted order.
ImageWellFormed ==
    pc = "done" =>
        /\ out # <<>> /\ out[1].path = <<>>
        /\ \A j, k \in 1..Len(out) : j # k => out[j].path # out[k].path
        /\ \A j \in 2..Len(out) :
              \E k \in 1..j-1 : out[k].path = Front(out[j].path)
                                /\ Contains(out[k].children, Last(out[j].path))
        /\ \A j \in 1..Len(out) :
              /\ IsSorted(out[j].children, NameBefore)
              /\ \A k \in 1..Len(out[j].children) :
                    out[j].path \o <<out[j].children[k]>> \in WrittenPaths

\* Every entry of the spec ends up in the image at its cleaned path.
ImageComplete ==
    pc = "done" => \A k \in 1..Len(Entries) : Clean(Entries[k].path) \in WrittenPaths

=============================================================================
