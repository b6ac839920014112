------------------------------ MODULE AppFiles ------------------------------
(***************************************************************************)
(* An app's files and blobs.  ScopedFilesystem cleans a path and AppData   *)
(* puts it below the namespace, in one tree that all the namespaces share. *)
(* ScopedBlobStore puts keys with the namespace in front into one bucket.  *)
(* The file system (dofs) and the bucket are modelled as they are used.    *)
(*                                                                         *)
(* A path is the sequence of what is between its slashes; contents are     *)
(* left out, but for their size.  A call that throws changes nothing.      *)
(* Operators named X_Y are faulty variants of X that no action uses.       *)
(***************************************************************************)
EXTENDS Integers, SequencesExt, FiniteSetsExt

CONSTANTS
  Namespaces,  \* what apps ask the broker for, NAME_RE allowing it
  Names,       \* names of files and directories
  Up,          \* the segment ".."
  Nothing,     \* an empty segment (safePath takes "." for one)
  MaxSegments, \* bound: segments of a path an app hands in
  MaxNodes,    \* bound: files and directories in the tree
  MaxBlobs     \* bound: keys in the bucket

VARIABLES
  nodes,  \* from the path of each node but the root to "dir" or "file"
  blobs,  \* the keys in the bucket, without the room they all begin with
  caller  \* the namespace of the last call

Inputs == BoundedSeq(Names \cup {Up, Nothing}, MaxSegments)

Cleaned(input) ==
  FoldLeft(LAMBDA done, s : IF s = Nothing THEN done ELSE Append(done, s), << >>, input)

SafePath_Resolves(input) == {Cleaned(input)}

\* safePath: empty for a path that is refused, else a set with the clean path.
SafePath(input) == IF Up \in ToSet(input) THEN {} ELSE {Cleaned(input)}

FsPath(ns, path) == <<ns>> \o path

Parents(path) == {SubSeq(path, 1, n) : n \in 1 .. Len(path) - 1}
Below(path) == {p \in DOMAIN nodes : Len(p) > Len(path) /\ IsPrefix(path, p)}
IsDir(path) == path \in DOMAIN nodes /\ nodes[path] = "dir"
IsFile(path) == path \in DOMAIN nodes /\ nodes[path] = "file"

-----------------------------------------------------------------------------
(* dofs: it takes ".." back to the parent, and makes no parents itself     *)
(* unless asked.                                                           *)

Canonical(path) ==
  FoldLeft(LAMBDA done, s : IF s # Up THEN Append(done, s) ELSE SubSeq(done, 1, Len(done) - 1), << >>, path)

\* mkdir(path, {recursive: true}).
MkdirWorks(path) == \A p \in Parents(path) \cup {path} : ~IsFile(p)
Put(tree, paths, kind) == [p \in DOMAIN tree \cup paths |-> IF p \in paths THEN kind ELSE tree[p]]
WithDirs(path) == Put(nodes, Parents(path) \cup {path}, "dir")

-----------------------------------------------------------------------------
(* AppData, for a path below the namespace.                                *)

\* The parents are made first; there are none for the namespace itself.
FsWriteFile(path) ==
  LET parent == Front(path) IN
  /\ ~IsDir(path)
  /\ Len(path) > 1 => MkdirWorks(parent)
  /\ nodes' = Put(IF Len(path) > 1 THEN WithDirs(parent) ELSE nodes, {path}, "file")

FsMkdir(path) == MkdirWorks(path) /\ nodes' = WithDirs(path)

\* A path that is missing is no error.
FsRm(path, recursive) ==
  /\ recursive \/ Below(path) = {}
  /\ nodes' = [p \in DOMAIN nodes \ ({path} \cup Below(path)) |-> nodes[p]]

-----------------------------------------------------------------------------
(* ScopedBlobStore.  A key is any text but for the slashes it begins with. *)

SafeKey(key) ==
  LET rest == {n \in DOMAIN key : key[n] # Nothing} IN
  IF rest = {} THEN << >> ELSE SubSeq(key, Min(rest), Len(key))

BlobKey(ns, key) == <<ns>> \o SafeKey(key)

BlobPut(ns, key) == blobs' = blobs \cup {BlobKey(ns, key)}
BlobDelete(ns, key) == blobs' = blobs \ {BlobKey(ns, key)}

-----------------------------------------------------------------------------

Init == nodes = << >> /\ blobs = {} /\ caller \in Namespaces

\* A call of ScopedFilesystem on the namespace ns.  The root is refused.
FileCall(ns, input) ==
  /\ \E clean \in SafePath(input) :
       LET path == Canonical(FsPath(ns, clean)) IN
       /\ path # << >>
       /\ \/ FsWriteFile(path)
          \/ FsMkdir(path)
          \/ \E recursive \in BOOLEAN : FsRm(path, recursive)
  /\ UNCHANGED blobs

\* The empty key is refused.
BlobCall(ns, key) ==
  /\ key \notin {<< >>, <<Nothing>>}
  /\ BlobPut(ns, key) \/ BlobDelete(ns, key)
  /\ UNCHANGED nodes

\* An app that uses its file system, and one that uses its blobs.
NextFiles == \E ns \in Namespaces, input \in Inputs :
  FileCall(ns, input) /\ caller' = ns /\ Cardinality(DOMAIN nodes') <= MaxNodes

NextBlobs == \E ns \in Namespaces, key \in Inputs :
  BlobCall(ns, key) /\ caller' = ns /\ Cardinality(blobs') <= MaxBlobs

vars == <<nodes, blobs, caller>>

-----------------------------------------------------------------------------
(* Properties.                                                             *)

\* A tree: whatever is in it is below directories only.
FilesAreATree ==
  \A path \in DOMAIN nodes :
    /\ path[1] \in Namespaces
    /\ \A p \in Parents(path) : IsDir(p)

Tree(t, ns) == [p \in {q \in DOMAIN t : q[1] = ns} |-> t[p]]
Bucket(b, ns) == {key \in b : key[1] = ns}

\* Whatever path or key it is given, a call on one namespace leaves the files and
\* blobs of all the others as they are, and whatever is below a file's name is
\* gone with it: the tree stays one (safePath, #fsPath, #prefix).
NamespacesStayApart ==
  [][/\ FilesAreATree'
     /\ \A ns \in Namespaces \ {caller'} :
          Tree(nodes', ns) = Tree(nodes, ns) /\ Bucket(blobs', ns) = Bucket(blobs, ns)]_vars
=============================================================================
