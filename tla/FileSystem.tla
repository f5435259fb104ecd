----------------------------- MODULE FileSystem -----------------------------
(***************************************************************************)
(* What the file commands of PennCloud promise a user: a tree of folders   *)
(* and files with a current folder.  A command either answers +OK and does *)
(* what its name says, or answers -ERR and changes nothing; a restart      *)
(* costs the commands that were not answered.  FileTree.tla implements     *)
(* this with the cells of src/backend/kvs.cc.                              *)
(***************************************************************************)
EXTENDS Naturals, Sequences

Ext == INSTANCE SequencesExt

CONSTANTS
    Connection,
    Command,    \* [kind, name, arg, time]; the time stands for what is uploaded
    NoCommand,
    Folder      \* marks a folder

VARIABLES
    tree,      \* function from the paths that exist to a content or Folder
    cwd,       \* path of the current folder
    request,   \* the command each connection is working on
    ok         \* the answer to the last command

vars == <<tree, cwd, request, ok>>

Path == DOMAIN tree
Folders == {p \in Path : tree[p] = Folder}
Here(n) == Append(cwd, n)
Below(p) == {q \in Path : Ext!IsPrefix(p, q)}

(* What the user has is in folders.                                         *)
Init ==
    /\ <<>> \in Folders
    /\ \A p \in Path \ {<<>>} : Ext!Front(p) \in Folders
    /\ cwd \in Folders
    /\ request = [c \in Connection |-> NoCommand]
    /\ ok = TRUE

-----------------------------------------------------------------------------
(* A new file or an empty folder.                                           *)
Create(p, kind) ==
    /\ tree' = [q \in Path \cup {p} |-> IF q = p THEN kind ELSE tree[q]]
    /\ UNCHANGED cwd

(* What is at p and below it is at q from now on.                           *)
Relocate(p, q) ==
    LET moved(x)  == q \o SubSeq(x, Len(p) + 1, Len(x))
        origin(y) == p \o SubSeq(y, Len(q) + 1, Len(y))
    IN  /\ tree' = [y \in (Path \ Below(p)) \cup {moved(x) : x \in Below(p)} |->
                       IF Ext!IsPrefix(q, y) THEN tree[origin(y)] ELSE tree[y]]
        /\ UNCHANGED cwd

(* A file, or a folder and what is below it.                                *)
Remove(p) == tree' = [q \in Path \ Below(p) |-> tree[q]] /\ UNCHANGED cwd

(* All that is in the current folder.                                       *)
Clear == tree' = [q \in (Path \ Below(cwd)) \cup {cwd} |-> tree[q]] /\ UNCHANGED cwd

ChangeDir(p) == cwd' = p /\ UNCHANGED tree

Nothing == UNCHANGED <<tree, cwd>>

(* The root is its own parent.                                              *)
Target(n) ==
    IF n # ".." THEN Here(n) ELSE IF cwd = <<>> THEN <<>> ELSE Ext!Front(cwd)

(* When a command can be done.  To move something to the current folder, or *)
(* to give it the name it has, there need not be such a thing; nothing can  *)
(* be moved below itself.                                                   *)
Possible(op) ==
    CASE op.kind \in {"makedir", "uploadfile"} -> Here(op.name) \notin Path
      [] op.kind = "move" ->
            \/ op.arg = cwd
            \/ /\ Here(op.name) \in Path
               /\ op.arg \in Folders
               /\ Append(op.arg, op.name) \notin Path
               /\ ~Ext!IsPrefix(Here(op.name), op.arg)
      [] op.kind = "rename" ->
            \/ op.arg = op.name
            \/ Here(op.name) \in Path /\ Here(op.arg) \notin Path
      [] op.kind = "remove" -> op.name = "." \/ Here(op.name) \in Path
      [] op.kind = "changedir" -> Target(op.name) \in Folders
      [] op.kind = "logout"    -> TRUE

Perform(op) ==
    CASE op.kind = "makedir"    -> Create(Here(op.name), Folder)
      [] op.kind = "uploadfile" -> Create(Here(op.name), op.time)
      [] op.kind = "move"       -> IF op.arg = cwd THEN Nothing
                                   ELSE Relocate(Here(op.name), Append(op.arg, op.name))
      [] op.kind = "rename"     -> IF op.arg = op.name THEN Nothing
                                   ELSE Relocate(Here(op.name), Here(op.arg))
      [] op.kind = "remove"     -> IF op.name = "." THEN Clear ELSE Remove(Here(op.name))
      [] op.kind = "changedir"  -> ChangeDir(Target(op.name))
      [] op.kind = "logout"     -> ChangeDir(<<>>)

-----------------------------------------------------------------------------
Ask(c) ==
    /\ request[c] = NoCommand
    /\ \E op \in Command : request' = [request EXCEPT ![c] = op]
    /\ UNCHANGED <<tree, cwd, ok>>

Answer(c) ==
    /\ request[c] # NoCommand
    /\ ok' = Possible(request[c])
    /\ IF Possible(request[c]) THEN Perform(request[c]) ELSE Nothing
    /\ request' = [request EXCEPT ![c] = NoCommand]

Restart ==
    /\ request' = [c \in Connection |-> NoCommand]
    /\ UNCHANGED <<tree, cwd, ok>>

Next == Restart \/ \E c \in Connection : Ask(c) \/ Answer(c)

Spec == Init /\ [][Next]_vars
=============================================================================
