--------------------------- MODULE FileTreeShown ----------------------------
(***************************************************************************)
(* What a user sees of the cells of FileTree.tla: the paths that kvs_ls    *)
(* and kvs_download make of them (src/backend/kvs.cc).                     *)
(***************************************************************************)
EXTENDS FileTree

(* get_absolute_path: up to the root by the parents; a folder that its      *)
(* parent does not list is left out of the path.                            *)
RECURSIVE AbsolutePath(_, _)
AbsolutePath(t, c) ==
    IF c = RootCol THEN <<>>
    ELSE LET up    == Dir(t, c).parent
             names == {e.name : e \in {x \in Ext!ToSet(Dir(t, up).entries) : x.id = c}}
             last  == IF names = {} THEN <<>> ELSE <<CHOOSE n \in names : TRUE>>
         IN  AbsolutePath(t, up) \o last

(* What a user sees: the entries below a folder with their paths, and the   *)
(* path that kvs_ls shows for the current one.                              *)
RECURSIVE Nodes(_, _)
Nodes(path, c) ==
    UNION {{<<Append(path, e.name), e>>}
             \cup (IF e.dir THEN Nodes(Append(path, e.name), e.id) ELSE {}) :
           e \in Ext!ToSet(Dir(table, c).entries)}

TheFolder == -1   \* the contents of files are timestamps

Shown ==
    LET nodes == Nodes(<<>>, RootCol)
        entry(p) == (CHOOSE x \in nodes : x[1] = p)[2]
    IN  [p \in {<<>>} \cup {x[1] : x \in nodes} |->
            IF p = <<>> \/ entry(p).dir THEN TheFolder ELSE table[entry(p).id].val.text]

Files == INSTANCE FileSystem WITH
    Command <- UNION {Commands(m) : m \in 1..MaxTime},
    Folder  <- TheFolder,
    tree    <- Shown,
    cwd     <- AbsolutePath(table, Cwd(table))

(* The cells, their ids and the replay of the log implement the file system *)
(* of FileSystem.tla: a restart changes nothing that a user sees.           *)
ImplementsFileSystem == Files!Spec
=============================================================================
