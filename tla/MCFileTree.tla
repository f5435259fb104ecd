----------------------------- MODULE MCFileTree -----------------------------
(* FileTree for a new user and for one with a folder in a folder.           *)
EXTENDS FileTreeShown

Folder1(n) == <<Op("makedir", n, <<>>, 0), Op("changedir", n, <<>>, 0)>>
File1(n)   == <<Op("uploadfile", n, <<>>, 0)>>
Up1        == <<Op("changedir", "..", <<>>, 0)>>

(* /a, /a/b, /a/b/a (a file) and /a/a (a file).                             *)
TwoLevels == Folder1("a") \o Folder1("b") \o File1("a") \o Up1 \o File1("a") \o Up1

MCEarlier == {<<>>, TwoLevels}
=============================================================================
