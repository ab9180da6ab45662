---------------------------- MODULE MCFilesystem ----------------------------
(* Paths and names for TLC. *)
EXTENDS Filesystem

\* A file, or a folder that can have two files in it.
MCPaths == {<<1>>, <<1, 1>>, <<1, 2>>}

\* a, b and b/a.
MCNames == {<<1>>, <<2>>, <<2, 1>>}

=============================================================================
