----------------------------- MODULE MCDropPair -----------------------------
(* Two packages with one file each in a directory only they have.           *)
EXTENDS DropPair

CONSTANTS vim, fastfetch, vimFile, fastFile

MCPkgs == {vim, fastfetch}
MCMetaFor == [n \in MetaNames |-> vim]
MCFiles == {vimFile, fastFile}
MCDirs == {"/usr", "/usr/bin"}
MCParent == [x \in MCFiles \cup MCDirs |->
               CASE x = "/usr" -> "/" [] x = "/usr/bin" -> "/usr" [] OTHER -> "/usr/bin"]
MCSize == [d \in MCDirs |-> IF d = "/usr" THEN 4 ELSE 8]
MCListing == [p \in MCPkgs |-> MCDirs \cup {IF p = vim THEN vimFile ELSE fastFile}]
=============================================================================
