------------------------------ MODULE MCDrop ------------------------------
(* Two packages as build-pkgs.sh makes them, one file each below a shared  *)
(* /usr/bin, one of them with a deeper directory of its own, a name the    *)
(* index does not know, and one .meta file given as a name.                *)
EXTENDS Drop

CONSTANTS vim, fastfetch, ghost, vimFile, shareFile, fastFile

MCPkgs == {vim, fastfetch, ghost}
MCMetaFor == [n \in MetaNames |-> vim]
MCIndex == {vim, fastfetch}
MCFiles == {vimFile, fastFile, shareFile}
MCDirs == {"/usr", "/usr/bin", "/usr/share"}
MCBase == {"/usr", "/usr/bin"}
MCParent == [x \in MCFiles \cup MCDirs |->
               CASE x = "/usr" -> "/"
                 [] x \in {"/usr/bin", "/usr/share"} -> "/usr"
                 [] x = shareFile -> "/usr/share"
                 [] OTHER -> "/usr/bin"]
MCSize == [d \in MCDirs |-> CASE d = "/usr" -> 4
                              [] d = "/usr/bin" -> 8
                              [] d = "/usr/share" -> 10]
MCListing == [p \in MCPkgs |->
                CASE p = vim -> {"/usr", "/usr/bin", "/usr/share", vimFile, shareFile}
                  [] p = fastfetch -> {"/usr", "/usr/bin", fastFile}
                  [] p = ghost -> {}]
=============================================================================
