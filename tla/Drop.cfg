CONSTANTS
  vim = vim
  fastfetch = fastfetch
  ghost = ghost
  vimFile = vimFile
  shareFile = shareFile
  fastFile = fastFile
  Pkgs <- MCPkgs
  MetaNames = {"vim.meta"}
  MetaFor <- MCMetaFor
  Index <- MCIndex
  Files <- MCFiles
  Dirs <- MCDirs
  Root = "/"
  Parent <- MCParent
  Size <- MCSize
  Listing <- MCListing
  Base <- MCBase
  MaxNames = 2
SPECIFICATION Spec
INVARIANTS Settled ExitHonest NoEmptyDirLeft
PROPERTIES ImplementsPackageDB
