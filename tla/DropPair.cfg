CONSTANTS
  vim = vim
  fastfetch = fastfetch
  vimFile = vimFile
  fastFile = fastFile
  Pkgs <- MCPkgs
  MetaNames = {"vim.meta"}
  MetaFor <- MCMetaFor
  Index <- MCPkgs
  Files <- MCFiles
  Dirs <- MCDirs
  Root = "/"
  Parent <- MCParent
  Size <- MCSize
  Listing <- MCListing
  Base = {"/usr"}
  MaxNames = 1
  MaxTouched = 1
SPECIFICATION Spec
INVARIANT PairSettled
