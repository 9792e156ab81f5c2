SPECIFICATION MCSpec
CONSTANTS
  Shapes <- MCShapes
  MaxLines = 4
  Headers = {f, g}
  Others = {"plain", "stmt", "note"}
  MaxEdits = 2
  base = base
  plain = plain
  needy = needy
  newer = newer
  ready = ready
  Entries = {base, plain, needy, newer, ready}
  AddonOf <- MCAddonOf
  PluginsOf <- MCPluginsOf
  CompatOf <- MCCompatOf
  Skript = "Skript"
  Plugins = {"p", "q"}
  Versions = {1, 2, 3}
  NoVersion = NoVersion
INVARIANT RicherWorkspaceIsNoWorse
INVARIANT ReportsAreRight
INVARIANT ColumnsAreOriginal
INVARIANT ContentIsCurrent
CHECK_DEADLOCK FALSE
