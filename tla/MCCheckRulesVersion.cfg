SPECIFICATION Spec
CONSTANTS
  base = base
  plain = plain
  needy = needy
  newer = newer
  ready = ready
  Entries = {base, plain, needy, newer, ready}
  AddonOf <- MCAddonOf
  PluginsOf <- MCPluginsOf
  CompatOf <- MCCompatOf
  Skript = "Skript"
  Plugins = {"p", "q"}
  Versions = {1, 2, 3}
  NoVersion = NoVersion
INVARIANT DistantVersionsDoNotMatter
CHECK_DEADLOCK FALSE
