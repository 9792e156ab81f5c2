---------------------------- MODULE MCCheckRules ----------------------------
EXTENDS CheckRules, TLC

CONSTANTS base, plain, needy, newer, ready   \* the entries

\* The base plugin's entry, and others of two addons: one that requires
\* nothing, one that requires two plugins, one of a later version, and one
\* that requires a plugin and mentions two versions.
MCAddonOf == (base :> "Skript") @@ (plain :> "skBee") @@ (needy :> "skBee")
               @@ (newer :> "SkQuery") @@ (ready :> "SkQuery")
MCPluginsOf == (base :> {}) @@ (plain :> {}) @@ (needy :> {"p", "q"})
               @@ (newer :> {}) @@ (ready :> {"p"})
MCCompatOf == (base :> <<>>) @@ (plain :> <<1>>) @@ (needy :> <<2>>)
               @@ (newer :> <<3>>) @@ (ready :> <<1, 3>>)
=============================================================================
