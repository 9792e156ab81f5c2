----------------------------- MODULE CheckRules -----------------------------
(***************************************************************************)
(* skript-checks/src/lib.rs, evaluate_matches: which diagnostic a line     *)
(* earns from the entries of the corpus that match it, under the addons,   *)
(* plugins and Skript version of the workspace.                            *)
(*                                                                         *)
(* Names are compared without case, so a name is one value here.  The      *)
(* free-form version string of an entry is the sequence of the versions it *)
(* mentions, and a version a number.                                       *)
(***************************************************************************)
EXTENDS Naturals, Sequences, FiniteSets, SequencesExt

CONSTANTS Entries,    \* entries of the corpus
          AddonOf,    \* the addon of an entry
          PluginsOf,  \* the plugins an entry requires
          CompatOf,   \* the versions its compatible_addon_version mentions
          Skript,     \* the addon that is the base plugin
          Plugins,
          Versions,   \* skript_version, if it is set
          NoVersion

Addons == {AddonOf[e] : e \in Entries} \cup {Skript}

ASSUME RulesAssumption ==
  /\ PluginsOf \in [Entries -> SUBSET Plugins]
  /\ CompatOf \in [Entries -> Seq(Nat)]
  /\ Versions \subseteq Nat /\ NoVersion \notin Versions

VARIABLES
  matches,   \* the entries that match the line, in the order of the search
  config,    \* CheckConfig
  verdict    \* the code of the diagnostic; "none" and "unchecked"

vars == <<matches, config, verdict>>

Configs == [enabled : SUBSET Addons, installed : SUBSET Plugins, version : Versions \cup {NoVersion}]

Init ==
  /\ matches \in UNION {SetToSeqs(M) : M \in SUBSET Entries}
  /\ config \in Configs
  /\ verdict = "unchecked"

-----------------------------------------------------------------------------
\* An empty set of addons enables all of them.
AddonNotEnabled(ms, c) ==
  c.enabled # {} /\ \A i \in DOMAIN ms : AddonOf[ms[i]] \notin c.enabled

Available(e, c) == PluginsOf[e] \subseteq c.installed

PluginMissing(ms, c) == \A i \in DOMAIN ms : ~Available(ms[i], c)

\* Fault: the comparison is the wrong way round.
FaultVersionMismatch(ms, c) ==
  /\ c.version # NoVersion
  /\ \E i \in DOMAIN ms : CompatOf[ms[i]] # <<>> /\ Head(CompatOf[ms[i]]) < c.version

\* parse_version takes the first number of the string.
VersionMismatch(ms, c) ==
  /\ c.version # NoVersion
  /\ \E i \in DOMAIN ms : CompatOf[ms[i]] # <<>> /\ Head(CompatOf[ms[i]]) > c.version

AmbiguousAddon(ms) ==
  LET addons == {AddonOf[ms[i]] : i \in DOMAIN ms}
  IN  Cardinality(addons) >= 2 /\ Skript \notin addons

\* The first rule that fires; each one returns.
Evaluate(ms, c) ==
  IF ms = <<>> THEN "unparseable"
  ELSE IF AddonNotEnabled(ms, c) THEN "addon-not-enabled"
  ELSE IF PluginMissing(ms, c) THEN "plugin-missing"
  ELSE IF VersionMismatch(ms, c) THEN "version-mismatch"
  ELSE IF AmbiguousAddon(ms) THEN "ambiguous-addon"
  ELSE "none"

CheckLine ==
  /\ verdict = "unchecked"
  /\ verdict' = Evaluate(matches, config)
  /\ UNCHANGED <<matches, config>>

Next == CheckLine

Spec == Init /\ [][Next]_vars

-----------------------------------------------------------------------------
(* Properties.                                                             *)

Severity(v) ==
  CASE v = "unparseable" -> 3
    [] v \in {"addon-not-enabled", "plugin-missing", "version-mismatch"} -> 2
    [] v = "ambiguous-addon" -> 1
    [] v = "none" -> 0

\* A richer workspace is never worse: with one more plugin installed, one more
\* addon enabled (where some are) or a higher Skript version, the same line
\* earns no diagnostic of a higher severity.
RicherWorkspaceIsNoWorse ==
  verdict # "unchecked" =>
    LET NoWorse(c) == Severity(Evaluate(matches, c)) <= Severity(verdict)
    IN  /\ \A p \in Plugins : NoWorse([config EXCEPT !.installed = @ \cup {p}])
        /\ config.enabled # {} =>
             \A a \in Addons : NoWorse([config EXCEPT !.enabled = @ \cup {a}])
        /\ config.version # NoVersion =>
             \A v \in Versions :
               v >= config.version => NoWorse([config EXCEPT !.version = v])

\* "what a distant addon also requires is irrelevant": so is its version.
DistantVersionsDoNotMatter ==
  (\E i \in DOMAIN matches :
     /\ AddonOf[matches[i]] = Skript /\ Available(matches[i], config)
     /\ config.enabled = {} \/ Skript \in config.enabled
     /\ CompatOf[matches[i]] = <<>>)
    => verdict \in {"unchecked", "none"}
=============================================================================
