------------------------------- MODULE Settings -------------------------------
(***************************************************************************)
(* The ruleset of a deployment through upgrades, edits and crashes: what   *)
(* the configuration file keeps of it, what a new release adds at start-up *)
(* (bot/src/rights/migrations.ts, bot/src/index.ts, bot/src/data/config.ts)*)
(* and what the settings page changes (bot/src/web/api/bot.ts).            *)
(*                                                                         *)
(* A ruleset is a set of groups and the tokens granted in them; the list   *)
(* for everybody is a group that always exists.  Rules by name are groups  *)
(* like the others.  The release is only ever replaced by a newer one.     *)
(***************************************************************************)
EXTENDS Naturals

CONSTANTS
    Tokens, Groups,
    Home,          \* the group a token is shipped for
    Shipped,       \* the release (delta) that ships it
    Everybody,     \* defaultAllow
    LastRelease,   \* bound
    Missing

SettingsAssumption ==
    /\ Everybody \in Groups
    /\ Home \in [Tokens -> Groups]
    /\ LastRelease \in Nat \ {0}
    /\ Shipped \in [Tokens -> 1..LastRelease]

VARIABLES
    release,   \* CURRENT_RIGHTS_VERSION of the installed code
    file,      \* the configuration as saved; Missing: torn
    config,    \* in memory; Missing: the bot is down
    live,      \* what the bots go by
    savedBy    \* history: the release that saved the file, 0 for none of them

rulesVars == <<release, file, config, live, savedBy>>

Releases == 1..LastRelease

\* A token is granted in a group that exists.
Rulesets ==
    {r \in [groups : SUBSET Groups, tokens : SUBSET Tokens] :
        /\ Everybody \in r.groups
        /\ \A t \in r.tokens : Home[t] \in r.groups}

Configs == [rights : Rulesets \cup {Missing}, version : 0..LastRelease]

Defaults == [rights |-> Missing, version |-> 0]

-----------------------------------------------------------------------------
(* Start-up.                                                               *)

\* loadConfig: a file that cannot be read is as good as none.
LoadedConfig == IF file = Missing THEN Defaults ELSE file

Newer(version) == {t \in Tokens : version < Shipped[t] /\ Shipped[t] <= release}

\* migrateRightsConfig
Migrated(rights, version) ==
    IF rights = Missing \/ version >= release THEN rights
    ELSE [rights EXCEPT !.tokens =
            @ \cup {t \in Newer(version) : Home[t] \in rights.groups}]

\* mutation: the version is written only when something has been added
WhenApplied(rights, version) ==
    IF Migrated(rights, version) = rights THEN version ELSE release
VersionAfter(rights, version) == release

Boot ==
    /\ config = Missing
    /\ LET old == LoadedConfig
       IN  config' = [rights |-> Migrated(old.rights, old.version),
                      version |-> VersionAfter(old.rights, old.version)]
    /\ file' = config'
    /\ savedBy' = release
    /\ live' = config'.rights
    /\ UNCHANGED release

\* The process stops, also in the middle of writing the file.
StopProcess ==
    /\ config # Missing
    /\ config' = Missing
    /\ UNCHANGED <<release, file, live, savedBy>>

Torn ==
    /\ config # Missing
    /\ config' = Missing
    /\ file' = Missing
    /\ UNCHANGED <<release, live, savedBy>>

Upgrade ==
    /\ config = Missing
    /\ release < LastRelease
    /\ release' \in release + 1 .. LastRelease
    /\ UNCHANGED <<file, config, live, savedBy>>

-----------------------------------------------------------------------------
(* POST /settings                                                          *)

Save(new) ==
    /\ config' = new
    /\ file' = new
    /\ savedBy' = release

\* A new ruleset, or null for the one the code comes with.
SetRights(rights) ==
    /\ config # Missing
    /\ Save([config EXCEPT !.rights = rights])
    /\ live' = rights
    /\ UNCHANGED release

\* The configuration in memory is changed before a later key is refused.
Refused(rights) ==
    /\ config # Missing
    /\ config' = [config EXCEPT !.rights = rights]
    /\ UNCHANGED <<release, file, live, savedBy>>

\* Other keys: the whole configuration is saved.  Two of them, rightsEnabled
\* and adminGroups, also apply the ruleset it holds.
SetOther ==
    /\ config # Missing
    /\ Save(config)
    /\ live' \in {live, config.rights}
    /\ UNCHANGED release

\* A new deployment, or one from before there were deltas.
RulesInit ==
    /\ release \in Releases
    /\ file \in {[rights |-> r, version |-> 0] : r \in Rulesets \cup {Missing}}
    /\ config = Missing
    /\ live = Missing
    /\ savedBy = 0

RulesNext ==
    \/ Boot \/ StopProcess \/ Torn \/ Upgrade \/ SetOther
    \/ \E rights \in Rulesets \cup {Missing} : SetRights(rights) \/ Refused(rights)

RulesSpec == RulesInit /\ [][RulesNext]_rulesVars

-----------------------------------------------------------------------------

RulesTypeOK ==
    /\ release \in Releases
    /\ file \in Configs \cup {Missing} /\ config \in Configs \cup {Missing}
    /\ live \in Rulesets \cup {Missing}
    /\ savedBy \in 0..LastRelease

\* A start-up grants what releases since the one that saved the file ship for
\* the groups there are, once: what the administrator has removed afterwards,
\* or left out of a ruleset of his own, does not come back
\* (migrations.ts:8-16).
EachDeltaOnce ==
    [][config = Missing /\ config' # Missing /\ file # Missing /\ file.rights # Missing =>
         config'.rights.tokens =
            file.rights.tokens
              \cup {t \in Tokens : /\ savedBy < Shipped[t] /\ Shipped[t] <= release
                                   /\ Home[t] \in file.rights.groups}]_rulesVars
===============================================================================
