----------------------------- MODULE MCWatchers -----------------------------
(* Watchers for TLC: one skill id under two roots, both forms of a cron, a  *)
(* watched file and a plugin, that are created, altered, grown and removed. *)
EXTENDS Watchers

At(root, id) == [root |-> root, id |-> id]

MCSkillRoots  == <<"ws", "shared">>
MCJobsPath    == At("jobs", "file")
MCLegacyCrons == {At("cron", "j")}
MCJobsIn      == [a |-> {"j"}, b |-> {"k"}]
MCConfigPaths == {At("ws", "x"), At("shared", "x"), MCJobsPath} \cup MCLegacyCrons
MCFilePaths   == {At("file", "f")}
MCPluginPaths == {At("ext", "g")}
MCAtFirst     == {At("ws", "x"), At("file", "f")}

(* Chokidar, timers and callbacks go on; a stop or a crash is never forced. *)
FairSpec == Spec /\ WF_watchVars(Progress)
==============================================================================
