---------------------------- MODULE MCUpgradeRun ----------------------------
(* UpgradeRun for TLC: a database and the services that require it.        *)
EXTENDS UpgradeRun

CONSTANTS pg, redis, brew

\* db <- cache <- api: pg is watched by all three, redis by the last two.
db == 1
cache == 2
api == 3

MCServices == {db, cache, api}
MCRequires == [s \in MCServices |->
                CASE s = db -> {} [] s = cache -> {db} [] s = api -> {cache}]
MCWatch == [s \in MCServices |->
             CASE s = db -> {pg} [] s = cache -> {pg, redis} [] s = api -> {redis}]
MCIfRunning == {api}
MCManagerOf == [p \in {pg, redis} |-> brew]

\* api's readiness needs a human; cache's does not; db has no check.
MCHealth == [s \in MCServices |->
              CASE s = db -> "none" [] s = cache -> "background" [] s = api -> "interactive"]
=============================================================================
