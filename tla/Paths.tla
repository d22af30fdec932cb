------------------------------- MODULE Paths -------------------------------
(***************************************************************************)
(* Where an installation keeps its files: the tables of paths.go, what     *)
(* Detect makes of them, and what Ensure creates.  A path is the sequence  *)
(* of its names.                                                           *)
(***************************************************************************)
EXTENDS Naturals, Sequences

App == "casapps/casspeed"
Home == <<"home">>

\* What all the tables have in common.
Table(config, data, cache, log, backup, db, pid) ==
  [Config |-> config, Data |-> data, Cache |-> cache, Log |-> log, Backup |-> backup,
   DB |-> db, PID |-> pid, SSL |-> config \o <<"ssl">>, Security |-> config \o <<"security">>]

linuxPrivilegedPaths ==
  Table(<<"etc", App>>, <<"var", "lib", App>>, <<"var", "cache", App>>, <<"var", "log", App>>,
        <<"var", "backups", App>>, <<"var", "lib", App, "db">>, <<"var", "run", "pid">>)

linuxUserPaths ==
  LET data == Home \o <<".local", "share", App>>
  IN  Table(Home \o <<".config", App>>, data, Home \o <<".cache", App>>, data \o <<"logs">>,
            Home \o <<".local", "backups", App>>, data \o <<"db">>, data \o <<"pid">>)

darwinPrivilegedPaths ==
  LET var == <<"usr", "local", "var", App>>
  IN  Table(<<"usr", "local", "etc", App>>, var, <<"var", "cache", App>>, <<"var", "log", App>>,
            <<"var", "backups", App>>, var \o <<"db">>, <<"var", "run", "pid">>)

darwinUserPaths == linuxUserPaths

bsdPrivilegedPaths ==
  LET var == <<"var", "db", App>>
  IN  Table(<<"usr", "local", "etc", App>>, var, <<"var", "cache", App>>, <<"var", "log", App>>,
            <<"var", "backups", App>>, var \o <<"db">>, <<"var", "run", "pid">>)

bsdUserPaths == linuxUserPaths

\* The database's directory is beside the data's, not in it.
windowsPrivilegedPaths ==
  LET base == <<"ProgramData", App>>
  IN  Table(base, base \o <<"data">>, base \o <<"cache">>, base \o <<"logs">>,
            <<"ProgramData", "Backups", App>>, base \o <<"db">>, base \o <<"pid">>)

windowsUserPaths ==
  LET local == <<"AppData", "Local", App>>
  IN  Table(<<"AppData", "Roaming", App>>, local, local \o <<"cache">>, local \o <<"logs">>,
            <<"AppData", "Local", "Backups", App>>, local \o <<"db">>, local \o <<"pid">>)

\* The directory of the backups is in that of the data.
containerPaths ==
  Table(<<"config">>, <<"data">>, <<"data", "cache">>, <<"data", "logs">>,
        <<"data", "backup">>, <<"data", "db">>, <<"data", "pid">>)

isRunningAsRoot(os, root) == os # "windows" /\ root

\* An override that is not given is the empty path.
Given(override, path) == IF override = <<>> THEN path ELSE override

Override(p, o) ==
  [p EXCEPT !.Config = Given(o.config, @),
            !.SSL = IF o.config = <<>> THEN @ ELSE o.config \o <<"ssl">>,
            !.Security = IF o.config = <<>> THEN @ ELSE o.config \o <<"security">>,
            !.Data = Given(o.data, @),
            !.DB = IF o.data = <<>> THEN @ ELSE o.data \o <<"db">>,
            !.Cache = Given(o.cache, @), !.Log = Given(o.log, @), !.Backup = Given(o.backup, @)]

Detect(host, root, o) ==
  LET privileged == isRunningAsRoot(host.os, root)
      native == CASE host.os = "linux"   -> IF privileged THEN linuxPrivilegedPaths ELSE linuxUserPaths
                  [] host.os = "darwin"  -> IF privileged THEN darwinPrivilegedPaths ELSE darwinUserPaths
                  [] host.os = "bsd"     -> IF privileged THEN bsdPrivilegedPaths ELSE bsdUserPaths
                  [] host.os = "windows" -> IF privileged THEN windowsPrivilegedPaths ELSE windowsUserPaths
  IN  Override(IF host.container THEN containerPaths ELSE native, o)

NoOverrides == [config |-> <<>>, data |-> <<>>, cache |-> <<>>, log |-> <<>>, backup |-> <<>>]

\* Mutant: only the directory itself is made.
MkdirAll_Leaf(d) == {d}

\* MkdirAll makes the directories above as well.
MkdirAll(d) == {SubSeq(d, 1, n) : n \in 1..Len(d)}

\* What Ensure creates, in its order.
Ensured(p) ==
  <<p.Config, p.Data, p.Cache, p.Log, p.DB, p.Backup,
    p.SSL \o <<"letsencrypt">>, p.SSL \o <<"local">>, p.Security \o <<"geoip">>,
    p.Security \o <<"blocklists">>, p.Security \o <<"cve">>, SubSeq(p.PID, 1, Len(p.PID) - 1)>>

\* server.New opens the database here, whatever p.DB says.
Database(p) == p.Data \o <<"db">>

Within(d, e) == Len(d) >= Len(e) /\ SubSeq(d, 1, Len(e)) = e
=============================================================================
