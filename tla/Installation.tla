---------------------------- MODULE Installation ----------------------------
(***************************************************************************)
(* An installation: servers, backups, restores and updates, overlapping    *)
(* and cut short, on one set of files.                                     *)
(***************************************************************************)
EXTENDS Startup, Updater

CONSTANTS
  Hosts   \* systems it may be installed on

ASSUME HostsAssumption == Hosts \subseteq Host

vars == <<commandVars, startupVars, backupVars, updaterVars>>

\* A machine where no server has served before; or one has, and there may be
\* a backup of what it had.
Init ==
  /\ CommandInit /\ StartupInit /\ BackupInit /\ UpdaterInit
  /\ host \in Hosts
  /\ \E v \in Value : data \in {[f \in File |-> None], [f \in File |-> v]}
  /\ \E v \in Value :
       LET earlier == [files |-> [f \in File |-> v], whole |-> TRUE]
       IN  enc \in {[s \in Stamp |-> None], [s \in Stamp |-> IF s = 1 THEN earlier ELSE None]}
  /\ made = IF \A f \in File : data[f] = None THEN {}
            ELSE UNION {MkdirAll(d) : d \in {Default.Data, Default.DB}}

FirstStep(c) ==
  CASE c = "serve"   -> "flags"
    [] c = "backup"  -> "key"
    [] c = "restore" -> "choose"
    [] c = "update"  -> "check"

Start(p) ==
  /\ \E c \in Command : Launch(p, c, FirstStep(c))
  /\ RunBinary(p)
  /\ UNCHANGED <<startupVars, backupVars>>

Die(p) == Kill(p) /\ UNCHANGED <<startupVars, backupVars, updaterVars>>

Next ==
  \/ \E p \in Proc :
       \/ Start(p)
       \/ Serve(p) /\ UNCHANGED updaterVars
       \/ (MakeBackup(p) \/ RestoreBackup(p)) /\ UNCHANGED <<startupVars, updaterVars>>
       \/ Update(p) /\ UNCHANGED <<startupVars, backupVars>>
       \/ Die(p)
  \/ Edit /\ UNCHANGED updaterVars

Spec == Init /\ [][Next]_vars

TypeOK == CommandTypeOK /\ StartupTypeOK /\ BackupTypeOK /\ UpdaterTypeOK

-----------------------------------------------------------------------------
(* Properties. *)

\* Whatever fails and whoever is killed, while one updater works at a time
\* there is a binary that works at its name or at that of a backup.
LoneUpdateIsSafe == together = {} => \E n \in Name : Works(n)

\* So it is when two have worked together, unless their downloads were given
\* one name, one was started from a binary whose updater had still to remove
\* the backup, or one has moved aside a binary that is not its own: between
\* os.Executable and os.Rename the other has put its own in that place.
Quiet ==
  /\ ~nested /\ ~stray
  /\ clash \cap {p \in Proc : cmd[p] = "update"} = {}
  /\ \A p, q, r \in together : p = q \/ q = r \/ r = p

BinarySurvives == LoneUpdateIsSafe /\ (Quiet => \E n \in Name : Works(n))

\* A backup that is reported is in its file and holds the data; a restore that
\* is reported has restored what is in the backup; an update that is reported,
\* and was alone, has left the release where it found the binary.  A backup is
\* not looked at when it is done: it is excepted that the last of the archive
\* was not written, and that its name is not the last of the backups.
ReportsAreTrue ==
  [][\A p \in Proc : at'[p] # at[p] /\ p \notin clash \cup stirred =>
       /\ at'[p] = "backedUp" /\ p \notin lost /\ (\A s \in Stamp : enc[s] # None => s <= stamp[p])
            => enc'[stamp[p]] = [files |-> data', whole |-> TRUE]
       /\ at'[p] = "restored"
            => /\ enc[stamp[p]] \in {None, got[p]}
               /\ got[p].whole
               /\ \A f \in File : got[p].files[f] \in {None, data'[f]}
       /\ at'[p] = "updated" /\ p \notin together
            => Works(target[p])' /\ code'[bin'[target[p]]] = release[p]]_vars

\* What a command can fail of when the system has done all that it asked; a
\* server reads its flags in its first step.
Reason(p) ==
  CASE cmd[p] = "serve" ->
         LET s == with'[p]
         IN  \/ s.modeFlag \notin {"", "production", "development"}
             \/ s.modeEnv \notin {"", "production", "development"}
             \/ s.debugEnv # "" \/ s.database # <<>>
             \/ edited \/ yml = Torn
    [] cmd[p] = "backup" -> Default.Data \notin made \/ host.container \/ p \in stirred
    [] cmd[p] = "restore" -> enc[stamp[p]] \in {None, Torn} \/ ~got[p].whole
    [] cmd[p] = "update" ->
         \/ temp[second[p]] \notin Version
         \/ \E q \in Proc \ {p} : cmd[q] = "update"

\* No command fails for nothing; above all no start without settings does,
\* whatever the starts before it were given, unless server.yml was edited or
\* is half written.
FailsForAReason ==
  [][\A p \in Proc : at[p] # "failed" /\ at'[p] = "failed" =>
       p \in hurt' \cup clash \/ Reason(p)]_vars
=============================================================================
