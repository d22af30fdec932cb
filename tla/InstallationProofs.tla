------------------------- MODULE InstallationProofs -------------------------
(***************************************************************************)
(* What holds of an installation on any number of processes, whatever      *)
(* fails and whoever is killed between two steps.                          *)
(*                                                                         *)
(* Each invariant says what the commands rely on at each step.  LoneInv:   *)
(* the binary moved aside works for as long as the new one may not.        *)
(* ArchiveInv and ReleaseInv: what is about to be reported is there.       *)
(* StartInv: a start looks at nothing that would make it fail.             *)
(* SurvivalInv: of two updaters, which names each still has to itself.     *)
(***************************************************************************)
EXTENDS Installation, FiniteSetTheorems, SequenceTheorems, TLAPS

Before == {"check", "download", "fetch", "verify", "locate", "backup"}
After  == {"create", "copy", "undo", "tidy"}
Steps  == Before \cup After

\* An updater is at a step of an update, and nobody else is.
StepsInv ==
  /\ DOMAIN at = Proc
  /\ cmd \in [Proc -> Command]
  /\ \A p \in Proc : at[p] \in Steps => cmd[p] = "update"
  /\ \A p \in Proc : cmd[p] = "update" => at[p] \in Steps \cup Over
  /\ \A p \in Proc : at[p] \in After => target[p] < Depth

\* A binary has the name it had last, or none; that of a process which has
\* not created it yet has none and is not run.
NamesInv ==
  /\ \A n \in Name : bin[n] # None => was[bin[n]] = n
  /\ \A p \in Proc : at[p] \in Before \cup {"create", "unborn"} =>
       /\ \A n \in Name : bin[n] # p
       /\ \A q \in Proc : exe[q] # p

\* Where an updater that has not moved its binary would find one.
SourceInv(p) ==
  at[p] \in Before => bin[was[exe[p]]] = None \/ Works(was[exe[p]])

\* What the one updater that is past its check has at hand.
WorkInv(p) ==
  /\ at[p] \in {"locate", "backup", "create", "copy"} => temp[second[p]] \in Version
  /\ at[p] \in {"create", "copy", "undo"} => Works(target[p] + 1)
  /\ at[p] = "create" => bin[target[p]] = None
  /\ at[p] = "backup" => target[p] = was[exe[p]]
  /\ at[p] = "copy" => bin[target[p]] = fd[p] /\ bin[target[p] + 1] # fd[p] /\ fd[p] = p
  /\ at[p] \in {"copy", "undo"} => ~Works(target[p])
  /\ at[p] = "tidy" => Works(target[p])

\* One that is at its check, beside it.
BesideInv(p, q) ==
  /\ at[p] \in Before => bin[was[exe[q]]] = exe[q]
  /\ at[p] \in {"create", "copy", "undo"} => was[exe[q]] # target[p]

LoneInv ==
  /\ NamesInv
  /\ \E n \in Name : Works(n)
  /\ \A p \in Proc : SourceInv(p) /\ WorkInv(p)
  /\ \A p, q \in Proc :
       p # q /\ at[p] \in Steps \ {"check"} /\ at[q] \in Steps =>
         at[q] = "check" /\ BesideInv(p, q)

InstallationInv ==
  /\ UpdaterTypeOK
  /\ StepsInv
  /\ together = {} => LoneInv

\* At the start there is one binary, which works.
LEMMA InstallationStart ==
  ASSUME UpdaterInit, CommandInit
  PROVE  InstallationInv
<1> USE DEF UpdaterInit, CommandInit
<1>1. 0 \in Name
  BY UpdaterAssumption DEF Name
<1>2. First \in Version /\ (CHOOSE s \in Second : TRUE) \in Second
  BY UpdaterAssumption DEF First
<1>3. UpdaterTypeOK
  BY <1>1, <1>2 DEF UpdaterTypeOK, Binary
<1>4. StepsInv
  BY DEF StepsInv, Steps, Before, After, Command
<1>5. NamesInv
  BY <1>1, UpdaterAssumption DEF NamesInv, Binary, Before
<1>6. \E n \in Name : Works(n)
  BY <1>1, <1>2, UpdaterAssumption DEF Works, Binary
<1>7. \A p \in Proc : SourceInv(p) /\ WorkInv(p) /\ at[p] \notin Steps
  BY DEF SourceInv, WorkInv, Steps, Before, After
<1> QED
  BY <1>3, <1>4, <1>5, <1>6, <1>7 DEF InstallationInv, LoneInv

-----------------------------------------------------------------------------
(* The steps that leave the binaries alone. *)

\* Where a process gets to that is not an updater, or no longer one.
Elsewhere(p) ==
  /\ cmd' = cmd
  /\ DOMAIN at' = Proc
  /\ \A q \in Proc \ {p} : at'[q] = at[q]
  /\ at'[p] \notin Steps \cup {"unborn"}

\* A step of a server.
LEMMA ServeStep ==
  ASSUME StepsInv, NEW p \in Proc, Serve(p)
  PROVE  at[p] \notin Steps \cup Over \cup {"unborn"} /\ Elsewhere(p)
<1> USE DEF StepsInv, Elsewhere, Steps, Before, After, Over, Success, Goto, Fail, Fault
<1>1. CASE DetectFlags(p)
  BY <1>1 DEF DetectFlags
<1>2. CASE Ensure(p)
  BY <1>2 DEF Ensure
<1>3. CASE Load(p)
  BY <1>3 DEF Load
<1>4. CASE Validate(p)
  BY <1>4 DEF Validate
<1>5. CASE Save(p) \/ Empty(p) \/ Fill(p)
  BY <1>5 DEF Save, Empty, Fill
<1>6. CASE WritePIDFile(p)
  BY <1>6 DEF WritePIDFile
<1>7. CASE OpenDatabase(p)
  BY <1>7 DEF OpenDatabase
<1>8. CASE ServeAndWrite(p) \/ StopServing(p)
  BY <1>8 DEF ServeAndWrite, StopServing, commandVars
<1> QED
  BY <1>1, <1>2, <1>3, <1>4, <1>5, <1>6, <1>7, <1>8 DEF Serve

\* A step of a backup or of a restore.
LEMMA BackupStep ==
  ASSUME StepsInv, NEW p \in Proc, MakeBackup(p) \/ RestoreBackup(p)
  PROVE  at[p] \notin Steps \cup Over \cup {"unborn"} /\ Elsewhere(p)
<1> USE DEF StepsInv, Elsewhere, Steps, Before, After, Over, Success, Goto, Fail, Fault, Meets
<1>1. CASE CreateTar(p) \/ ListFiles(p)
  BY <1>1 DEF CreateTar, ListFiles
<1>2. CASE WalkFile(p) \/ CloseTar(p)
  BY <1>2 DEF WalkFile, CloseTar
<1>3. CASE Encrypt(p) \/ Seal(p)
  BY <1>3 DEF Encrypt, Seal
<1>4. CASE cleanOldBackups(p) \/ ReportBackup(p)
  BY <1>4 DEF cleanOldBackups, ReportBackup
<1>5. CASE ChooseBackup(p) \/ Decrypt(p)
  BY <1>5 DEF ChooseBackup, Decrypt
<1>6. CASE WriteDec(p) \/ OpenDec(p)
  BY <1>6 DEF WriteDec, OpenDec
<1>7. CASE ExtractFile(p) \/ CopyFile(p)
  BY <1>7 DEF ExtractFile, CopyFile
<1>8. CASE ReportRestore(p)
  BY <1>8 DEF ReportRestore
<1> QED
  BY <1>1, <1>2, <1>3, <1>4, <1>5, <1>6, <1>7, <1>8 DEF MakeBackup, RestoreBackup

\* Whoever is killed, and whoever is no updater, leaves what the others need.
LEMMA ElsewhereKeeps ==
  ASSUME InstallationInv, NEW p \in Proc, Elsewhere(p),
         cmd[p] # "update" \/ at'[p] \in Over,
         at[p] # "unborn", UNCHANGED updaterVars
  PROVE  InstallationInv'
<1> USE DEF InstallationInv, Elsewhere, updaterVars
<1>1. UpdaterTypeOK'
  BY DEF UpdaterTypeOK
<1>2. StepsInv'
  BY DEF StepsInv, Steps, Before, After, Over, Success
<1>3. ASSUME together = {} PROVE LoneInv'
  <2>1. NamesInv'
    BY <1>3 DEF LoneInv, NamesInv, StepsInv, Steps, Before, After
  <2>2. (\E n \in Name : Works(n))'
    BY <1>3 DEF LoneInv, Works
  <2>3. \A q \in Proc : SourceInv(q)' /\ WorkInv(q)'
    BY <1>3 DEF LoneInv, SourceInv, WorkInv, Works, StepsInv, Steps, Before, After
  <2>4. \A q, r \in Proc :
          q # r /\ at'[q] \in Steps \ {"check"} /\ at'[r] \in Steps =>
            at'[r] = "check" /\ BesideInv(q, r)'
    BY <1>3 DEF LoneInv, BesideInv, StepsInv, Steps, Before, After
  <2> QED
    BY <2>1, <2>2, <2>3, <2>4 DEF LoneInv
<1> QED
  BY <1>1, <1>2, <1>3

-----------------------------------------------------------------------------
(* The steps of an updater. *)

\* One that fails may have removed its download, which is its own.
LEMMA FailureKeeps ==
  ASSUME InstallationInv, NEW p \in Proc, at[p] \in Steps \ {"check"},
         Fail(p) \/ Fault(p, "failed"),
         temp' \in [Second -> Version \cup {Broken, None}],
         UNCHANGED <<bin, code, was, exe, release, second, target, fd, nested, stray, together>>
  PROVE  InstallationInv'
<1> USE DEF InstallationInv, Goto, Fail, Fault
<1>1. UpdaterTypeOK'
  BY DEF UpdaterTypeOK
<1>2. StepsInv'
  BY DEF StepsInv, Steps, Before, After, Over, Success
<1>3. ASSUME together = {} PROVE LoneInv'
  <2>1. NamesInv'
    BY <1>3 DEF LoneInv, NamesInv, StepsInv, Steps, Before, After
  <2>2. (\E n \in Name : Works(n))'
    BY <1>3 DEF LoneInv, Works
  <2>3. \A q \in Proc : SourceInv(q)' /\ WorkInv(q)'
    BY <1>3 DEF LoneInv, SourceInv, WorkInv, Works, StepsInv, Steps, Before, After
  <2>4. \A q, r \in Proc :
          q # r /\ at'[q] \in Steps \ {"check"} /\ at'[r] \in Steps =>
            at'[r] = "check" /\ BesideInv(q, r)'
    BY <1>3 DEF LoneInv, BesideInv, StepsInv, Steps, Before, After
  <2> QED
    BY <2>1, <2>2, <2>3, <2>4 DEF LoneInv
<1> QED
  BY <1>1, <1>2, <1>3

\* Nobody is beside it, or updates have overlapped.
LEMMA CheckForUpdatesStep ==
  ASSUME InstallationInv, NEW p \in Proc, CheckForUpdates(p)
  PROVE  InstallationInv'
<1> USE UpdaterAssumption
    DEF InstallationInv, CheckForUpdates, Goto, Fail, Fault, Steps, Before, After
<1>1. UpdaterTypeOK'
  <2>1. release' \in [Proc -> Version] /\ together' \subseteq Proc
    BY DEF UpdaterTypeOK, Doing, Alive
  <2> QED
    BY <2>1 DEF UpdaterTypeOK
<1>2. StepsInv'
  BY DEF UpdaterTypeOK, StepsInv, Name, Over, Success
<1>3. ASSUME together' = {} PROVE LoneInv'
  <2>0. LoneInv
    BY <1>3 DEF Doing
  <2>a. \A q \in Proc \ {p} : at[q] \notin Steps
    BY <1>3 DEF Doing, Alive, StepsInv, Over, Success
  <2>1. NamesInv'
    BY <2>0 DEF LoneInv, NamesInv, UpdaterTypeOK, StepsInv
  <2>2. (\E n \in Name : Works(n))'
    BY <2>0 DEF LoneInv, WorkInv, Works, UpdaterTypeOK
  <2>3. \A q \in Proc : SourceInv(q)'
    BY <2>0 DEF LoneInv, SourceInv, BesideInv, WorkInv, Works, UpdaterTypeOK, StepsInv
  <2>4. \A q \in Proc : WorkInv(q)'
    BY <2>0 DEF LoneInv, WorkInv, Works, UpdaterTypeOK, StepsInv
  <2>5. \A q, r \in Proc :
          q # r /\ at'[q] \in Steps \ {"check"} /\ at'[r] \in Steps =>
            at'[r] = "check" /\ BesideInv(q, r)'
    BY <2>0, <2>a DEF LoneInv, BesideInv, UpdaterTypeOK, StepsInv
  <2> QED
    BY <2>1, <2>2, <2>3, <2>4, <2>5 DEF LoneInv
<1> QED
  BY <1>1, <1>2, <1>3

\* The names of the binaries do not change before the first rename.
LEMMA CreateTempStep ==
  ASSUME InstallationInv, NEW p \in Proc, CreateTemp(p)
  PROVE  InstallationInv'
<1> USE UpdaterAssumption
    DEF InstallationInv, CreateTemp, Sharing, Meets, Goto, Fail, Fault, Steps, Before, After
<1>1. UpdaterTypeOK'
  <2>1. second' \in [Proc -> Second]
    BY DEF UpdaterTypeOK
  <2>2. temp' \in [Second -> Version \cup {Broken, None}]
    BY DEF UpdaterTypeOK
  <2> QED
    BY <2>1, <2>2 DEF UpdaterTypeOK
<1>2. StepsInv'
  BY DEF UpdaterTypeOK, StepsInv, Name, Over, Success
<1>3. ASSUME together' = {} PROVE LoneInv'
  <2>0. LoneInv
    BY <1>3 DEF Doing
  <2>1. NamesInv'
    BY <2>0 DEF LoneInv, NamesInv, UpdaterTypeOK, StepsInv
  <2>2. (\E n \in Name : Works(n))'
    BY <2>0 DEF LoneInv, WorkInv, Works, UpdaterTypeOK
  <2>3. \A q \in Proc : SourceInv(q)'
    BY <2>0 DEF LoneInv, SourceInv, BesideInv, WorkInv, Works, UpdaterTypeOK, StepsInv
  <2>4. \A q \in Proc : WorkInv(q)'
    BY <2>0 DEF LoneInv, WorkInv, Works, UpdaterTypeOK, StepsInv
  <2>5. \A q, r \in Proc :
          q # r /\ at'[q] \in Steps \ {"check"} /\ at'[r] \in Steps =>
            at'[r] = "check" /\ BesideInv(q, r)'
    BY <2>0 DEF LoneInv, BesideInv, UpdaterTypeOK, StepsInv
  <2> QED
    BY <2>1, <2>2, <2>3, <2>4, <2>5 DEF LoneInv
<1> QED
  BY <1>1, <1>2, <1>3

\* What has come is looked at next.
LEMMA FetchStep ==
  ASSUME InstallationInv, NEW p \in Proc, Fetch(p)
  PROVE  InstallationInv'
<1> USE UpdaterAssumption
    DEF InstallationInv, Fetch, Goto, Fail, Fault, Steps, Before, After
<1>1. UpdaterTypeOK'
  <2>1. temp' \in [Second -> Version \cup {Broken, None}]
    BY DEF UpdaterTypeOK
  <2> QED
    BY <2>1 DEF UpdaterTypeOK
<1>2. StepsInv'
  BY DEF UpdaterTypeOK, StepsInv, Name, Over, Success
<1>3. ASSUME together' = {} PROVE LoneInv'
  <2>0. LoneInv
    BY <1>3 DEF Doing
  <2>1. NamesInv'
    BY <2>0 DEF LoneInv, NamesInv, UpdaterTypeOK, StepsInv
  <2>2. (\E n \in Name : Works(n))'
    BY <2>0 DEF LoneInv, WorkInv, Works, UpdaterTypeOK
  <2>3. \A q \in Proc : SourceInv(q)'
    BY <2>0 DEF LoneInv, SourceInv, BesideInv, WorkInv, Works, UpdaterTypeOK, StepsInv
  <2>4. \A q \in Proc : WorkInv(q)'
    BY <2>0 DEF LoneInv, WorkInv, Works, UpdaterTypeOK, StepsInv
  <2>5. \A q, r \in Proc :
          q # r /\ at'[q] \in Steps \ {"check"} /\ at'[r] \in Steps =>
            at'[r] = "check" /\ BesideInv(q, r)'
    BY <2>0 DEF LoneInv, BesideInv, UpdaterTypeOK, StepsInv
  <2> QED
    BY <2>1, <2>2, <2>3, <2>4, <2>5 DEF LoneInv
<1> QED
  BY <1>1, <1>2, <1>3

\* The download that goes on is a release.
LEMMA VerifyBinaryStep ==
  ASSUME InstallationInv, NEW p \in Proc, VerifyBinary(p)
  PROVE  InstallationInv'
<1> USE UpdaterAssumption
    DEF InstallationInv, VerifyBinary, RemoveTemp, Goto, Fail, Fault, Steps, Before, After
<1>1. UpdaterTypeOK'
  BY DEF UpdaterTypeOK, StepsInv, Name, Binary
<1>2. StepsInv'
  BY DEF UpdaterTypeOK, StepsInv, Name, Over, Success
<1>3. ASSUME together' = {} PROVE LoneInv'
  <2>0. LoneInv
    BY <1>3 DEF Doing
  <2>1. NamesInv'
    BY <2>0 DEF LoneInv, NamesInv, UpdaterTypeOK, StepsInv
  <2>2. (\E n \in Name : Works(n))'
    BY <2>0 DEF LoneInv, WorkInv, Works, UpdaterTypeOK
  <2>3. \A q \in Proc : SourceInv(q)'
    BY <2>0 DEF LoneInv, SourceInv, BesideInv, WorkInv, Works, UpdaterTypeOK, StepsInv
  <2>4. \A q \in Proc : WorkInv(q)'
    BY <2>0 DEF LoneInv, WorkInv, Works, UpdaterTypeOK, StepsInv
  <2>5. \A q, r \in Proc :
          q # r /\ at'[q] \in Steps \ {"check"} /\ at'[r] \in Steps =>
            at'[r] = "check" /\ BesideInv(q, r)'
    BY <2>0 DEF LoneInv, BesideInv, UpdaterTypeOK, StepsInv
  <2> QED
    BY <2>1, <2>2, <2>3, <2>4, <2>5 DEF LoneInv
<1> QED
  BY <1>1, <1>2, <1>3

\* A lone updater gets the name that its binary has.
LEMMA ExecutableStep ==
  ASSUME InstallationInv, NEW p \in Proc, Executable(p)
  PROVE  InstallationInv'
<1> USE UpdaterAssumption DEF InstallationInv
<1>1. CASE Fault(p, "failed") /\ RemoveTemp(p) /\ UNCHANGED target
  <2>1. UNCHANGED <<bin, code, was, exe, release, second, target, fd, nested, stray, together>>
    BY <1>1 DEF Executable
  <2>2. temp' \in [Second -> Version \cup {Broken, None}]
    BY <1>1 DEF RemoveTemp, UpdaterTypeOK
  <2>3. at[p] \in Steps \ {"check"}
    BY DEF Executable, Steps, Before
  <2> QED
    BY <1>1, <2>1, <2>2, <2>3, FailureKeeps
<1>2. CASE ~(Fault(p, "failed") /\ RemoveTemp(p) /\ UNCHANGED target)
  <2>1. /\ at[p] = "locate" /\ Goto(p, "backup")
        /\ target' = [target EXCEPT ![p] = was[exe[p]]]
        /\ UNCHANGED <<bin, code, was, exe, temp, release, second, fd, nested, stray, together>>
    BY <1>2 DEF Executable
  <2>2. /\ DOMAIN at' = Proc /\ at'[p] = "backup" /\ cmd' = cmd
        /\ \A q \in Proc \ {p} : at'[q] = at[q] /\ target'[q] = target[q]
        /\ target'[p] = was[exe[p]]
    BY <2>1 DEF Goto, StepsInv, UpdaterTypeOK
  <2>3. UpdaterTypeOK'
    BY <2>1 DEF UpdaterTypeOK
  <2>4. StepsInv'
    BY <2>1, <2>2 DEF StepsInv, Steps, Before, After
  <2>5. ASSUME together' = {} PROVE LoneInv'
    <3>0. LoneInv
      BY <2>1, <2>5
    <3>1. NamesInv' /\ (\E m \in Name : Works(m))'
      BY <2>1, <2>2, <3>0 DEF LoneInv, NamesInv, Works, Before
    <3>2. \A q \in Proc : SourceInv(q)' /\ WorkInv(q)'
      BY <2>1, <2>2, <3>0 DEF LoneInv, SourceInv, WorkInv, Works, Before
    <3>3. \A q, r \in Proc :
            q # r /\ at'[q] \in Steps \ {"check"} /\ at'[r] \in Steps =>
              at'[r] = "check" /\ BesideInv(q, r)'
      BY <2>1, <2>2, <3>0 DEF LoneInv, BesideInv, Steps, Before, After
    <3> QED
      BY <3>1, <3>2, <3>3 DEF LoneInv
  <2> QED
    BY <2>1, <2>3, <2>4, <2>5
<1> QED
  BY <1>1, <1>2

\* The binary moved works at its new name; those beside it that run it have it there.
LEMMA MoveAsideStep ==
  ASSUME InstallationInv, NEW p \in Proc, MoveAside(p)
  PROVE  InstallationInv'
<1> USE UpdaterAssumption DEF InstallationInv
<1>0. PICK n \in Name : n = target[p] /\ at[p] = "backup"
  BY DEF UpdaterTypeOK, MoveAside
<1>1. CASE Fail(p) \/ Fault(p, "failed")
  <2>1. /\ UNCHANGED <<bin, code, was, exe, release, second, target, fd, nested, stray, together>>
        /\ RemoveTemp(p)
    BY <1>1, UpdaterAssumption DEF MoveAside, Goto, Fail, Fault, Rename, StepsInv
  <2>2. temp' \in [Second -> Version \cup {Broken, None}]
    BY <2>1 DEF RemoveTemp, UpdaterTypeOK
  <2> QED
    BY <1>0, <1>1, <2>1, <2>2, FailureKeeps DEF Steps, Before
<1>2. CASE ~(Fail(p) \/ Fault(p, "failed"))
  <2>1. /\ bin[n] # None /\ n < Depth
        /\ bin' = [bin EXCEPT ![n] = None, ![n + 1] = bin[n]]
        /\ was' = [was EXCEPT ![bin[n]] = n + 1]
        /\ Goto(p, "create")
        /\ UNCHANGED <<temp, code, exe, release, second, target, fd, nested, together>>
    BY <1>0, <1>2 DEF MoveAside, Rename
  <2>2. n + 1 \in Name /\ n + 1 # n /\ bin[n] \in Binary
    BY <1>0, <2>1 DEF Name, UpdaterTypeOK
  <2>3. UpdaterTypeOK'
    <3>1. bin' \in [Name -> Binary \cup {None}] /\ was' \in [Binary -> Name]
      BY <1>0, <2>1, <2>2 DEF UpdaterTypeOK
    <3>2. target' \in [Proc -> Name]
      BY <1>0, <2>1 DEF UpdaterTypeOK
    <3>3. stray' \in BOOLEAN
      <4>1. stray' = stray \/ stray' = (stray \/ bin[target[p]] # exe[p])
        BY <1>2, Zenon DEF MoveAside
      <4> QED
        BY <4>1 DEF UpdaterTypeOK
    <3> QED
      BY <2>1, <3>1, <3>2, <3>3 DEF UpdaterTypeOK
  <2>4. /\ DOMAIN at' = Proc /\ at'[p] = "create"
        /\ \A q \in Proc \ {p} : at'[q] = at[q] /\ target'[q] = target[q]
        /\ target'[p] = n
    BY <1>0, <2>1 DEF Goto, StepsInv, UpdaterTypeOK
  <2>5. StepsInv'
    BY <1>0, <2>1, <2>4 DEF Goto, StepsInv, Steps, Before, After, UpdaterTypeOK
  <2>6. ASSUME together' = {} PROVE LoneInv'
    <3>0. LoneInv
      BY <2>1, <2>6
    <3>a. was[exe[p]] = n
      BY <1>0, <3>0 DEF LoneInv, WorkInv
    <3>1. /\ bin'[n] = None /\ bin'[n + 1] = bin[n]
          /\ \A m \in Name \ {n, n + 1} : bin'[m] = bin[m]
          /\ was[bin[n]] = n /\ was'[bin[n]] = n + 1
          /\ \A b \in Binary \ {bin[n]} : was'[b] = was[b]
      BY <1>0, <2>1, <2>2, <3>0 DEF UpdaterTypeOK, LoneInv, NamesInv
    <3>2. \A q \in Proc \ {p} : at[q] \in Steps =>
             at[q] = "check" /\ bin[was[exe[q]]] = exe[q]
      BY <1>0, <3>0 DEF LoneInv, BesideInv, Steps, Before
    <3>3. Works(n) /\ Works(n + 1)'
      BY <1>0, <3>a, <2>1, <2>2, <3>0, <3>1 DEF LoneInv, SourceInv, Works, Before
    <3>4. NamesInv'
      <4>1. ASSUME NEW m \in Name, bin'[m] # None PROVE was'[bin'[m]] = m
        <5>1. CASE m \in {n, n + 1}
          BY <2>2, <3>1, <4>1, <5>1
        <5>2. CASE m \notin {n, n + 1}
          BY <2>2, <3>0, <3>1, <4>1, <5>2 DEF LoneInv, NamesInv, UpdaterTypeOK
        <5> QED
          BY <5>1, <5>2
      <4>2. ASSUME NEW q \in Proc, at'[q] \in Before \cup {"create", "unborn"}
            PROVE  at[q] \in Before \cup {"create", "unborn"}
        BY <1>0, <2>4, <4>2 DEF Before
      <4>3. ASSUME NEW q \in Proc, at'[q] \in Before \cup {"create", "unborn"}, NEW m \in Name
            PROVE  bin'[m] # q
        BY <2>2, <3>0, <3>1, <4>2, <4>3, UpdaterAssumption DEF LoneInv, NamesInv, Binary
      <4> QED
        BY <2>1, <3>0, <4>1, <4>2, <4>3 DEF LoneInv, NamesInv
    <3>5. (\E m \in Name : Works(m))'
      BY <2>2, <3>3 DEF Works
    <3>6. \A q \in Proc : SourceInv(q)'
      <4> SUFFICES ASSUME NEW q \in Proc, at'[q] \in Before
                   PROVE  SourceInv(q)'
        BY DEF SourceInv
      <4>1. PICK m \in Name : m = was[exe[q]]
        BY DEF UpdaterTypeOK
      <4>2. q # p /\ at[q] \in Before /\ bin[m] = exe[q] /\ exe[q] \in Binary
        BY <2>4, <3>2, <4>1 DEF Before, After, Steps, UpdaterTypeOK
      <4>3. Works(m)
        BY <3>0, <4>1, <4>2, UpdaterAssumption DEF LoneInv, SourceInv, UpdaterTypeOK
      <4>4. CASE m = n
        BY <2>1, <3>1, <3>3, <4>1, <4>2, <4>4 DEF SourceInv
      <4>5. CASE m # n
        <5>1. was'[exe[q]] = m
          BY <1>0, <2>2, <3>0, <3>1, <4>1, <4>2, <4>5
        <5>2. Works(m)'
          BY <2>1, <3>1, <3>3, <4>1, <4>3, <4>5 DEF Works
        <5> QED
          BY <2>1, <5>1, <5>2 DEF SourceInv
      <4> QED
        BY <4>4, <4>5
    <3>7. \A q \in Proc : WorkInv(q)'
      <4>1. WorkInv(p)'
        BY <1>0, <2>1, <2>4, <3>0, <3>1, <3>3 DEF LoneInv, WorkInv
      <4>2. ASSUME NEW q \in Proc \ {p} PROVE WorkInv(q)'
        BY <2>4, <3>2, <4>2 DEF WorkInv, Steps, Before, After
      <4> QED
        BY <4>1, <4>2
    <3>8. \A q, r \in Proc :
            q # r /\ at'[q] \in Steps \ {"check"} /\ at'[r] \in Steps =>
              at'[r] = "check" /\ BesideInv(q, r)'
      <4> SUFFICES ASSUME NEW q \in Proc, NEW r \in Proc, q # r,
                          at'[q] \in Steps \ {"check"}, at'[r] \in Steps
                   PROVE  at'[r] = "check" /\ BesideInv(q, r)'
        OBVIOUS
      <4>1. q = p /\ at'[r] = "check" /\ bin[was[exe[r]]] = exe[r]
        BY <2>4, <3>2
      <4>2. was'[exe[r]] # n
        BY <1>0, <2>2, <3>1, <4>1 DEF UpdaterTypeOK
      <4> QED
        BY <2>1, <2>4, <4>1, <4>2 DEF BesideInv, Before
    <3> QED
      BY <3>4, <3>5, <3>6, <3>7, <3>8 DEF LoneInv
  <2> QED
    BY <2>1, <2>3, <2>5, <2>6
<1> QED
  BY <1>1, <1>2

\* The new binary is one that had no name, and nobody runs it.
LEMMA CreateBinaryStep ==
  ASSUME InstallationInv, NEW p \in Proc, CreateBinary(p)
  PROVE  InstallationInv'
<1> USE UpdaterAssumption DEF InstallationInv
<1>0. PICK n \in Name : n = target[p] /\ at[p] = "create" /\ n < Depth /\ n + 1 \in Name
  BY DEF UpdaterTypeOK, StepsInv, After, Name, CreateBinary
<1>1. CASE Goto(p, "undo") \/ Fault(p, "undo")
  <2>1. UNCHANGED <<bin, code, was, exe, temp, release, second, target, fd, nested, stray, together>>
    BY <1>1 DEF CreateBinary, Goto, Fault, StepsInv
  <2>2. /\ DOMAIN at' = Proc /\ at'[p] = "undo" /\ cmd' = cmd
        /\ \A q \in Proc \ {p} : at'[q] = at[q]
    BY <1>1 DEF Goto, Fault, StepsInv
  <2>3. UpdaterTypeOK'
    BY <2>1 DEF UpdaterTypeOK
  <2>4. StepsInv'
    BY <1>0, <2>1, <2>2 DEF StepsInv, Steps, Before, After
  <2>5. ASSUME together' = {} PROVE LoneInv'
    <3>0. LoneInv
      BY <2>1, <2>5
    <3>1. NamesInv'
      BY <1>0, <2>1, <2>2, <3>0 DEF LoneInv, NamesInv, Before
    <3>2. (\E m \in Name : Works(m))'
      BY <2>1, <3>0 DEF LoneInv, Works
    <3>3. \A q \in Proc : SourceInv(q)' /\ WorkInv(q)'
      BY <1>0, <2>1, <2>2, <3>0 DEF LoneInv, SourceInv, WorkInv, Works, Before
    <3>4. \A q, r \in Proc :
            q # r /\ at'[q] \in Steps \ {"check"} /\ at'[r] \in Steps =>
              at'[r] = "check" /\ BesideInv(q, r)'
      BY <1>0, <2>1, <2>2, <3>0 DEF LoneInv, BesideInv, Steps, Before, After
    <3> QED
      BY <3>1, <3>2, <3>3, <3>4 DEF LoneInv
  <2> QED
    BY <2>1, <2>3, <2>4, <2>5
<1>2. CASE ~(Goto(p, "undo") \/ Fault(p, "undo"))
  <2>1. PICK b \in Binary :
          /\ b = IF bin[n] = None THEN p ELSE bin[n]
          /\ bin' = [bin EXCEPT ![n] = b]
          /\ code' = [code EXCEPT ![b] = Broken]
          /\ was' = [was EXCEPT ![b] = n]
          /\ fd' = [fd EXCEPT ![p] = b]
          /\ Goto(p, "copy")
          /\ UNCHANGED <<exe, temp, release, second, target, nested, stray, together>>
    BY <1>0, <1>2 DEF CreateBinary, UpdaterTypeOK, Binary
  <2>2. /\ DOMAIN at' = Proc /\ at'[p] = "copy" /\ cmd' = cmd
        /\ \A q \in Proc \ {p} : at'[q] = at[q]
    BY <2>1 DEF Goto, StepsInv
  <2>3. UpdaterTypeOK'
    <3>1. bin' \in [Name -> Binary \cup {None}] /\ was' \in [Binary -> Name]
      BY <1>0, <2>1 DEF UpdaterTypeOK
    <3>2. code' \in [Binary -> Version \cup {Broken}] /\ fd' \in [Proc -> Binary]
      BY <2>1 DEF UpdaterTypeOK
    <3> QED
      BY <2>1, <3>1, <3>2 DEF UpdaterTypeOK
  <2>4. StepsInv'
    BY <1>0, <2>1, <2>2 DEF StepsInv, Steps, Before, After
  <2>5. ASSUME together' = {} PROVE LoneInv'
    <3>0. LoneInv
      BY <2>1, <2>5
    <3>1. /\ b = p
          /\ \A m \in Name : bin[m] # p
          /\ \A q \in Proc : exe[q] # p
      BY <1>0, <2>1, <3>0 DEF LoneInv, WorkInv, NamesInv
    <3>2. \A q \in Proc \ {p} : at[q] \in Steps =>
             at[q] = "check" /\ was[exe[q]] # n
      BY <1>0, <3>0 DEF LoneInv, BesideInv, Steps, After
    <3>3. /\ bin'[n] = p /\ was'[p] = n /\ code'[p] = Broken
          /\ \A m \in Name \ {n} : bin'[m] = bin[m]
          /\ \A c \in Binary \ {p} : was'[c] = was[c] /\ code'[c] = code[c]
      BY <1>0, <2>1, <3>1 DEF UpdaterTypeOK
    <3>4. \A m \in Name \ {n} : Works(m) => Works(m)'
      BY <3>1, <3>3 DEF Works, UpdaterTypeOK
    <3>5. n + 1 # n /\ Works(n + 1)
      BY <1>0, <3>0 DEF LoneInv, WorkInv, Name
    <3>6. NamesInv'
      BY <1>0, <2>1, <2>2, <3>0, <3>1, <3>3 DEF LoneInv, NamesInv, UpdaterTypeOK, Before
    <3>7. (\E m \in Name : Works(m))'
      BY <1>0, <3>4, <3>5 DEF Works
    <3>8. \A q \in Proc : SourceInv(q)'
      <4> SUFFICES ASSUME NEW q \in Proc, at'[q] \in Before
                   PROVE  SourceInv(q)'
        BY DEF SourceInv
      <4>1. PICK m \in Name : m = was[exe[q]]
        BY DEF UpdaterTypeOK
      <4>2. q # p /\ at[q] \in Before /\ m # n /\ exe[q] \in Binary
        BY <2>2, <3>2, <4>1 DEF Before, Steps, UpdaterTypeOK
      <4>3. was'[exe[q]] = m /\ bin'[m] = bin[m]
        BY <3>1, <3>3, <4>1, <4>2
      <4> QED
        BY <2>1, <3>0, <3>4, <4>1, <4>2, <4>3 DEF LoneInv, SourceInv
    <3>9. \A q \in Proc : WorkInv(q)'
      <4>1. WorkInv(p)'
        <5>1. Works(n + 1)' /\ ~Works(n)'
          BY <1>0, <3>3, <3>4, <3>5 DEF Works
        <5>2. fd'[p] = p
          BY <2>1, <3>1 DEF UpdaterTypeOK
        <5> QED
          BY <1>0, <2>1, <2>2, <3>0, <3>1, <3>3, <3>5, <5>1, <5>2 DEF LoneInv, WorkInv
      <4>2. ASSUME NEW q \in Proc \ {p} PROVE WorkInv(q)'
        BY <2>2, <3>2, <4>2 DEF WorkInv, Steps, Before, After
      <4> QED
        BY <4>1, <4>2
    <3>10. \A q, r \in Proc :
             q # r /\ at'[q] \in Steps \ {"check"} /\ at'[r] \in Steps =>
               at'[r] = "check" /\ BesideInv(q, r)'
      BY <1>0, <2>1, <2>2, <3>1, <3>2, <3>3 DEF BesideInv, UpdaterTypeOK, Before
    <3> QED
      BY <3>6, <3>7, <3>8, <3>9, <3>10 DEF LoneInv
  <2> QED
    BY <2>1, <2>3, <2>4, <2>5
<1> QED
  BY <1>1, <1>2

\* The new binary is the release that was verified.
LEMMA CopyBinaryStep ==
  ASSUME InstallationInv, NEW p \in Proc, CopyBinary(p)
  PROVE  InstallationInv'
<1> USE UpdaterAssumption DEF InstallationInv
<1>0. PICK n \in Name : n = target[p] /\ at[p] = "copy" /\ n < Depth /\ n + 1 \in Name
  BY DEF UpdaterTypeOK, StepsInv, After, Name, CopyBinary
<1>1. UNCHANGED <<bin, was, exe, temp, release, second, target, fd, nested, stray, together>>
  BY DEF CopyBinary
<1>2. PICK c \in Version \cup {Broken} :
        /\ code' = [code EXCEPT ![fd[p]] = c]
        /\ at'[p] = "undo" /\ fd[p] = p => c = code[fd[p]]
        /\ at'[p] = "tidy" /\ bin[n] = fd[p] => c = temp[second[p]]
  <2>1. code[fd[p]] \in Version \cup {Broken} /\ code = [code EXCEPT ![fd[p]] = code[fd[p]]]
    BY DEF UpdaterTypeOK
  <2>2. release[p] \in Version /\ temp[second[p]] \in Version \cup {Broken, None}
    BY DEF UpdaterTypeOK
  <2>3. ASSUME Unmarked(p) PROVE \E c \in Version \cup {Broken} :
          code' = [code EXCEPT ![fd[p]] = c] /\ (fd[p] = p => c = code[fd[p]])
    BY <2>1, <2>2, <2>3 DEF Unmarked
  <2>4. \/ /\ temp[second[p]] # None /\ at'[p] = "tidy"
           /\ code' = [code EXCEPT ![fd[p]] = temp[second[p]]]
        \/ Unmarked(p) /\ (at'[p] = "tidy" => bin[n] # fd[p])
    BY <1>0 DEF CopyBinary, Goto, Fault, StepsInv
  <2> QED
    BY <2>2, <2>3, <2>4
<1>3. /\ DOMAIN at' = Proc /\ at'[p] \in {"undo", "tidy"} /\ cmd' = cmd
      /\ \A q \in Proc \ {p} : at'[q] = at[q]
  BY DEF CopyBinary, Goto, Fault, StepsInv
<1>4. UpdaterTypeOK'
  BY <1>1, <1>2 DEF UpdaterTypeOK
<1>5. StepsInv'
  BY <1>0, <1>1, <1>3 DEF StepsInv, Steps, Before, After
<1>6. ASSUME together' = {} PROVE LoneInv'
  <2>0. LoneInv
    BY <1>1, <1>6
  <2>1. /\ bin[n] = fd[p] /\ bin[n + 1] # fd[p] /\ n + 1 # n
        /\ Works(n + 1) /\ ~Works(n) /\ temp[second[p]] \in Version /\ bin[n] # None
        /\ fd[p] = p
    BY <1>0, <2>0 DEF LoneInv, WorkInv, UpdaterTypeOK, Name
  <2>2. \A q \in Proc \ {p} : at[q] \in Steps =>
           at[q] = "check" /\ was[exe[q]] # n
    BY <1>0, <2>0 DEF LoneInv, BesideInv, Steps, After
  <2>3. \A m \in Name \ {n} : bin[m] # None => bin[m] # fd[p]
    BY <1>0, <2>0, <2>1 DEF LoneInv, NamesInv
  <2>4. \A m \in Name \ {n} : Works(m) => Works(m)'
    BY <1>1, <1>2, <2>3 DEF Works, UpdaterTypeOK
  <2>5. at'[p] = "tidy" => Works(n)'
    BY <1>0, <1>1, <1>2, <2>1 DEF Works, UpdaterTypeOK
  <2>6. at'[p] = "undo" => ~Works(n)'
    BY <1>0, <1>1, <1>2, <2>1 DEF Works, UpdaterTypeOK
  <2>7. NamesInv'
    BY <1>0, <1>1, <1>3, <2>0 DEF LoneInv, NamesInv, Before
  <2>8. (\E m \in Name : Works(m))'
    BY <1>0, <2>1, <2>4 DEF Works
  <2>9. \A q \in Proc : SourceInv(q)'
    <3> SUFFICES ASSUME NEW q \in Proc, at'[q] \in Before PROVE SourceInv(q)'
      BY DEF SourceInv
    <3>1. PICK m \in Name : m = was[exe[q]]
      BY DEF UpdaterTypeOK
    <3>2. at[q] \in Before /\ m # n
      BY <1>3, <2>2, <3>1 DEF Before, Steps
    <3> QED
      BY <1>1, <2>0, <2>4, <3>1, <3>2 DEF LoneInv, SourceInv
  <2>10. \A q \in Proc : WorkInv(q)'
    <3>1. WorkInv(p)'
      BY <1>0, <1>1, <1>3, <2>1, <2>4, <2>5, <2>6 DEF WorkInv
    <3>2. ASSUME NEW q \in Proc \ {p} PROVE WorkInv(q)'
      BY <1>3, <2>2, <3>2 DEF WorkInv, Steps, Before, After
    <3> QED
      BY <3>1, <3>2
  <2>11. \A q, r \in Proc :
           q # r /\ at'[q] \in Steps \ {"check"} /\ at'[r] \in Steps =>
             at'[r] = "check" /\ BesideInv(q, r)'
    BY <1>0, <1>1, <1>3, <2>2 DEF BesideInv, Before
  <2> QED
    BY <2>7, <2>8, <2>9, <2>10, <2>11 DEF LoneInv
<1> QED
  BY <1>4, <1>5, <1>6

\* The binary that works gets its name back, or keeps that of the backup.
LEMMA UndoStep ==
  ASSUME InstallationInv, NEW p \in Proc, Undo(p)
  PROVE  InstallationInv'
<1> USE UpdaterAssumption DEF InstallationInv
<1>0. PICK n \in Name : n = target[p] /\ at[p] = "undo" /\ n + 1 \in Name /\ n + 1 # n
  BY DEF UpdaterTypeOK, StepsInv, After, Name, Undo
<1>1. temp' \in [Second -> Version \cup {Broken, None}]
  BY DEF Undo, RemoveTemp, UpdaterTypeOK
<1>2. CASE UNCHANGED <<bin, was>>
  <2>1. /\ Fail(p) \/ Fault(p, "failed")
        /\ UNCHANGED <<bin, code, was, exe, release, second, target, fd, nested, stray, together>>
    BY <1>2 DEF Undo
  <2> QED
    BY <1>0, <1>1, <2>1, FailureKeeps DEF Steps, Before, After
<1>3. CASE ~UNCHANGED <<bin, was>>
  <2>1. /\ bin[n + 1] \in Binary
        /\ bin' = [bin EXCEPT ![n + 1] = None, ![n] = bin[n + 1]]
        /\ was' = [was EXCEPT ![bin[n + 1]] = n]
        /\ UNCHANGED <<code, exe, release, second, target, fd, nested, stray, together>>
    BY <1>0, <1>3 DEF Undo, Rename, UpdaterTypeOK
  <2>2. /\ DOMAIN at' = Proc /\ at'[p] = "failed" /\ cmd' = cmd
        /\ \A q \in Proc \ {p} : at'[q] = at[q]
    BY <1>0, <1>3 DEF Undo, Fail, Fault, Goto, StepsInv
  <2>3. UpdaterTypeOK'
    <3>1. bin' \in [Name -> Binary \cup {None}] /\ was' \in [Binary -> Name]
      BY <1>0, <2>1 DEF UpdaterTypeOK
    <3> QED
      BY <1>1, <2>1, <3>1 DEF UpdaterTypeOK
  <2>4. StepsInv'
    BY <1>0, <2>1, <2>2 DEF StepsInv, Steps, Before, After, Over
  <2>5. ASSUME together' = {} PROVE LoneInv'
    <3>0. LoneInv
      BY <2>1, <2>5
    <3>1. Works(n + 1) /\ was[bin[n + 1]] = n + 1
      BY <1>0, <2>1, <3>0 DEF LoneInv, WorkInv, NamesInv
    <3>2. \A q \in Proc \ {p} : at[q] \in Steps =>
             at[q] = "check" /\ was[exe[q]] # n
      BY <1>0, <3>0 DEF LoneInv, BesideInv, Steps, After
    <3>3. /\ bin'[n + 1] = None /\ bin'[n] = bin[n + 1]
          /\ \A m \in Name \ {n, n + 1} : bin'[m] = bin[m]
          /\ was'[bin[n + 1]] = n
          /\ \A c \in Binary \ {bin[n + 1]} : was'[c] = was[c]
      BY <1>0, <2>1 DEF UpdaterTypeOK
    <3>4. Works(n)' /\ \A m \in Name \ {n, n + 1} : Works(m) => Works(m)'
      BY <1>0, <2>1, <3>1, <3>3 DEF Works
    <3>5. NamesInv'
      <4>1. ASSUME NEW m \in Name, bin'[m] # None PROVE was'[bin'[m]] = m
        BY <1>0, <2>1, <3>0, <3>1, <3>3, <4>1 DEF LoneInv, NamesInv, UpdaterTypeOK
      <4>2. ASSUME NEW q \in Proc, at'[q] \in Before \cup {"create", "unborn"}, NEW m \in Name
            PROVE  bin'[m] # q /\ at[q] \in Before \cup {"create", "unborn"}
        BY <1>0, <2>2, <3>0, <3>3, <4>2 DEF LoneInv, NamesInv, Before, Binary
      <4> QED
        BY <1>0, <2>1, <3>0, <4>1, <4>2 DEF LoneInv, NamesInv
    <3>6. (\E m \in Name : Works(m))'
      BY <1>0, <3>4 DEF Works
    <3>7. \A q \in Proc : SourceInv(q)'
      <4> SUFFICES ASSUME NEW q \in Proc, at'[q] \in Before PROVE SourceInv(q)'
        BY DEF SourceInv
      <4>1. PICK m \in Name : m = was[exe[q]]
        BY DEF UpdaterTypeOK
      <4>2. q # p /\ at[q] \in Before /\ m # n /\ exe[q] \in Binary
        BY <2>2, <3>2, <4>1 DEF Before, Steps, UpdaterTypeOK
      <4>3. CASE exe[q] = bin[n + 1]
        BY <2>1, <3>3, <3>4, <4>3 DEF SourceInv
      <4>4. CASE exe[q] # bin[n + 1] /\ m = n + 1
        BY <2>1, <3>3, <4>1, <4>2, <4>4 DEF SourceInv
      <4>5. CASE exe[q] # bin[n + 1] /\ m # n + 1
        <5>1. was'[exe[q]] = m /\ bin'[m] = bin[m]
          BY <3>3, <4>1, <4>2, <4>5
        <5> QED
          BY <2>1, <3>0, <3>4, <4>1, <4>2, <4>5, <5>1 DEF LoneInv, SourceInv
      <4> QED
        BY <4>3, <4>4, <4>5
    <3>8. \A q \in Proc : WorkInv(q)'
      BY <2>2, <3>2 DEF WorkInv, Steps, Before, After
    <3>9. \A q, r \in Proc :
            q # r /\ at'[q] \in Steps \ {"check"} /\ at'[r] \in Steps =>
              at'[r] = "check" /\ BesideInv(q, r)'
      BY <2>2, <3>2 DEF Steps, Before, After
    <3> QED
      BY <3>5, <3>6, <3>7, <3>8, <3>9 DEF LoneInv
  <2> QED
    BY <2>1, <2>3, <2>4, <2>5
<1> QED
  BY <1>2, <1>3

\* The backup goes when the new binary works.
LEMMA TidyStep ==
  ASSUME InstallationInv, NEW p \in Proc, Tidy(p)
  PROVE  InstallationInv'
<1> USE UpdaterAssumption DEF InstallationInv
<1>0. PICK n \in Name : n = target[p] /\ at[p] = "tidy" /\ n + 1 \in Name /\ n + 1 # n
  BY DEF UpdaterTypeOK, StepsInv, After, Name, Tidy
<1>1. /\ UNCHANGED <<code, was, exe, release, second, target, fd, nested, stray, together>>
      /\ bin' \in [Name -> Binary \cup {None}]
      /\ \A m \in Name \ {n + 1} : bin'[m] = bin[m]
      /\ bin'[n + 1] \in {None, bin[n + 1]}
  BY <1>0 DEF Tidy, UpdaterTypeOK
<1>2. /\ DOMAIN at' = Proc /\ at'[p] = "updated" /\ cmd' = cmd
      /\ \A q \in Proc \ {p} : at'[q] = at[q]
  BY DEF Tidy, Goto, StepsInv
<1>3. UpdaterTypeOK'
  <2>1. temp' \in [Second -> Version \cup {Broken, None}]
    BY DEF Tidy, RemoveTemp, UpdaterTypeOK
  <2> QED
    BY <1>1, <2>1 DEF UpdaterTypeOK
<1>4. StepsInv'
  BY <1>0, <1>1, <1>2 DEF StepsInv, Steps, Before, After, Over, Success
<1>5. ASSUME together' = {} PROVE LoneInv'
  <2>0. LoneInv
    BY <1>1, <1>5
  <2>1. \A q \in Proc \ {p} : at[q] \in Steps => at[q] = "check"
    BY <1>0, <2>0 DEF LoneInv, Steps, After
  <2>2. Works(n)'
    BY <1>0, <1>1, <2>0 DEF LoneInv, WorkInv, Works
  <2>3. NamesInv'
    <3>1. ASSUME NEW m \in Name PROVE bin'[m] \in {None, bin[m]}
      BY <1>1
    <3>2. ASSUME NEW q \in Proc, at'[q] \in Before \cup {"create", "unborn"}
          PROVE  at[q] \in Before \cup {"create", "unborn"} /\ None # q
      BY <1>2, <3>2 DEF Before, Binary
    <3> QED
      BY <1>1, <2>0, <3>1, <3>2 DEF LoneInv, NamesInv
  <2>4. (\E m \in Name : Works(m))'
    BY <1>0, <2>2 DEF Works
  <2>5. \A q \in Proc : SourceInv(q)'
    BY <1>0, <1>1, <1>2, <2>0 DEF LoneInv, SourceInv, Works, Before, UpdaterTypeOK
  <2>6. \A q \in Proc : WorkInv(q)'
    BY <1>2, <2>1 DEF WorkInv, Steps, Before, After
  <2>7. \A q, r \in Proc :
          q # r /\ at'[q] \in Steps \ {"check"} /\ at'[r] \in Steps =>
            at'[r] = "check" /\ BesideInv(q, r)'
    BY <1>2, <2>1 DEF Steps, Before, After
  <2> QED
    BY <2>3, <2>4, <2>5, <2>6, <2>7 DEF LoneInv
<1> QED
  BY <1>3, <1>4, <1>5

\* Who is started runs a binary that works, by its name.
LEMMA StartStep ==
  ASSUME InstallationInv, NEW p \in Proc, Start(p)
  PROVE  InstallationInv'
<1> USE UpdaterAssumption
    DEF InstallationInv, Start, RunBinary, Launch, FirstStep, Command, Steps, Before, After
<1>1. UpdaterTypeOK'
  BY DEF UpdaterTypeOK, Works
<1>2. StepsInv'
  BY DEF UpdaterTypeOK, StepsInv
<1>3. ASSUME together' = {} PROVE LoneInv'
  <2>0. LoneInv
    BY <1>3
  <2>1. NamesInv'
    BY <2>0 DEF LoneInv, NamesInv, UpdaterTypeOK, StepsInv
  <2>2. (\E n \in Name : Works(n))'
    BY <2>0 DEF LoneInv, Works
  <2>3. \A q \in Proc : SourceInv(q)'
    BY <2>0 DEF LoneInv, SourceInv, NamesInv, Works, UpdaterTypeOK, StepsInv
  <2>4. \A q \in Proc : WorkInv(q)'
    BY <2>0 DEF LoneInv, WorkInv, Works, UpdaterTypeOK, StepsInv
  <2>a. /\ DOMAIN at' = Proc /\ \A q \in Proc \ {p} : at'[q] = at[q]
        /\ at[p] = "unborn" /\ at'[p] \in Steps => at'[p] = "check"
    BY DEF StepsInv
  <2>b. PICK m \in Name : Works(m) /\ exe' = [exe EXCEPT ![p] = bin[m]]
    BY DEF Works
  <2>c. /\ exe'[p] = bin[m] /\ was[bin[m]] = m
        /\ \A q \in Proc \ {p} : exe'[q] = exe[q]
    BY <2>0, <2>b DEF LoneInv, NamesInv, Works, UpdaterTypeOK
  <2>d. \A q \in Proc : at[q] \in {"create", "copy", "undo"} => m # target[q]
    BY <2>0, <2>b DEF LoneInv, WorkInv, Works
  <2>5. \A q, r \in Proc :
          q # r /\ at'[q] \in Steps \ {"check"} /\ at'[r] \in Steps =>
            at'[r] = "check" /\ BesideInv(q, r)'
    BY <2>0, <2>a, <2>c, <2>d DEF LoneInv, BesideInv
  <2> QED
    BY <2>1, <2>2, <2>3, <2>4, <2>5 DEF LoneInv
<1> QED
  BY <1>1, <1>2, <1>3

-----------------------------------------------------------------------------
(* The theorems. *)

\* Every step of the installation keeps the invariant.
LEMMA InstallationStep ==
  ASSUME InstallationInv, [Next]_vars
  PROVE  InstallationInv'
<1>0. StepsInv
  BY DEF InstallationInv
<1>1. CASE UNCHANGED vars
  BY <1>1 DEF vars, commandVars, updaterVars, InstallationInv, UpdaterTypeOK, StepsInv,
      LoneInv, NamesInv, SourceInv, WorkInv, BesideInv, Works
<1>2. ASSUME NEW p \in Proc, Start(p) PROVE InstallationInv'
  BY <1>2, StartStep
<1>3. ASSUME NEW p \in Proc, Serve(p), UNCHANGED updaterVars PROVE InstallationInv'
  <2>1. Elsewhere(p) /\ at[p] \notin Steps \cup Over \cup {"unborn"}
    BY <1>0, <1>3, ServeStep
  <2> QED
    BY <1>0, <1>3, <2>1, ElsewhereKeeps DEF StepsInv
<1>4. ASSUME NEW p \in Proc, MakeBackup(p) \/ RestoreBackup(p), UNCHANGED updaterVars
      PROVE  InstallationInv'
  <2>1. Elsewhere(p) /\ at[p] \notin Steps \cup Over \cup {"unborn"}
    BY <1>0, <1>4, BackupStep
  <2> QED
    BY <1>0, <1>4, <2>1, ElsewhereKeeps DEF StepsInv
<1>5. ASSUME NEW p \in Proc, Update(p) PROVE InstallationInv'
  BY <1>5, CheckForUpdatesStep, CreateTempStep, FetchStep, VerifyBinaryStep,
     ExecutableStep, MoveAsideStep, CreateBinaryStep, CopyBinaryStep, UndoStep, TidyStep
  DEF Update
<1>6. ASSUME NEW p \in Proc, Die(p) PROVE InstallationInv'
  <2>1. Elsewhere(p) /\ at'[p] \in Over /\ at[p] # "unborn"
    BY <1>0, <1>6 DEF Die, Kill, Alive, Goto, Elsewhere, StepsInv, Over, Success,
       Steps, Before, After
  <2> QED
    BY <1>6, <2>1, ElsewhereKeeps DEF Die
<1>7. ASSUME Edit, UNCHANGED updaterVars PROVE InstallationInv'
  BY <1>7 DEF Edit, commandVars, updaterVars, InstallationInv, UpdaterTypeOK, StepsInv,
      LoneInv, NamesInv, SourceInv, WorkInv, BesideInv, Works
<1> QED
  BY <1>1, <1>2, <1>3, <1>4, <1>5, <1>6, <1>7 DEF Next

\* The inductive invariant of an installation, for any processes, files and
\* settings.
THEOREM InstallationInvariance == Spec => []InstallationInv
<1>1. Init => InstallationInv
  BY InstallationStart DEF Init
<1>2. InstallationInv /\ [Next]_vars => InstallationInv'
  BY InstallationStep
<1> QED
  BY <1>1, <1>2, PTL DEF Spec

\* The types of the binaries, the downloads and the updaters (replaceBinary
\* and its callers).
THEOREM UpdaterTypes == Spec => []UpdaterTypeOK
<1>1. InstallationInv => UpdaterTypeOK
  BY DEF InstallationInv
<1> QED
  BY <1>1, InstallationInvariance, PTL

\* While one updater works at a time, there is a binary that works at its name
\* or at that of a backup: whatever fails in replaceBinary and whoever is killed
\* between two of its operations, and beside any servers, backups and restores.
THEOREM LoneUpdatesAreSafe == Spec => []LoneUpdateIsSafe
<1>1. InstallationInv => LoneUpdateIsSafe
  BY DEF InstallationInv, LoneInv, LoneUpdateIsSafe
<1> QED
  BY <1>1, InstallationInvariance, PTL

-----------------------------------------------------------------------------
(* Paths, and the directories above them. *)

\* The names in paths: those of the tables, and what a setting may hold.
PathName ==
  STRING \cup
  {App, "home", "etc", "var", "lib", "cache", "log", "logs", "backups", "db", "run", "pid",
   ".local", "share", ".config", ".cache", "usr", "local", "ProgramData", "data", "Backups", "backup",
   "AppData", "Local", "Roaming", "config", "ssl", "security", "letsencrypt", "geoip",
   "blocklists", "cve"}
Path == Seq(PathName)
Tables == [Config : Path, Data : Path, Cache : Path, Log : Path, Backup : Path, DB : Path,
           PID : Path, SSL : Path, Security : Path]

\* A set of directories with each of which there are those above it.
IsTree(m) == \A d \in m : \A n \in 1..Len(d) : SubSeq(d, 1, n) \in m

LEMMA TablePaths ==
  ASSUME NEW config \in Path, NEW data_ \in Path, NEW cache \in Path, NEW log \in Path,
         NEW backup \in Path, NEW db \in Path, NEW pid \in Path
  PROVE  Table(config, data_, cache, log, backup, db, pid) \in Tables
<1>1. config \o <<"ssl">> \in Path /\ config \o <<"security">> \in Path
  BY DEF Path, PathName
<1> QED
  BY <1>1 DEF Table, Tables

\* What Detect returns is a table of paths.
LEMMA DetectPaths ==
  ASSUME NEW h \in Host, NEW r \in BOOLEAN, NEW o,
         o.config \in Path, o.data \in Path, o.cache \in Path, o.log \in Path, o.backup \in Path
  PROVE  Detect(h, r, o) \in Tables
<1>a. \A n \in {"home", "etc", "var", "lib", "cache", "log", "logs", "backups", "db", "run",
                "pid", ".local", "share", ".config", ".cache", "usr", "local", "ProgramData", "data",
                "Backups", "backup", "AppData", "Local", "Roaming", "config"} : n \in PathName
  BY DEF PathName
<1>b. App \in PathName
  BY DEF PathName
<1>1. linuxPrivilegedPaths \in Tables
  <2>1. /\ <<"etc", App>> \in Path /\ <<"var", "lib", App>> \in Path
        /\ <<"var", "cache", App>> \in Path /\ <<"var", "log", App>> \in Path
        /\ <<"var", "backups", App>> \in Path /\ <<"var", "lib", App, "db">> \in Path
        /\ <<"var", "run", "pid">> \in Path
    BY <1>a, <1>b DEF Path
  <2> QED
    BY <2>1, TablePaths DEF linuxPrivilegedPaths
<1>2. linuxUserPaths \in Tables
  <2> DEFINE home(d) == <<"home">> \o d
  <2>1. \A d \in Path : home(d) \in Path /\ \A n \in {"logs", "db", "pid"} : d \o <<n>> \in Path
    BY <1>a DEF Path
  <2>2. <<".config", App>> \in Path /\ <<".cache", App>> \in Path
    BY <1>a, <1>b DEF Path
  <2>3. <<".local", "share", App>> \in Path /\ <<".local", "backups", App>> \in Path
    BY <1>a, <1>b DEF Path
  <2> QED
    BY <2>1, <2>2, <2>3, TablePaths DEF linuxUserPaths, Home
<1>3. darwinPrivilegedPaths \in Tables
  <2>1. /\ <<"usr", "local", "etc", App>> \in Path /\ <<"usr", "local", "var", App>> \in Path
        /\ <<"var", "cache", App>> \in Path /\ <<"var", "log", App>> \in Path
        /\ <<"var", "backups", App>> \in Path /\ <<"usr", "local", "var", App>> \o <<"db">> \in Path
        /\ <<"var", "run", "pid">> \in Path
    BY <1>a, <1>b DEF Path
  <2> QED
    BY <2>1, TablePaths DEF darwinPrivilegedPaths
<1>4. bsdPrivilegedPaths \in Tables
  <2>1. /\ <<"usr", "local", "etc", App>> \in Path /\ <<"var", "db", App>> \in Path
        /\ <<"var", "cache", App>> \in Path /\ <<"var", "log", App>> \in Path
        /\ <<"var", "backups", App>> \in Path /\ <<"var", "db", App>> \o <<"db">> \in Path
        /\ <<"var", "run", "pid">> \in Path
    BY <1>a, <1>b DEF Path
  <2> QED
    BY <2>1, TablePaths DEF bsdPrivilegedPaths
<1>a1. \A d \in Path : \A n \in {"data", "cache", "logs", "db", "pid"} : d \o <<n>> \in Path
  BY <1>a DEF Path
<1>5. windowsPrivilegedPaths \in Tables
  <2>1. /\ <<"ProgramData", App>> \in Path /\ <<"ProgramData", "Backups", App>> \in Path
    BY <1>a, <1>b DEF Path
  <2> QED
    BY <2>1, TablePaths, <1>a1 DEF windowsPrivilegedPaths
<1>6. windowsUserPaths \in Tables
  <2>1. /\ <<"AppData", "Local", App>> \in Path /\ <<"AppData", "Roaming", App>> \in Path
        /\ <<"AppData", "Local", "Backups", App>> \in Path
    BY <1>a, <1>b DEF Path
  <2> QED
    BY <2>1, TablePaths, <1>a1 DEF windowsUserPaths
<1>7. containerPaths \in Tables
  <2>1. /\ <<"config">> \in Path /\ <<"data">> \in Path
        /\ <<"data", "cache">> \in Path /\ <<"data", "logs">> \in Path
        /\ <<"data", "backup">> \in Path /\ <<"data", "db">> \in Path
        /\ <<"data", "pid">> \in Path
    BY <1>a, <1>b DEF Path
  <2> QED
    BY <2>1, TablePaths DEF containerPaths
<1>8. ASSUME NEW p \in Tables PROVE Override(p, o) \in Tables
  <2>1. /\ o.config \o <<"ssl">> \in Path /\ o.config \o <<"security">> \in Path
        /\ o.data \o <<"db">> \in Path
    BY DEF Path, PathName
  <2> QED
    BY <2>1 DEF Override, Given, Tables
<1> QED
  BY <1>1, <1>2, <1>3, <1>4, <1>5, <1>6, <1>7, <1>8
  DEF Detect, Host, darwinUserPaths, bsdUserPaths

LEMMA MkdirAllIsTree == ASSUME NEW d \in Path PROVE IsTree(MkdirAll(d))
<1> SUFFICES ASSUME NEW m \in 1..Len(d), NEW n \in 1..Len(SubSeq(d, 1, m))
             PROVE  SubSeq(SubSeq(d, 1, m), 1, n) \in MkdirAll(d)
  BY DEF IsTree, MkdirAll
<1>1. Len(SubSeq(d, 1, m)) = m
  BY DEF Path
<1>2. SubSeq(SubSeq(d, 1, m), 1, n) = SubSeq(d, 1, n)
  BY <1>1 DEF Path
<1>3. n \in 1..Len(d)
  BY <1>1 DEF Path
<1> QED
  BY <1>2, <1>3 DEF MkdirAll

LEMMA UnionIsTree ==
  ASSUME NEW S, \A m \in S : IsTree(m)
  PROVE  IsTree(UNION S)
BY DEF IsTree

LEMMA EnsuredPaths ==
  ASSUME NEW p \in Tables, NEW i \in 1..Len(Ensured(p))
  PROVE  Ensured(p)[i] \in Path
<1> USE DEF Tables
<1>1. /\ p.SSL \o <<"letsencrypt">> \in Path /\ p.SSL \o <<"local">> \in Path
      /\ p.Security \o <<"geoip">> \in Path /\ p.Security \o <<"blocklists">> \in Path
      /\ p.Security \o <<"cve">> \in Path
  BY DEF Path, PathName
<1>2. SubSeq(p.PID, 1, Len(p.PID) - 1) \in Path
  BY DEF Path
<1>3. Ensured(p) \in Seq(Path)
  BY <1>1, <1>2 DEF Ensured
<1> QED
  BY <1>3

-----------------------------------------------------------------------------
(* Types. *)

\* The modes that a step works with are modes.
LEMMA ModeTypes ==
  ASSUME StartupTypeOK, NEW p \in Proc, NEW m \in Mode
  PROVE  OrEnv(OrEnv(with[p].modeFlag, with[p].modeEnv), m) \in Mode
<1>1. OrEnv(with[p].modeFlag, with[p].modeEnv) \in Mode
  BY DEF StartupTypeOK, Mode
<1> QED
  BY <1>1 DEF OrEnv

\* The directories of a setting, and those of backups and restores, are paths.
LEMMA SettingPaths ==
  ASSUME host \in Host, NEW s \in Setting
  PROVE  PathsOf(s) \in Tables /\ Default \in Tables
<1>1. s.root \in BOOLEAN /\ s.data \in Seq(STRING) /\ s.database \in Seq(STRING)
  BY StartupAssumption
<1>2. \A d \in Seq(STRING) : d \in Path
  BY DEF Path, PathName
<1>3. <<>> \in Path
  BY DEF Path
<1> DEFINE o == [NoOverrides EXCEPT !.data = s.data]
<1>5. /\ o.config \in Path /\ o.data \in Path /\ o.cache \in Path /\ o.log \in Path
      /\ o.backup \in Path
  BY <1>1, <1>2, <1>3 DEF NoOverrides
<1>6. Detect(host, s.root, o) \in Tables
  BY <1>1, <1>5, DetectPaths
<1>7. PathsOf(s) \in Tables
  BY <1>1, <1>2, <1>6 DEF PathsOf, Tables
<1>8. Default \in Tables
  BY <1>3, DetectPaths DEF Default, NoOverrides
<1> QED
  BY <1>7, <1>8

\* What Ensure makes, or has made when it stops, is a tree.
LEMMA EnsureIsTree ==
  ASSUME NEW p \in Tables, NEW n \in 0..Len(Ensured(p)), IsTree(made)
  PROVE  IsTree(made \cup UNION {MkdirAll(Ensured(p)[i]) : i \in 1..n})
<1>1. \A i \in 1..n : i \in 1..Len(Ensured(p))
  BY DEF Ensured
<1>2. IsTree(UNION {MkdirAll(Ensured(p)[i]) : i \in 1..n})
  BY <1>1, EnsuredPaths, MkdirAllIsTree, UnionIsTree
<1> QED
  BY <1>2 DEF IsTree

LEMMA DefaultPaths ==
  ASSUME host \in Host
  PROVE  Default.Data \in Path /\ Default.Backup \in Path
<1>1. <<>> \in Path
  BY DEF Path
<1>2. Default \in Tables
  BY <1>1, DetectPaths DEF Default, NoOverrides
<1> QED
  BY <1>2 DEF Tables

LEMMA ServeTypes ==
  ASSUME CommandTypeOK, StartupTypeOK, BackupTypeOK, NEW p \in Proc, Serve(p)
  PROVE  CommandTypeOK' /\ StartupTypeOK' /\ BackupTypeOK'
<1> USE DEF Goto, Fail, Fault, CommandTypeOK
<1>a. ASSUME UNCHANGED backupVars PROVE BackupTypeOK'
  BY <1>a DEF backupVars, BackupTypeOK, Content, Archive, Stamp, Host
<1>1. CASE DetectFlags(p)
  BY <1>1, <1>a DEF DetectFlags, StartupTypeOK
<1>2. CASE Ensure(p)
  <2>1. CommandTypeOK' /\ StartupTypeOK'
    BY <1>2 DEF Ensure, StartupTypeOK, startupVars
  <2>2. with[p] \in Setting /\ host \in Host /\ IsTree(made)
    BY DEF StartupTypeOK, BackupTypeOK, IsTree
  <2>3. PathsOf(with[p]) \in Tables
    BY <2>2, SettingPaths
  <2> DEFINE dirs == Ensured(PathsOf(with[p]))
  <2>a. Len(dirs) = 12
    BY DEF Ensured
  <2>4. \E n \in 0..Len(dirs) : made' = made \cup UNION {MkdirAll(dirs[i]) : i \in 1..n}
    <3> HIDE DEF dirs
    <3>1. CASE made' = made \cup UNION {MkdirAll(dirs[i]) : i \in 1..Len(dirs)}
      BY <3>1, <2>a
    <3>2. ASSUME NEW n \in 0..(Len(dirs) - 1),
                 made' = made \cup UNION {MkdirAll(dirs[i]) : i \in 1..n}
          PROVE  \E k \in 0..Len(dirs) : made' = made \cup UNION {MkdirAll(dirs[i]) : i \in 1..k}
      <4>1. n \in 0..Len(dirs)
        BY <3>2, <2>a
      <4> QED
        BY <3>2, <4>1
    <3> QED
      BY <1>2, <3>1, <3>2, Zenon DEF Ensure, dirs
  <2>5. IsTree(made')
    BY <2>2, <2>3, <2>4, EnsureIsTree
  <2> QED
    BY <1>2, <2>1, <2>5 DEF Ensure, BackupTypeOK, IsTree
<1>3. CASE Load(p)
  <2>1. mode' \in [Proc -> Mode]
    <3>1. DefaultMode \in Mode /\ (yml \notin {None, Torn} => yml \in Mode)
      BY DEF StartupTypeOK, Mode
    <3> DEFINE new(m) == OrEnv(OrEnv(with[p].modeFlag, with[p].modeEnv), m)
    <3>2. \/ mode' = mode \/ mode' = [mode EXCEPT ![p] = new(DefaultMode)]
          \/ yml \notin {None, Torn} /\ mode' = [mode EXCEPT ![p] = new(yml)]
      BY <1>3, Zenon DEF Load
    <3>3. \A m \in Mode : new(m) \in Mode
      BY ModeTypes
    <3> HIDE DEF new
    <3> QED
      BY <3>1, <3>2, <3>3 DEF StartupTypeOK
  <2> QED
    BY <1>3, <1>a, <2>1 DEF Load, StartupTypeOK
<1>4. CASE Validate(p)
  BY <1>4, <1>a DEF Validate, StartupTypeOK, startupVars
<1>5. CASE Save(p) \/ Empty(p) \/ Fill(p)
  BY <1>5, <1>a DEF Save, Empty, Fill, StartupTypeOK, startupVars
<1>6. CASE WritePIDFile(p)
  BY <1>6, <1>a DEF WritePIDFile, StartupTypeOK, startupVars
<1>7. CASE OpenDatabase(p)
  BY <1>7, <1>a DEF OpenDatabase, StartupTypeOK, startupVars
<1>8. CASE ServeAndWrite(p)
  BY <1>8 DEF ServeAndWrite, Write, StartupTypeOK, startupVars, commandVars, BackupTypeOK,
     Content, Alive
<1>9. CASE StopServing(p)
  BY <1>9, <1>a DEF StopServing, StartupTypeOK, startupVars
<1> QED
  BY <1>1, <1>2, <1>3, <1>4, <1>5, <1>6, <1>7, <1>8, <1>9 DEF Serve

\* An archive that has got its end, or one more file, is an archive.
LEMMA ArchiveTypes ==
  /\ Blank \in Archive
  /\ \A a \in Archive : [a EXCEPT !.whole = TRUE] \in Archive
  /\ \A a \in Archive, f \in File, c \in Content : [a EXCEPT !.files[f] = c] \in Archive
BY DEF Blank, Archive, Content

LEMMA MakeBackupTypes ==
  ASSUME CommandTypeOK, BackupTypeOK, NEW p \in Proc, MakeBackup(p)
  PROVE  CommandTypeOK' /\ BackupTypeOK'
<1> USE DEF Goto, Fail, Fault, CommandTypeOK, BackupTypeOK
<1>1. CASE CreateTar(p)
  <2>1. CommandTypeOK'
    BY <1>1 DEF CreateTar, Meets, Sharers, Doing, Alive
  <2>2. IsTree(made')
    <3>1. Default.Backup \in Path /\ IsTree(made)
      BY DefaultPaths DEF IsTree
    <3>2. IsTree(MkdirAll(Default.Backup))
      BY <3>1, MkdirAllIsTree
    <3> QED
      BY <1>1, <3>1, <3>2 DEF CreateTar, IsTree
  <2>3. stamp' \in [Proc -> Stamp]
    BY <1>1 DEF CreateTar
  <2>4. tar' \in [Stamp -> Archive \cup {None}]
    BY <1>1, ArchiveTypes DEF CreateTar
  <2> QED
    BY <1>1, <2>1, <2>2, <2>3, <2>4 DEF CreateTar, IsTree
<1>2. CASE ListFiles(p)
  <2>1. todo' \in [Proc -> SUBSET File]
    BY <1>2 DEF ListFiles
  <2>2. got' \in [Proc -> Archive]
    BY <1>2, ArchiveTypes DEF ListFiles
  <2>3. CommandTypeOK'
    BY <1>2 DEF ListFiles
  <2> QED
    BY <1>2, <2>1, <2>2, <2>3 DEF ListFiles
<1>3. CASE WalkFile(p)
  <2>1. todo' \in [Proc -> SUBSET File]
    BY <1>3 DEF WalkFile
  <2>2. got' \in [Proc -> Archive]
    <3>1. got' = got \/ \E f \in File : got' = [got EXCEPT ![p].files[f] = data[f]]
      BY <1>3 DEF WalkFile
    <3> QED
      BY <3>1, ArchiveTypes
  <2>3. CommandTypeOK'
    BY <1>3 DEF WalkFile
  <2> QED
    BY <1>3, <2>1, <2>2, <2>3 DEF WalkFile
<1>4. CASE CloseTar(p)
  BY <1>4, ArchiveTypes DEF CloseTar
<1>5. CASE Encrypt(p)
  BY <1>5 DEF Encrypt, RemoveTar
<1>6. CASE Seal(p)
  BY <1>6 DEF Seal, RemoveTar
<1>7. CASE cleanOldBackups(p)
  BY <1>7 DEF cleanOldBackups
<1>8. CASE ReportBackup(p)
  BY <1>8 DEF ReportBackup, RemoveTar
<1> QED
  BY <1>1, <1>2, <1>3, <1>4, <1>5, <1>6, <1>7, <1>8 DEF MakeBackup

LEMMA RestoreBackupTypes ==
  ASSUME CommandTypeOK, BackupTypeOK, NEW p \in Proc, RestoreBackup(p)
  PROVE  CommandTypeOK' /\ BackupTypeOK'
<1> USE DEF Goto, Fail, Fault, CommandTypeOK, BackupTypeOK, RemoveDec
<1>1. CASE ChooseBackup(p)
  BY <1>1 DEF ChooseBackup, Meets, Sharers, Doing, Alive
<1>2. CASE Decrypt(p)
  <2>1. got' \in [Proc -> Archive]
    BY <1>2 DEF Decrypt
  <2>2. dec' \in [Stamp -> Archive \cup {None}]
    BY <1>2, ArchiveTypes DEF Decrypt
  <2>3. CommandTypeOK'
    BY <1>2 DEF Decrypt
  <2> QED
    BY <1>2, <2>1, <2>2, <2>3 DEF Decrypt
<1>3. CASE WriteDec(p)
  BY <1>3 DEF WriteDec
<1>4. CASE OpenDec(p)
  <2>1. IsTree(made')
    <3>1. Default.Data \in Path /\ IsTree(made)
      BY DefaultPaths DEF IsTree
    <3>2. IsTree(MkdirAll(Default.Data))
      BY <3>1, MkdirAllIsTree
    <3> QED
      BY <1>4, <3>1, <3>2 DEF OpenDec, IsTree
  <2> QED
    BY <1>4, <2>1 DEF OpenDec, IsTree
<1>5. CASE ExtractFile(p)
  BY <1>5 DEF ExtractFile, Write, Alive, Content
<1>6. CASE CopyFile(p)
  <2>1. data' \in [File -> Content]
    <3>1. open[p] \in File /\ got[p].files[open[p]] \in Content
      BY DEF Archive
    <3>2. data' = data \/ data' = [data EXCEPT ![open[p]] = got[p].files[open[p]]]
      BY <1>6 DEF CopyFile, Write
    <3> QED
      BY <3>1, <3>2
  <2>2. todo' \in [Proc -> SUBSET File] /\ dec' \in [Stamp -> Archive \cup {None}]
    BY <1>6 DEF CopyFile
  <2>3. CommandTypeOK' /\ stirred' \subseteq Proc
    BY <1>6 DEF CopyFile, Write, Alive
  <2> QED
    BY <1>6, <2>1, <2>2, <2>3 DEF CopyFile
<1>7. CASE ReportRestore(p)
  BY <1>7 DEF ReportRestore
<1> QED
  BY <1>1, <1>2, <1>3, <1>4, <1>5, <1>6, <1>7 DEF RestoreBackup

LEMMA UpdateCommandTypes ==
  ASSUME CommandTypeOK, NEW p \in Proc, Update(p)
  PROVE  CommandTypeOK'
BY DEF CommandTypeOK, Update, CheckForUpdates, CreateTemp, Fetch, VerifyBinary, Executable, MoveAside,
   CreateBinary, CopyBinary, Undo, Tidy, Goto, Fail, Fault, Meets, Sharing, Doing, Alive

LEMMA InitTypes == ASSUME Init PROVE TypeOK
<1> USE DEF Init
<1>1. CommandTypeOK
  BY DEF CommandInit, CommandTypeOK, Command
<1>2. StartupTypeOK
  <2>1. (CHOOSE s \in Setting : TRUE) \in Setting
    BY StartupAssumption
  <2> QED
    BY <2>1 DEF StartupInit, StartupTypeOK, Mode
<1>3. host \in Host
  BY HostsAssumption
<1>4. IsTree(made)
  <2>1. IsTree(MkdirAll(Default.Data)) /\ IsTree(MkdirAll(Default.DB))
    <3>1. <<>> \in Path
      BY DEF Path
    <3>2. Default \in Tables
      BY <1>3, <3>1, DetectPaths DEF Default, NoOverrides
    <3> QED
      BY <3>2, MkdirAllIsTree DEF Tables
  <2>2. IsTree({}) /\ IsTree(UNION {MkdirAll(d) : d \in {Default.Data, Default.DB}})
    BY <2>1 DEF IsTree
  <2>3. made = {} \/ made = UNION {MkdirAll(d) : d \in {Default.Data, Default.DB}}
    OBVIOUS
  <2> QED
    BY <2>2, <2>3
<1>5. data \in [File -> Content]
  BY DEF Content
<1>6. enc \in [Stamp -> Archive \cup {None, Torn}]
  <2>1. PICK v \in Value :
          LET earlier == [files |-> [f \in File |-> v], whole |-> TRUE]
          IN  enc \in {[s \in Stamp |-> None], [s \in Stamp |-> IF s = 1 THEN earlier ELSE None]}
    BY Zenon
  <2>2. [files |-> [f \in File |-> v], whole |-> TRUE] \in Archive
    BY DEF Archive, Content
  <2> QED
    BY <2>1, <2>2
<1>7. BackupTypeOK
  <2>1. 1 \in Stamp /\ (CHOOSE f \in File : TRUE) \in File
    BY BackupAssumption DEF Stamp
  <2> QED
    BY <1>3, <1>4, <1>5, <1>6, <2>1, ArchiveTypes DEF BackupInit, BackupTypeOK, IsTree
<1>8. UpdaterTypeOK
  BY InstallationStart DEF InstallationInv
<1> QED
  BY <1>1, <1>2, <1>7, <1>8 DEF TypeOK

LEMMA TypesStep ==
  ASSUME TypeOK, [Next]_vars
  PROVE  CommandTypeOK' /\ StartupTypeOK' /\ BackupTypeOK'
<1> USE DEF TypeOK
<1>a. ASSUME UNCHANGED startupVars PROVE StartupTypeOK'
  BY <1>a DEF startupVars, StartupTypeOK
<1>b. ASSUME UNCHANGED backupVars PROVE BackupTypeOK'
  BY <1>b DEF backupVars, BackupTypeOK
<1>1. CASE UNCHANGED vars
  BY <1>1, <1>a, <1>b DEF vars, commandVars, CommandTypeOK
<1>2. ASSUME NEW p \in Proc, Start(p) PROVE CommandTypeOK' /\ StartupTypeOK' /\ BackupTypeOK'
  BY <1>2, <1>a, <1>b DEF Start, Launch, CommandTypeOK
<1>3. ASSUME NEW p \in Proc, Die(p) PROVE CommandTypeOK' /\ StartupTypeOK' /\ BackupTypeOK'
  BY <1>3, <1>a, <1>b DEF Die, Kill, Goto, CommandTypeOK
<1>4. CASE Edit
  BY <1>4, <1>b DEF Edit, commandVars, CommandTypeOK, StartupTypeOK, Mode
<1> QED
  BY <1>1, <1>2, <1>3, <1>4, <1>a, <1>b, ServeTypes, MakeBackupTypes, RestoreBackupTypes,
     UpdateCommandTypes DEF Next

\* The types of the processes, the settings, the directories, the backups and
\* the binaries: what main, CreateBackup, RestoreBackup and PerformUpdate keep.
THEOREM InstallationTypes == Spec => []TypeOK
<1>1. Init => TypeOK
  BY InitTypes
<1>2. TypeOK /\ UpdaterTypeOK' /\ [Next]_vars => TypeOK'
  BY TypesStep DEF TypeOK
<1> QED
  BY <1>1, <1>2, UpdaterTypes, PTL DEF Spec

-----------------------------------------------------------------------------
(* What the commands rely on at each step.                                 *)

ServeSteps   == {"flags", "ensure", "load", "validate", "save", "empty", "fill", "pid", "store", "serving"}
BackupSteps  == {"key", "list", "walk", "encrypt", "seal", "clean", "unlink"}
RestoreSteps == {"choose", "decrypt", "plain", "open", "extract", "copyFile"}

\* Where a process with the name of a backup is.
Named == (BackupSteps \cup RestoreSteps) \ {"key", "choose"}

\* A process is where its command can be.
PlacesInv ==
  \A p \in Proc :
    /\ at[p] \in {"unborn"} \cup ServeSteps \cup BackupSteps \cup RestoreSteps \cup Steps \cup Over
    /\ at[p] \in {"unborn"} \cup ServeSteps => cmd[p] = "serve"
    /\ at[p] \in BackupSteps => cmd[p] = "backup"
    /\ at[p] \in RestoreSteps => cmd[p] = "restore"
    /\ at[p] \in Steps => cmd[p] = "update"

\* Two that work with one backup know of it.
SoleInv ==
  \A p, q \in Proc :
    p # q /\ at[p] \in Named /\ at[q] \in Named /\ stamp[p] = stamp[q] =>
      p \in clash /\ q \in clash

\* The last of the backups stays the last: it is never one to clean.
LastInv ==
  /\ \A s \in Stamp : enc[s] # None =>
       \E m \in Stamp : enc[m] # None /\ \A u \in Stamp : enc[u] # None => u <= m
  /\ \A p \in Proc : at[p] \in {"seal", "clean", "unlink"} =>
       enc[stamp[p]] # None \/ \E u \in Stamp : u > stamp[p] /\ enc[u] # None

Snapshot == [files |-> data, whole |-> TRUE]

BackupWork(p) ==
  /\ p \notin clash /\ at[p] \in {"list", "walk", "encrypt"} => tar[stamp[p]] # None
  /\ p \notin stirred /\ at[p] = "walk" =>
       \A f \in File : IF f \in todo[p] THEN data[f] # None ELSE got[p].files[f] = data[f]
  /\ p \notin clash \cup stirred \cup lost =>
       /\ at[p] = "encrypt" => tar[stamp[p]] = Snapshot
       /\ at[p] = "seal" => got[p] = Snapshot
       /\ at[p] \in {"clean", "unlink"} => enc[stamp[p]] \in {None, Snapshot}

RestoreWork(p) ==
  /\ p \notin clash =>
       /\ at[p] \in {"plain", "open"} => dec[stamp[p]] # None
       /\ at[p] = "open" => enc[stamp[p]] \in {None, dec[stamp[p]]}
       /\ at[p] \in {"plain", "extract", "copyFile"} => enc[stamp[p]] \in {None, got[p]}
  /\ at[p] = "copyFile" => open[p] \in todo[p]
  /\ p \notin stirred /\ at[p] \in {"extract", "copyFile"} =>
       \A f \in File \ todo[p] : got[p].files[f] \in {None, data[f]}

\* An updater that has not met another has what it downloaded, and puts it
\* where it found the binary.
UpdateWork(p) ==
  p \notin together =>
    /\ at[p] \in Steps \ {"check"} =>
         \A q \in Proc \ {p} : at[q] \in Steps => at[q] = "check"
    /\ at[p] = "fetch" => temp[second[p]] # None
    /\ at[p] = "verify" => temp[second[p]] \in {release[p], Broken}
    /\ at[p] \in {"locate", "backup", "create", "copy"} => temp[second[p]] = release[p]
    /\ at[p] = "create" => bin[target[p]] = None
    /\ at[p] \in {"copy", "tidy"} => bin[target[p]] = fd[p]
    /\ at[p] = "tidy" => code[fd[p]] = release[p]
    /\ at[p] = "undo" => p \in hurt

\* Those that have met are updaters, each beside another; and until
\* one has moved a binary, everything runs the one that was installed.
UpdatersInv ==
  /\ \A p \in together : cmd[p] = "update" /\ \E q \in Proc \ {p} : cmd[q] = "update"
  /\ (\A p \in Proc : cmd[p] = "update" => at[p] \in Before) =>
       /\ \A n \in Name : bin[n] = IF n = 0 THEN Installed ELSE None
       /\ was[Installed] = 0
       /\ \A p \in Proc : exe[p] = Installed /\ (at[p] = "backup" => target[p] = 0)

ServeWork(p) ==
  LET s == with[p]
  IN  /\ at[p] \in ServeSteps \ {"flags"} => DetectMode(s) # "invalid"
      /\ at[p] = "validate" =>
           Validates(mode[p]) \/ edited \/ OrEnv(s.modeFlag, s.modeEnv) \in {"prod", "dev"}
      /\ at[p] \in {"save", "empty", "fill"} => Validates(mode[p])
      /\ at[p] \in ServeSteps \ {"flags", "ensure"} /\ s.database = <<>> =>
           Database(PathsOf(s)) \in made

\* Nothing but an operator puts a mode into server.yml that is not one.
YmlInv == yml \in {None, Torn} \/ edited \/ Validates(yml)

\* The invariant of backups and restores.
ArchiveInv ==
  /\ SoleInv /\ LastInv
  /\ \A p \in Proc : BackupWork(p) /\ RestoreWork(p)

\* A step goes where its command can be.
LEMMA PlacesStep ==
  ASSUME CommandTypeOK, PlacesInv, [Next]_vars
  PROVE  PlacesInv'
<1> USE DEF CommandTypeOK, ServeSteps, BackupSteps, RestoreSteps, Steps, Before, After,
        Over, Success
<1>a. ASSUME NEW p \in Proc, NEW S, S \in {ServeSteps, BackupSteps, RestoreSteps, Steps},
             at[p] \in S, cmd' = cmd,
             \A q \in Proc \ {p} : at'[q] = at[q], at'[p] \in S \cup Over
      PROVE  PlacesInv'
  <2>1. \A q \in Proc \ {p} : at'[q] = at[q] /\ cmd'[q] = cmd[q]
    BY <1>a
  <2> QED
    BY <1>a, <2>1 DEF PlacesInv
<1>1. CASE UNCHANGED vars
  BY <1>1 DEF vars, commandVars, PlacesInv
<1>2. ASSUME NEW p \in Proc, Start(p) PROVE PlacesInv'
  BY <1>2 DEF Start, Launch, FirstStep, Command, PlacesInv
<1>3. ASSUME NEW p \in Proc, Serve(p) PROVE PlacesInv'
  <2> USE DEF Goto, Fail, Fault
  <2>1. cmd' = cmd /\ at[p] \in ServeSteps
        /\ (\A q \in Proc \ {p} : at'[q] = at[q]) /\ at'[p] \in ServeSteps \cup Over
    <3>1. CASE DetectFlags(p) \/ Ensure(p)
      BY <3>1 DEF DetectFlags, Ensure
    <3>2. CASE Load(p) \/ Validate(p)
      BY <3>2 DEF Load, Validate
    <3>3. CASE Save(p) \/ Empty(p) \/ Fill(p)
      BY <3>3 DEF Save, Empty, Fill
    <3>4. CASE WritePIDFile(p) \/ OpenDatabase(p)
      BY <3>4 DEF WritePIDFile, OpenDatabase
    <3>5. CASE ServeAndWrite(p) \/ StopServing(p)
      BY <3>5 DEF ServeAndWrite, StopServing, commandVars
    <3> QED
      BY <1>3, <3>1, <3>2, <3>3, <3>4, <3>5 DEF Serve
  <2> QED
    BY <1>a, <2>1
<1>4. ASSUME NEW p \in Proc, MakeBackup(p) PROVE PlacesInv'
  <2>1. cmd' = cmd /\ at[p] \in BackupSteps
        /\ (\A q \in Proc \ {p} : at'[q] = at[q]) /\ at'[p] \in BackupSteps \cup Over
    BY <1>4 DEF MakeBackup, CreateTar, ListFiles, WalkFile, CloseTar, Encrypt, Seal,
       cleanOldBackups, ReportBackup, Goto, Fail, Fault, Meets
  <2> QED
    BY <1>a, <2>1
<1>5. ASSUME NEW p \in Proc, RestoreBackup(p) PROVE PlacesInv'
  <2>1. cmd' = cmd /\ at[p] \in RestoreSteps
        /\ (\A q \in Proc \ {p} : at'[q] = at[q]) /\ at'[p] \in RestoreSteps \cup Over
    BY <1>5 DEF RestoreBackup, ChooseBackup, Decrypt, WriteDec, OpenDec, ExtractFile,
       CopyFile, ReportRestore, Goto, Fail, Fault, Meets
  <2> QED
    BY <1>a, <2>1
<1>6. ASSUME NEW p \in Proc, Update(p) PROVE PlacesInv'
  <2>1. cmd' = cmd /\ at[p] \in Steps
        /\ (\A q \in Proc \ {p} : at'[q] = at[q]) /\ at'[p] \in Steps \cup Over
    BY <1>6 DEF Update, CheckForUpdates, CreateTemp, Fetch, VerifyBinary, Executable, MoveAside,
       CreateBinary, CopyBinary, Undo, Tidy, Goto, Fail, Fault, Meets
  <2> QED
    BY <1>a, <2>1
<1>7. ASSUME NEW p \in Proc, Die(p) PROVE PlacesInv'
  <2>1. cmd' = cmd /\ (\A q \in Proc \ {p} : at'[q] = at[q]) /\ at'[p] \in Over
    BY <1>7 DEF Die, Kill, Goto
  <2> QED
    BY <2>1 DEF PlacesInv
<1>8. CASE Edit
  BY <1>8 DEF Edit, commandVars, PlacesInv
<1> QED
  BY <1>1, <1>2, <1>3, <1>4, <1>5, <1>6, <1>7, <1>8 DEF Next

\* Those who work with a backup are those who have its name.
LEMMA SharersAreNamed ==
  ASSUME CommandTypeOK, PlacesInv, NEW s \in Stamp
  PROVE  Sharers(s) = {q \in Proc : at[q] \in Named /\ stamp[q] = s}
<1> SUFFICES ASSUME NEW q \in Proc
             PROVE  q \in Sharers(s) <=> at[q] \in Named /\ stamp[q] = s
  BY DEF Sharers, Doing, Alive
<1>1. at[q] \in Named => cmd[q] \in {"backup", "restore"} /\ q \in Alive
                          /\ at[q] \notin {"key", "choose"}
  BY DEF Named, PlacesInv, Alive, BackupSteps, RestoreSteps, Over, Success
<1>2. q \in Alive /\ cmd[q] \in {"backup", "restore"} /\ at[q] \notin {"key", "choose"} =>
        at[q] \in Named
  BY DEF Named, PlacesInv, Alive, ServeSteps, BackupSteps, RestoreSteps, Steps, Before, After
<1> QED
  BY <1>1, <1>2 DEF Sharers, Doing

\* A process that another's step leaves alone.
LeftAlone(q) ==
  /\ at'[q] = at[q] /\ stamp'[q] = stamp[q] /\ todo'[q] = todo[q]
  /\ got'[q] = got[q] /\ open'[q] = open[q]
  /\ at[q] \in Named /\ q \notin clash' =>
       /\ tar'[stamp[q]] = tar[stamp[q]] /\ dec'[stamp[q]] = dec[stamp[q]]
       /\ enc'[stamp[q]] \in {None, enc[stamp[q]]}
  /\ at[q] \in Named /\ q \notin stirred' => data' = data

HistoryGrows == clash \subseteq clash' /\ stirred \subseteq stirred' /\ lost \subseteq lost'

LEMMA LeftAloneKeeps ==
  ASSUME NEW q \in Proc, BackupWork(q), RestoreWork(q), LeftAlone(q), HistoryGrows
  PROVE  BackupWork(q)' /\ RestoreWork(q)'
<1> USE DEF LeftAlone, HistoryGrows, Named, BackupSteps, RestoreSteps
<1>1. BackupWork(q)'
  BY DEF BackupWork, Snapshot
<1>2. RestoreWork(q)'
  BY DEF RestoreWork
<1> QED
  BY <1>1, <1>2

\* What a step of p may do to the files of a backup: of its own, before which
\* it has met whoever works with it.
LEMMA OwnFilesOnly ==
  ASSUME BackupTypeOK, SoleInv, NEW p \in Proc, NEW q \in Proc \ {p},
         at[p] \in Named, HistoryGrows,
         at'[q] = at[q] /\ stamp'[q] = stamp[q] /\ todo'[q] = todo[q],
         got'[q] = got[q] /\ open'[q] = open[q],
         \A s \in Stamp \ {stamp[p]} :
           tar'[s] = tar[s] /\ dec'[s] = dec[s] /\ enc'[s] \in {None, enc[s]},
         at[q] \in Named /\ q \notin stirred' => data' = data
  PROVE  LeftAlone(q)
BY DEF LeftAlone, SoleInv, HistoryGrows, BackupTypeOK

LEMMA SoleKeeps ==
  ASSUME SoleInv, NEW p \in Proc, clash \subseteq clash',
         \A q \in Proc \ {p} : at'[q] = at[q] /\ stamp'[q] = stamp[q],
         \/ at'[p] \notin Named
         \/ at[p] \in Named /\ stamp'[p] = stamp[p]
  PROVE  SoleInv'
BY DEF SoleInv

LEMMA ClosedArchive ==
  ASSUME NEW a \in Archive
  PROVE  [a EXCEPT !.whole = TRUE] = [files |-> a.files, whole |-> TRUE]
<1> DEFINE b == [a EXCEPT !.whole = TRUE]
<1>1. b \in Archive /\ b.files = a.files /\ b.whole = TRUE
  BY DEF Archive
<1> HIDE DEF b
<1>2. b = [files |-> b.files, whole |-> b.whole]
  BY <1>1 DEF Archive
<1>3. b = [files |-> a.files, whole |-> TRUE]
  BY <1>1, <1>2
<1> QED
  BY <1>3 DEF b

LEMMA CreateTarStep ==
  ASSUME CommandTypeOK, BackupTypeOK, PlacesInv, ArchiveInv, NEW p \in Proc, CreateTar(p)
  PROVE  ArchiveInv'
<1> USE DEF ArchiveInv, CommandTypeOK
<1>1. HistoryGrows /\ UNCHANGED <<data, enc, dec, todo, got, open>>
      /\ \A q \in Proc \ {p} : at'[q] = at[q] /\ stamp'[q] = stamp[q]
  BY DEF CreateTar, HistoryGrows, Goto, Fault, Meets, BackupTypeOK
<1>2. CASE at'[p] \in {"refused", "failed"} /\ UNCHANGED tar
  <2>1. \A q \in Proc \ {p} : LeftAlone(q)
    BY <1>1, <1>2 DEF LeftAlone
  <2>2. BackupWork(p)' /\ RestoreWork(p)'
    BY <1>2 DEF BackupWork, RestoreWork
  <2>3. SoleInv'
    BY <1>1, <1>2, SoleKeeps DEF HistoryGrows, Named, BackupSteps, RestoreSteps
  <2>4. LastInv'
    BY <1>1, <1>2 DEF LastInv
  <2> QED
    BY <1>1, <2>1, <2>2, <2>3, <2>4, LeftAloneKeeps
<1>3. ASSUME NEW s \in Stamp, stamp' = [stamp EXCEPT ![p] = s], tar' = [tar EXCEPT ![s] = Blank],
             Meets(p, Sharers(s), "list")
      PROVE  ArchiveInv'
  <2>0. at'[p] = "list" /\ stamp'[p] = s /\ at[p] = "key"
    BY <1>3 DEF Meets, BackupTypeOK, CreateTar
  <2>1. \A q \in Proc \ {p} : at[q] \in Named /\ stamp[q] = s => p \in clash' /\ q \in clash'
    BY <1>3, SharersAreNamed DEF Meets
  <2>2. \A q \in Proc \ {p} : LeftAlone(q)
    BY <1>1, <1>3, <2>1 DEF LeftAlone, BackupTypeOK
  <2>3. BackupWork(p)' /\ RestoreWork(p)'
    BY <1>3, <2>0, ArchiveTypes, BackupAssumption DEF BackupWork, RestoreWork, BackupTypeOK
  <2>4. SoleInv'
    BY <1>1, <2>0, <2>1 DEF SoleInv, HistoryGrows
  <2>5. LastInv'
    BY <1>1, <2>0 DEF LastInv
  <2> QED
    BY <1>1, <2>2, <2>3, <2>4, <2>5, LeftAloneKeeps
<1> QED
  BY <1>2, <1>3 DEF CreateTar, Goto, Fault

LEMMA ListFilesStep ==
  ASSUME CommandTypeOK, BackupTypeOK, PlacesInv, ArchiveInv, NEW p \in Proc, ListFiles(p)
  PROVE  ArchiveInv'
<1> USE DEF ArchiveInv, CommandTypeOK
<1>1. /\ HistoryGrows /\ UNCHANGED <<data, enc, dec, tar, open, stamp, clash, stirred, lost>>
      /\ \A q \in Proc \ {p} : at'[q] = at[q] /\ todo'[q] = todo[q] /\ got'[q] = got[q]
      /\ at[p] = "list"
      /\ \/ at'[p] = "failed"
         \/ /\ at'[p] = "walk" /\ got'[p] = Blank
            /\ todo'[p] = {f \in File : data[f] # None}
  BY DEF ListFiles, HistoryGrows, Goto, Fail, Fault, Meets, BackupTypeOK
<1>2. \A q \in Proc \ {p} : LeftAlone(q)
  BY <1>1 DEF LeftAlone
<1>3. BackupWork(p)' /\ RestoreWork(p)'
  BY <1>1 DEF BackupWork, RestoreWork, Blank
<1>4. SoleInv'
  BY <1>1, SoleKeeps DEF Named, BackupSteps, RestoreSteps
<1>5. LastInv'
  BY <1>1 DEF LastInv
<1> QED
  BY <1>1, <1>2, <1>3, <1>4, <1>5, LeftAloneKeeps

LEMMA WalkFileStep ==
  ASSUME CommandTypeOK, BackupTypeOK, PlacesInv, ArchiveInv, NEW p \in Proc, WalkFile(p)
  PROVE  ArchiveInv'
<1> USE DEF ArchiveInv, CommandTypeOK
<1>0. ASSUME NEW f \in File, got' = [got EXCEPT ![p].files[f] = data[f]]
      PROVE  /\ \A q \in Proc \ {p} : got'[q] = got[q]
             /\ \A g \in File : got'[p].files[g] = IF g = f THEN data[g] ELSE got[p].files[g]
  <2>1. got[p].files \in [File -> Content]
    BY DEF BackupTypeOK, Archive
  <2>2. got'[p] = [got[p] EXCEPT !.files[f] = data[f]]
    BY <1>0 DEF BackupTypeOK
  <2>3. got'[p].files = [got[p].files EXCEPT ![f] = data[f]]
    BY <2>2 DEF BackupTypeOK, Archive
  <2> QED
    BY <1>0, <2>1, <2>3 DEF BackupTypeOK
<1>1. /\ HistoryGrows /\ UNCHANGED <<data, enc, dec, tar, open, stamp, clash, stirred, lost>>
      /\ \A q \in Proc \ {p} : at'[q] = at[q] /\ todo'[q] = todo[q] /\ got'[q] = got[q]
      /\ at[p] = "walk"
      /\ \/ at'[p] = "failed"
         \/ /\ at'[p] = "walk"
            /\ \E f \in File :
                 /\ todo'[p] = todo[p] \ {f}
                 /\ \A g \in File : got'[p].files[g] = IF g = f THEN data[g] ELSE got[p].files[g]
  <2>1. PICK f \in todo[p] :
          \/ at'[p] = "failed" /\ UNCHANGED <<todo, got>>
          \/ /\ at'[p] = "walk" /\ todo' = [todo EXCEPT ![p] = @ \ {f}]
             /\ got' = [got EXCEPT ![p].files[f] = data[f]]
    BY DEF WalkFile, Goto, Fail, Fault
  <2>2. f \in File /\ todo[p] \subseteq File
    BY DEF BackupTypeOK
  <2>3. CASE at'[p] = "failed" /\ UNCHANGED <<todo, got>>
    BY <2>3 DEF WalkFile, HistoryGrows, Goto, Fail, Fault
  <2>4. CASE at'[p] = "walk" /\ todo' = [todo EXCEPT ![p] = @ \ {f}]
             /\ got' = [got EXCEPT ![p].files[f] = data[f]]
    <3>1. todo'[p] = todo[p] \ {f} /\ \A q \in Proc \ {p} : todo'[q] = todo[q]
      BY <2>4 DEF BackupTypeOK
    <3> QED
      BY <1>0, <2>2, <2>4, <3>1 DEF WalkFile, HistoryGrows, Goto, Fail, Fault
  <2> QED
    BY <2>1, <2>3, <2>4
<1>2. \A q \in Proc \ {p} : LeftAlone(q)
  BY <1>1 DEF LeftAlone
<1>3. BackupWork(p)' /\ RestoreWork(p)'
  <2>1. p \notin stirred =>
          \A f \in File : IF f \in todo[p] THEN data[f] # None ELSE got[p].files[f] = data[f]
    BY <1>1 DEF BackupWork
  <2> QED
    BY <1>1, <2>1 DEF BackupWork, RestoreWork
<1>4. SoleInv'
  BY <1>1, SoleKeeps DEF Named, BackupSteps, RestoreSteps
<1>5. LastInv'
  BY <1>1 DEF LastInv
<1> QED
  BY <1>1, <1>2, <1>3, <1>4, <1>5, LeftAloneKeeps

LEMMA CloseTarStep ==
  ASSUME CommandTypeOK, BackupTypeOK, PlacesInv, ArchiveInv, NEW p \in Proc, CloseTar(p)
  PROVE  ArchiveInv'
<1> USE DEF ArchiveInv, CommandTypeOK
<1>1. /\ HistoryGrows /\ UNCHANGED <<data, enc, dec, got, todo, open, stamp, clash, stirred>>
      /\ \A q \in Proc \ {p} : at'[q] = at[q]
      /\ at[p] = "walk" /\ at'[p] = "encrypt" /\ todo[p] = {} /\ stamp[p] \in Stamp
      /\ \A s \in Stamp \ {stamp[p]} : tar'[s] = tar[s]
  BY DEF CloseTar, HistoryGrows, Goto, BackupTypeOK
<1>2. \A q \in Proc \ {p} : LeftAlone(q)
  BY <1>1, OwnFilesOnly DEF Named, BackupSteps
<1>3. BackupWork(p)' /\ RestoreWork(p)'
  <2> DEFINE s == stamp[p]
             closed == [got[p] EXCEPT !.whole = TRUE]
  <2>1. p \notin clash => tar[s] # None
    BY <1>1 DEF BackupWork
  <2>2. closed \in Archive /\ got[p] \in Archive /\ closed # None /\ got[p] # None
    BY ArchiveTypes, BackupAssumption DEF BackupTypeOK
  <2>3. p \notin clash => tar'[s] # None /\ (p \notin lost' => tar'[s] = closed)
    BY <1>1, <2>1, <2>2 DEF CloseTar, BackupTypeOK
  <2>4. p \notin stirred => closed = Snapshot
    <3>1. p \notin stirred => \A f \in File : got[p].files[f] = data[f]
      BY <1>1 DEF BackupWork
    <3>2. got[p].files \in [File -> Content] /\ data \in [File -> Content]
      BY DEF BackupTypeOK, Archive
    <3>3. p \notin stirred => got[p].files = data
      BY <3>1, <3>2
    <3>4. closed = [files |-> got[p].files, whole |-> TRUE]
      BY ClosedArchive DEF BackupTypeOK
    <3> QED
      BY <3>3, <3>4 DEF Snapshot
  <2>5. lost \subseteq lost' /\ Snapshot' = Snapshot
    BY <1>1 DEF HistoryGrows, Snapshot
  <2> QED
    BY <1>1, <2>3, <2>4, <2>5 DEF BackupWork, RestoreWork
<1>4. SoleInv'
  BY <1>1, SoleKeeps DEF Named, BackupSteps, RestoreSteps
<1>5. LastInv'
  BY <1>1 DEF LastInv, CloseTar
<1> QED
  BY <1>1, <1>2, <1>3, <1>4, <1>5, LeftAloneKeeps

LEMMA EncryptStep ==
  ASSUME CommandTypeOK, BackupTypeOK, PlacesInv, ArchiveInv, NEW p \in Proc, Encrypt(p)
  PROVE  ArchiveInv'
<1> USE DEF ArchiveInv, CommandTypeOK
<1> DEFINE s == stamp[p]
<1>1. /\ HistoryGrows /\ UNCHANGED <<data, dec, todo, open, stamp, clash, stirred, lost>>
      /\ \A q \in Proc \ {p} : at'[q] = at[q] /\ got'[q] = got[q]
      /\ at[p] = "encrypt" /\ s \in Stamp
      /\ \A u \in Stamp \ {s} : tar'[u] = tar[u] /\ enc'[u] = enc[u]
      /\ \/ at'[p] = "failed" /\ enc' = enc
         \/ at'[p] = "seal" /\ tar[s] # None /\ got'[p] = tar[s] /\ enc'[s] = Torn
  BY DEF Encrypt, RemoveTar, HistoryGrows, Goto, Fail, Fault, BackupTypeOK
<1>2. \A q \in Proc \ {p} : LeftAlone(q)
  BY <1>1, OwnFilesOnly DEF Named, BackupSteps
<1>3. BackupWork(p)' /\ RestoreWork(p)'
  BY <1>1 DEF BackupWork, RestoreWork, Snapshot
<1>4. SoleInv'
  BY <1>1, SoleKeeps DEF Named, BackupSteps, RestoreSteps
<1>5. LastInv'
  <2>1. CASE enc' = enc /\ at'[p] = "failed"
    BY <1>1, <2>1 DEF LastInv
  <2>2. CASE at'[p] = "seal" /\ enc'[s] = Torn
    <3>1. \A u \in Stamp : enc'[u] # None <=> u = s \/ enc[u] # None
      BY <1>1, <2>2, BackupAssumption
    <3>2. \E m \in Stamp : enc'[m] # None /\ \A u \in Stamp : enc'[u] # None => u <= m
      BY <1>1, <3>1, BackupAssumption DEF LastInv, Stamp
    <3>3. \A q \in Proc : stamp[q] \in Stamp
      BY DEF BackupTypeOK
    <3> QED
      BY <1>1, <2>2, <3>1, <3>2, <3>3 DEF LastInv
  <2> QED
    BY <1>1, <2>1, <2>2
<1> QED
  BY <1>1, <1>2, <1>3, <1>4, <1>5, LeftAloneKeeps

LEMMA SealStep ==
  ASSUME CommandTypeOK, BackupTypeOK, PlacesInv, ArchiveInv, NEW p \in Proc, Seal(p)
  PROVE  ArchiveInv'
<1> USE DEF ArchiveInv, CommandTypeOK
<1> DEFINE s == stamp[p]
<1>1. /\ HistoryGrows /\ UNCHANGED <<data, dec, todo, got, open, stamp, clash, stirred, lost>>
      /\ \A q \in Proc \ {p} : at'[q] = at[q]
      /\ at[p] = "seal" /\ s \in Stamp
      /\ \A u \in Stamp \ {s} : tar'[u] = tar[u] /\ enc'[u] = enc[u]
      /\ \/ at'[p] = "failed" /\ enc' = enc
         \/ /\ at'[p] = "clean"
            /\ \/ enc'[s] = enc[s] /\ enc[s] = None
               \/ enc'[s] = got[p]
               \/ enc'[s] = Torn /\ p \in clash
  BY DEF Seal, RemoveTar, HistoryGrows, Goto, Fail, Fault, BackupTypeOK
<1>2. \A q \in Proc \ {p} : LeftAlone(q)
  BY <1>1, OwnFilesOnly DEF Named, BackupSteps
<1>3. BackupWork(p)' /\ RestoreWork(p)'
  BY <1>1 DEF BackupWork, RestoreWork, Snapshot
<1>4. SoleInv'
  BY <1>1, SoleKeeps DEF Named, BackupSteps, RestoreSteps
<1>5. LastInv'
  <2>0. got[p] # None /\ Torn # None
    BY BackupAssumption DEF BackupTypeOK
  <2>1. CASE \A u \in Stamp : enc'[u] # None <=> enc[u] # None
    <3>1. \A q \in Proc : stamp[q] \in Stamp
      BY DEF BackupTypeOK
    <3> QED
      BY <1>1, <2>1, <3>1 DEF LastInv
  <2>2. CASE enc'[s] # None
    <3>1. \A u \in Stamp : enc'[u] # None <=> u = s \/ enc[u] # None
      BY <1>1, <2>2, BackupAssumption
    <3>2. \E m \in Stamp : enc'[m] # None /\ \A u \in Stamp : enc'[u] # None => u <= m
      BY <1>1, <3>1, BackupAssumption DEF LastInv, Stamp
    <3>3. \A q \in Proc : stamp[q] \in Stamp
      BY DEF BackupTypeOK
    <3> QED
      BY <1>1, <2>2, <3>1, <3>2, <3>3 DEF LastInv
  <2> QED
    BY <1>1, <2>0, <2>1, <2>2
<1> QED
  BY <1>1, <1>2, <1>3, <1>4, <1>5, LeftAloneKeeps

LEMMA cleanOldBackupsStep ==
  ASSUME CommandTypeOK, BackupTypeOK, PlacesInv, ArchiveInv, NEW p \in Proc, cleanOldBackups(p)
  PROVE  ArchiveInv'
<1> USE DEF ArchiveInv, CommandTypeOK
<1> DEFINE there == {u \in Stamp : enc[u] # None}
           old == {u \in there : Cardinality({v \in there : v > u}) >= MaxBackups}
<1>1. /\ HistoryGrows /\ UNCHANGED <<data, tar, dec, todo, got, open, stamp, clash, stirred, lost>>
      /\ \A q \in Proc \ {p} : at'[q] = at[q]
      /\ at[p] = "clean" /\ at'[p] = "unlink" /\ \A q \in Proc : stamp[q] \in Stamp
      /\ \A u \in Stamp : enc'[u] \in {None, enc[u]}
  BY DEF cleanOldBackups, HistoryGrows, Goto, BackupTypeOK
<1>2. \A q \in Proc \ {p} : LeftAlone(q)
  BY <1>1 DEF LeftAlone
<1>3. BackupWork(p)' /\ RestoreWork(p)'
  BY <1>1 DEF BackupWork, RestoreWork, Snapshot
<1>4. SoleInv'
  BY <1>1, SoleKeeps DEF Named, BackupSteps, RestoreSteps
<1>5. LastInv'
  <2>1. CASE there = {}
    BY <1>1, <2>1 DEF LastInv
  <2>2. CASE there # {}
    <3>1. PICK m \in Stamp : enc[m] # None /\ \A u \in Stamp : enc[u] # None => u <= m
      BY <2>2 DEF LastInv
    <3>2. {v \in there : v > m} = {}
      BY <3>1, BackupAssumption DEF Stamp
    <3>3. m \notin old
      BY <3>2, FS_EmptySet, BackupAssumption
    <3>4. enc'[m] = enc[m]
      BY <3>1, <3>3 DEF cleanOldBackups
    <3>5. \A u \in Stamp : enc'[u] # None => enc[u] # None
      BY <1>1
    <3>6. \A q \in Proc : at'[q] \in {"seal", "clean", "unlink"} =>
            enc'[stamp[q]] # None \/ stamp[q] < m
      <4> SUFFICES ASSUME NEW q \in Proc, at'[q] \in {"seal", "clean", "unlink"},
                          enc'[stamp[q]] = None
                   PROVE  stamp[q] < m
        OBVIOUS
      <4>1. at[q] \in {"seal", "clean", "unlink"} /\ stamp[q] # m
        BY <1>1, <3>1, <3>4
      <4>2. enc[stamp[q]] # None \/ \E u \in Stamp : u > stamp[q] /\ enc[u] # None
        BY <4>1 DEF LastInv
      <4>3. m \in Nat /\ stamp[q] \in Nat /\ \A u \in Stamp : u \in Nat
        BY <1>1, BackupAssumption DEF Stamp
      <4> QED
        BY <1>1, <3>1, <4>1, <4>2, <4>3
    <3>7. \A q \in Proc : at'[q] \in {"seal", "clean", "unlink"} =>
            enc'[stamp'[q]] # None \/ \E u \in Stamp : u > stamp'[q] /\ enc'[u] # None
      <4>1. m \in Nat /\ \A q \in Proc : stamp[q] \in Nat
        BY <1>1, BackupAssumption DEF Stamp
      <4> QED
        BY <1>1, <3>1, <3>4, <3>6, <4>1
    <3> QED
      BY <3>1, <3>4, <3>5, <3>7 DEF LastInv
  <2> QED
    BY <2>1, <2>2
<1> QED
  BY <1>1, <1>2, <1>3, <1>4, <1>5, LeftAloneKeeps

LEMMA ReportBackupStep ==
  ASSUME CommandTypeOK, BackupTypeOK, PlacesInv, ArchiveInv, NEW p \in Proc, ReportBackup(p)
  PROVE  ArchiveInv'
<1> USE DEF ArchiveInv, CommandTypeOK
<1>1. /\ HistoryGrows
      /\ UNCHANGED <<data, enc, dec, todo, got, open, stamp, clash, stirred, lost>>
      /\ \A q \in Proc \ {p} : at'[q] = at[q]
      /\ at[p] = "unlink" /\ at'[p] = "backedUp"
      /\ \A u \in Stamp \ {stamp[p]} : tar'[u] = tar[u]
  BY DEF ReportBackup, RemoveTar, HistoryGrows, Goto, BackupTypeOK
<1>2. \A q \in Proc \ {p} : LeftAlone(q)
  BY <1>1, OwnFilesOnly DEF Named, BackupSteps
<1>3. BackupWork(p)' /\ RestoreWork(p)'
  BY <1>1 DEF BackupWork, RestoreWork
<1>4. SoleInv'
  BY <1>1, SoleKeeps DEF Named, BackupSteps, RestoreSteps
<1>5. LastInv'
  BY <1>1 DEF LastInv
<1> QED
  BY <1>1, <1>2, <1>3, <1>4, <1>5, LeftAloneKeeps

LEMMA ChooseBackupStep ==
  ASSUME CommandTypeOK, BackupTypeOK, PlacesInv, ArchiveInv, NEW p \in Proc, ChooseBackup(p)
  PROVE  ArchiveInv'
<1> USE DEF ArchiveInv, CommandTypeOK
<1>1. /\ HistoryGrows /\ UNCHANGED <<data, tar, enc, dec, todo, got, open>>
      /\ \A q \in Proc \ {p} : at'[q] = at[q] /\ stamp'[q] = stamp[q]
  BY DEF ChooseBackup, HistoryGrows, Goto, Meets, BackupTypeOK
<1>2. \A q \in Proc \ {p} : LeftAlone(q)
  BY <1>1 DEF LeftAlone
<1>3. BackupWork(p)' /\ RestoreWork(p)'
  BY DEF BackupWork, RestoreWork, ChooseBackup, Goto, Meets
<1>4. SoleInv'
  <2>1. CASE at'[p] = "refused"
    BY <1>1, <2>1, SoleKeeps DEF HistoryGrows, Named, BackupSteps, RestoreSteps
  <2>2. ASSUME NEW s \in Stamp, stamp' = [stamp EXCEPT ![p] = s], Meets(p, Sharers(s), "decrypt")
        PROVE  SoleInv'
    <3>1. stamp'[p] = s
      BY <2>2 DEF BackupTypeOK
    <3>2. \A q \in Proc \ {p} : at[q] \in Named /\ stamp[q] = s => p \in clash' /\ q \in clash'
      BY <2>2, SharersAreNamed DEF Meets
    <3> QED
      BY <1>1, <3>1, <3>2 DEF SoleInv, HistoryGrows
  <2> QED
    BY <2>1, <2>2 DEF ChooseBackup, Goto
<1>5. LastInv'
  BY <1>1 DEF LastInv, ChooseBackup, Goto, Meets
<1> QED
  BY <1>1, <1>2, <1>3, <1>4, <1>5, LeftAloneKeeps

LEMMA DecryptStep ==
  ASSUME CommandTypeOK, BackupTypeOK, PlacesInv, ArchiveInv, NEW p \in Proc, Decrypt(p)
  PROVE  ArchiveInv'
<1> USE DEF ArchiveInv, CommandTypeOK
<1> DEFINE s == stamp[p]
<1>1. /\ HistoryGrows
      /\ UNCHANGED <<data, tar, enc, todo, open, stamp, clash, stirred, lost>>
      /\ \A q \in Proc \ {p} : at'[q] = at[q] /\ got'[q] = got[q]
      /\ at[p] = "decrypt" /\ s \in Stamp
      /\ \A u \in Stamp \ {s} : dec'[u] = dec[u]
      /\ \/ at'[p] \in {"failed", "refused"}
         \/ at'[p] = "plain" /\ got'[p] = enc[s] /\ dec'[s] = Blank
  BY DEF Decrypt, HistoryGrows, Goto, Fail, Fault, BackupTypeOK
<1>2. \A q \in Proc \ {p} : LeftAlone(q)
  BY <1>1, OwnFilesOnly DEF Named, RestoreSteps
<1>3. BackupWork(p)' /\ RestoreWork(p)'
  <2>1. Blank # None
    BY ArchiveTypes, BackupAssumption
  <2> QED
    BY <1>1, <2>1 DEF BackupWork, RestoreWork
<1>4. SoleInv'
  BY <1>1, SoleKeeps DEF Named, BackupSteps, RestoreSteps
<1>5. LastInv'
  BY <1>1 DEF LastInv
<1> QED
  BY <1>1, <1>2, <1>3, <1>4, <1>5, LeftAloneKeeps

LEMMA WriteDecStep ==
  ASSUME CommandTypeOK, BackupTypeOK, PlacesInv, ArchiveInv, NEW p \in Proc, WriteDec(p)
  PROVE  ArchiveInv'
<1> USE DEF ArchiveInv, CommandTypeOK
<1> DEFINE s == stamp[p]
<1>1. /\ HistoryGrows
      /\ UNCHANGED <<data, tar, enc, todo, got, open, stamp, clash, stirred, lost>>
      /\ \A q \in Proc \ {p} : at'[q] = at[q]
      /\ at[p] = "plain" /\ s \in Stamp
      /\ \A u \in Stamp \ {s} : dec'[u] = dec[u]
      /\ \/ at'[p] = "failed"
         \/ at'[p] = "open" /\ (dec[s] # None => dec'[s] = got[p])
  BY DEF WriteDec, HistoryGrows, Goto, Fault, BackupTypeOK
<1>2. \A q \in Proc \ {p} : LeftAlone(q)
  BY <1>1, OwnFilesOnly DEF Named, RestoreSteps
<1>3. BackupWork(p)' /\ RestoreWork(p)'
  <2>1. got[p] # None
    BY BackupAssumption DEF BackupTypeOK
  <2> QED
    BY <1>1, <2>1 DEF BackupWork, RestoreWork
<1>4. SoleInv'
  BY <1>1, SoleKeeps DEF Named, BackupSteps, RestoreSteps
<1>5. LastInv'
  BY <1>1 DEF LastInv
<1> QED
  BY <1>1, <1>2, <1>3, <1>4, <1>5, LeftAloneKeeps

LEMMA OpenDecStep ==
  ASSUME CommandTypeOK, BackupTypeOK, PlacesInv, ArchiveInv, NEW p \in Proc, OpenDec(p)
  PROVE  ArchiveInv'
<1> USE DEF ArchiveInv, CommandTypeOK
<1> DEFINE s == stamp[p]
<1>1. /\ HistoryGrows
      /\ UNCHANGED <<data, tar, enc, open, stamp, clash, stirred, lost>>
      /\ \A q \in Proc \ {p} : at'[q] = at[q] /\ got'[q] = got[q] /\ todo'[q] = todo[q]
      /\ at[p] = "open" /\ s \in Stamp
      /\ \A u \in Stamp \ {s} : dec'[u] = dec[u]
      /\ \/ at'[p] = "failed"
         \/ /\ at'[p] = "extract" /\ got'[p] = dec[s]
            /\ todo'[p] = {f \in File : dec[s].files[f] # None}
  BY DEF OpenDec, RemoveDec, HistoryGrows, Goto, Fail, Fault, BackupTypeOK
<1>2. \A q \in Proc \ {p} : LeftAlone(q)
  BY <1>1, OwnFilesOnly DEF Named, RestoreSteps
<1>3. BackupWork(p)' /\ RestoreWork(p)'
  BY <1>1 DEF BackupWork, RestoreWork
<1>4. SoleInv'
  BY <1>1, SoleKeeps DEF Named, BackupSteps, RestoreSteps
<1>5. LastInv'
  BY <1>1 DEF LastInv
<1> QED
  BY <1>1, <1>2, <1>3, <1>4, <1>5, LeftAloneKeeps

\* Whoever is at work with a backup has seen what another writes to the data.
LEMMA WriteStirs ==
  ASSUME PlacesInv, NEW p \in Proc, NEW f, NEW c, Write(p, f, c),
         NEW q \in Proc \ {p}, at[q] \in Named
  PROVE  q \in stirred'
BY DEF Write, Alive, Named, BackupSteps, RestoreSteps, Over, Success

LEMMA ExtractFileStep ==
  ASSUME CommandTypeOK, BackupTypeOK, PlacesInv, ArchiveInv, NEW p \in Proc, ExtractFile(p)
  PROVE  ArchiveInv'
<1> USE DEF ArchiveInv, CommandTypeOK
<1> DEFINE s == stamp[p]
<1>1. /\ HistoryGrows
      /\ UNCHANGED <<tar, enc, todo, got, stamp, clash, lost>>
      /\ \A q \in Proc \ {p} : at'[q] = at[q] /\ open'[q] = open[q]
      /\ at[p] = "extract" /\ s \in Stamp
      /\ \A u \in Stamp \ {s} : dec'[u] = dec[u]
  BY DEF ExtractFile, Write, RemoveDec, HistoryGrows, Goto, Fault, BackupTypeOK
<1>2. \A q \in Proc \ {p} : at[q] \in Named /\ q \notin stirred' => data' = data
  BY WriteStirs DEF ExtractFile
<1>3. \A q \in Proc \ {p} : LeftAlone(q)
  BY <1>1, <1>2, OwnFilesOnly DEF Named, RestoreSteps
<1>4. BackupWork(p)' /\ RestoreWork(p)'
  <2>1. CASE at'[p] = "failed"
    BY <2>1 DEF BackupWork, RestoreWork
  <2>2. ASSUME NEW f \in todo[p], Write(p, f, Torn), open' = [open EXCEPT ![p] = f],
               at'[p] = "copyFile"
        PROVE  BackupWork(p)' /\ RestoreWork(p)'
    <3>1. open'[p] \in todo[p] /\ \A g \in File \ todo[p] : data'[g] = data[g]
      BY <2>2 DEF Write, BackupTypeOK
    <3> QED
      BY <1>1, <2>2, <3>1 DEF BackupWork, RestoreWork, HistoryGrows
  <2> QED
    BY <2>1, <2>2 DEF ExtractFile, Goto, Fault
<1>5. SoleInv'
  BY <1>1, SoleKeeps DEF Named, BackupSteps, RestoreSteps
<1>6. LastInv'
  BY <1>1 DEF LastInv, ExtractFile, Goto, Fault
<1> QED
  BY <1>1, <1>3, <1>4, <1>5, <1>6, LeftAloneKeeps

LEMMA CopyFileStep ==
  ASSUME CommandTypeOK, BackupTypeOK, PlacesInv, ArchiveInv, NEW p \in Proc, CopyFile(p)
  PROVE  ArchiveInv'
<1> USE DEF ArchiveInv, CommandTypeOK
<1> DEFINE s == stamp[p]
<1>1. /\ HistoryGrows
      /\ UNCHANGED <<tar, enc, open, got, stamp, clash, lost>>
      /\ \A q \in Proc \ {p} : at'[q] = at[q] /\ todo'[q] = todo[q]
      /\ at[p] = "copyFile" /\ s \in Stamp
      /\ \A u \in Stamp \ {s} : dec'[u] = dec[u]
  BY DEF CopyFile, Write, RemoveDec, HistoryGrows, Goto, Fault, BackupTypeOK
<1>2. \A q \in Proc \ {p} : at[q] \in Named /\ q \notin stirred' => data' = data
  BY WriteStirs DEF CopyFile
<1>3. \A q \in Proc \ {p} : LeftAlone(q)
  BY <1>1, <1>2, OwnFilesOnly DEF Named, RestoreSteps
<1>4. BackupWork(p)' /\ RestoreWork(p)'
  <2>1. CASE at'[p] = "failed"
    BY <2>1 DEF BackupWork, RestoreWork
  <2>2. CASE /\ Write(p, open[p], got[p].files[open[p]])
             /\ todo' = [todo EXCEPT ![p] = @ \ {open[p]}] /\ at'[p] = "extract"
    <3>1. /\ todo'[p] = todo[p] \ {open[p]}
          /\ \A g \in File : data'[g] = IF g = open[p] THEN got[p].files[g] ELSE data[g]
      BY <2>2 DEF Write, BackupTypeOK
    <3> QED
      BY <1>1, <2>2, <3>1 DEF BackupWork, RestoreWork, HistoryGrows
  <2> QED
    BY <2>1, <2>2 DEF CopyFile, Goto, Fault
<1>5. SoleInv'
  BY <1>1, SoleKeeps DEF Named, BackupSteps, RestoreSteps, CopyFile, Goto, Fault
<1>6. LastInv'
  BY <1>1 DEF LastInv, CopyFile, Goto, Fault
<1> QED
  BY <1>1, <1>3, <1>4, <1>5, <1>6, LeftAloneKeeps

LEMMA ReportRestoreStep ==
  ASSUME CommandTypeOK, BackupTypeOK, PlacesInv, ArchiveInv, NEW p \in Proc, ReportRestore(p)
  PROVE  ArchiveInv'
<1> USE DEF ArchiveInv, CommandTypeOK
<1>1. /\ HistoryGrows
      /\ UNCHANGED <<data, tar, enc, todo, got, open, stamp, clash, stirred, lost>>
      /\ \A q \in Proc \ {p} : at'[q] = at[q]
      /\ at[p] = "extract" /\ at'[p] \in {"restored", "failed"}
      /\ \A u \in Stamp \ {stamp[p]} : dec'[u] = dec[u]
  BY DEF ReportRestore, RemoveDec, HistoryGrows, Goto, BackupTypeOK
<1>2. \A q \in Proc \ {p} : LeftAlone(q)
  BY <1>1, OwnFilesOnly DEF Named, RestoreSteps
<1>3. BackupWork(p)' /\ RestoreWork(p)'
  BY <1>1 DEF BackupWork, RestoreWork
<1>4. SoleInv'
  BY <1>1, SoleKeeps DEF Named, BackupSteps, RestoreSteps
<1>5. LastInv'
  BY <1>1 DEF LastInv
<1> QED
  BY <1>1, <1>2, <1>3, <1>4, <1>5, LeftAloneKeeps

\* Servers and updaters come and go without touching archives; what a server
\* writes to the data, the others have seen.
LEMMA OthersKeepArchives ==
  ASSUME CommandTypeOK, PlacesInv, ArchiveInv, NEW p \in Proc,
         \A q \in Proc \ {p} : at'[q] = at[q],
         at'[p] \notin Named \/ at'[p] = at[p],
         UNCHANGED <<tar, enc, dec, stamp, todo, got, open, lost>>,
         clash \subseteq clash', stirred \subseteq stirred',
         at[p] \in Named => data' = data /\ at'[p] \notin Named,
         \A q \in Proc \ {p} : at[q] \in Named /\ q \notin stirred' => data' = data
  PROVE  ArchiveInv'
<1> USE DEF ArchiveInv
<1>1. HistoryGrows
  BY DEF HistoryGrows
<1>2. \A q \in Proc \ {p} : LeftAlone(q)
  BY DEF LeftAlone
<1>3. BackupWork(p)' /\ RestoreWork(p)'
  BY DEF BackupWork, RestoreWork, Named, BackupSteps, RestoreSteps
<1>4. SoleInv'
  BY DEF SoleInv
<1>5. LastInv'
  BY DEF LastInv, Named, BackupSteps
<1> QED
  BY <1>1, <1>2, <1>3, <1>4, <1>5, LeftAloneKeeps

LEMMA ArchivesStep ==
  ASSUME TypeOK, PlacesInv, ArchiveInv, [Next]_vars
  PROVE  ArchiveInv'
<1> USE DEF TypeOK
<1>1. CASE UNCHANGED vars
  BY <1>1 DEF vars, commandVars, backupVars, ArchiveInv, SoleInv, LastInv, BackupWork,
     RestoreWork, Snapshot
<1>2. ASSUME NEW p \in Proc, MakeBackup(p) \/ RestoreBackup(p) PROVE ArchiveInv'
  BY <1>2, CreateTarStep, ListFilesStep, WalkFileStep, CloseTarStep, EncryptStep, SealStep,
     cleanOldBackupsStep, ReportBackupStep, ChooseBackupStep, DecryptStep, WriteDecStep,
     OpenDecStep, ExtractFileStep, CopyFileStep, ReportRestoreStep
  DEF MakeBackup, RestoreBackup
<1>3. ASSUME NEW p \in Proc, Start(p) \/ Die(p) PROVE ArchiveInv'
  <2>1. at'[p] \notin Named /\ \A q \in Proc \ {p} : at'[q] = at[q]
    BY <1>3 DEF Start, Launch, FirstStep, Command, Die, Kill, Goto, Named, BackupSteps,
       RestoreSteps, CommandTypeOK
  <2>2. UNCHANGED <<backupVars, clash>>
    BY <1>3 DEF Start, Launch, Die, Kill, Goto
  <2> QED
    BY <2>1, <2>2, OthersKeepArchives DEF backupVars
<1>4. ASSUME NEW p \in Proc, Serve(p) PROVE ArchiveInv'
  <2>1. at[p] \notin Named /\ at'[p] \notin Named /\ clash' = clash
        /\ \A q \in Proc \ {p} : at'[q] = at[q]
    <3> USE DEF Goto, Fail, Fault, Named, BackupSteps, RestoreSteps, CommandTypeOK
    <3>1. CASE DetectFlags(p) \/ Ensure(p)
      BY <3>1 DEF DetectFlags, Ensure
    <3>2. CASE Load(p) \/ Validate(p)
      BY <3>2 DEF Load, Validate
    <3>3. CASE Save(p) \/ Empty(p) \/ Fill(p)
      BY <3>3 DEF Save, Empty, Fill
    <3>4. CASE WritePIDFile(p) \/ OpenDatabase(p)
      BY <3>4 DEF WritePIDFile, OpenDatabase
    <3>5. CASE ServeAndWrite(p) \/ StopServing(p)
      BY <3>5 DEF ServeAndWrite, StopServing, commandVars
    <3> QED
      BY <1>4, <3>1, <3>2, <3>3, <3>4, <3>5 DEF Serve
  <2>2. UNCHANGED <<tar, enc, dec, stamp, todo, got, open, lost>>
    BY <1>4 DEF Serve, DetectFlags, Ensure, Load, Validate, Save, Empty, Fill, WritePIDFile,
       OpenDatabase, ServeAndWrite, StopServing, backupVars
  <2>3. stirred \subseteq stirred' /\
        \A q \in Proc \ {p} : at[q] \in Named /\ q \notin stirred' => data' = data
    <3>1. CASE ServeAndWrite(p)
      BY <3>1, WriteStirs DEF ServeAndWrite, Write
    <3>2. CASE ~ServeAndWrite(p)
      BY <1>4, <3>2 DEF Serve, DetectFlags, Ensure, Load, Validate, Save, Empty, Fill, WritePIDFile,
         OpenDatabase, StopServing, backupVars
    <3> QED
      BY <3>1, <3>2
  <2> QED
    BY <2>1, <2>2, <2>3, OthersKeepArchives
<1>5. ASSUME NEW p \in Proc, Update(p), UNCHANGED backupVars PROVE ArchiveInv'
  <2>1. at'[p] \notin Named /\ clash \subseteq clash' /\ \A q \in Proc \ {p} : at'[q] = at[q]
    BY <1>5 DEF Update, CheckForUpdates, CreateTemp, Fetch, VerifyBinary, Executable, MoveAside,
       CreateBinary, CopyBinary, Undo, Tidy, Goto, Fail, Fault, Meets, Named, BackupSteps,
       RestoreSteps, CommandTypeOK
  <2> QED
    BY <1>5, <2>1, OthersKeepArchives DEF backupVars
<1>6. CASE Edit
  BY <1>6 DEF Edit, commandVars, backupVars, ArchiveInv, SoleInv, LastInv, BackupWork,
     RestoreWork, Snapshot
<1> QED
  BY <1>1, <1>2, <1>3, <1>4, <1>5, <1>6 DEF Next

LEMMA ArchivesStart == ASSUME Init PROVE PlacesInv /\ ArchiveInv
<1> USE DEF Init, CommandInit, BackupInit
<1>1. PlacesInv
  BY DEF PlacesInv, ServeSteps, BackupSteps, RestoreSteps, Steps, Before, After, Over, Success
<1>2. SoleInv /\ \A p \in Proc : BackupWork(p) /\ RestoreWork(p)
  BY DEF SoleInv, BackupWork, RestoreWork, Named, BackupSteps, RestoreSteps
<1>3. LastInv
  <2>1. \A s \in Stamp : enc[s] # None => s = 1
    BY DEF LastInv
  <2> QED
    BY <2>1 DEF LastInv, Stamp
<1> QED
  BY <1>1, <1>2, <1>3 DEF ArchiveInv

\* The invariant of the updaters' reports.
ReleaseInv == UpdatersInv /\ \A p \in Proc : UpdateWork(p)

\* A step that is not an updater's: a start, a kill, or one of another command.
LEMMA OthersKeepReleases ==
  ASSUME PlacesInv, UpdaterTypeOK, ReleaseInv, NEW p \in Proc,
         \A q \in Proc \ {p} : at'[q] = at[q] /\ cmd'[q] = cmd[q],
         at'[p] \notin Steps \ {"check"}, hurt \subseteq hurt',
         \/ at[p] = "unborn"
         \/ cmd'[p] = cmd[p] /\ (cmd[p] = "update" => at'[p] \in Over),
         \A q \in Proc : exe'[q] = exe[q] \/ \E n \in Name : bin[n] # None /\ exe'[q] = bin[n],
         UNCHANGED <<bin, code, was, temp, release, second, target, fd, together>>
  PROVE  ReleaseInv'
<1> USE DEF ReleaseInv
<1>1. \A q \in Proc : UpdateWork(q)'
  BY DEF UpdateWork, Steps, Before, After
<1>2. \A q \in Proc : cmd[q] = "update" => cmd'[q] = "update"
  BY DEF PlacesInv
<1>3. \A q \in together : cmd'[q] = "update" /\ \E r \in Proc \ {q} : cmd'[r] = "update"
  BY <1>2 DEF UpdatersInv, UpdaterTypeOK
<1>4. ASSUME \A q \in Proc : cmd'[q] = "update" => at'[q] \in Before
      PROVE  \A q \in Proc : cmd[q] = "update" => at[q] \in Before
  BY <1>2, <1>4 DEF PlacesInv, Before, Over, Success
<1>5. UpdatersInv'
  <2>1. \A q \in Proc : at'[q] = "backup" => at[q] = "backup"
    BY DEF Steps, Before
  <2>2. ASSUME \A q \in Proc : cmd'[q] = "update" => at'[q] \in Before
        PROVE  /\ \A n \in Name : bin'[n] = IF n = 0 THEN Installed ELSE None
               /\ was'[Installed] = 0
               /\ \A q \in Proc : exe'[q] = Installed /\ (at'[q] = "backup" => target'[q] = 0)
    <3>1. UpdatersInv!2!2
      BY <1>4, <2>2 DEF UpdatersInv
    <3> QED
      BY <2>1, <3>1
  <2> QED
    BY <1>3, <2>2 DEF UpdatersInv
<1> QED
  BY <1>1, <1>5

\* Whoever is at work with an update while another has a step has met it.
LEMMA UpdatersMeet ==
  ASSUME PlacesInv, CommandTypeOK, NEW p \in Proc, NEW q \in Proc \ {p}, UpdateWork(q), Update(p),
         q \notin together'
  PROVE  at'[q] = at[q] /\ at[q] \notin Steps \ {"check"}
<1> USE DEF Steps, Before, After, CommandTypeOK
<1>1. at'[q] = at[q] /\ at[p] \in Steps /\ together \subseteq together'
  BY DEF Update, CheckForUpdates, CreateTemp, Fetch, VerifyBinary, Executable, MoveAside,
     CreateBinary, CopyBinary, Undo, Tidy, Goto, Fail, Fault, Meets
<1>2. SUFFICES ASSUME at[q] \in Steps \ {"check"} PROVE FALSE
  BY <1>1
<1>3. at[p] = "check" /\ CheckForUpdates(p)
  BY <1>1, <1>2 DEF UpdateWork, Update, CheckForUpdates, CreateTemp, Fetch, VerifyBinary,
     Executable, MoveAside, CreateBinary, CopyBinary, Undo, Tidy
<1>4. q \in Doing("update") /\ q # p
  BY <1>2 DEF Doing, Alive, PlacesInv, Over, Success
<1> QED
  BY <1>3, <1>4 DEF CheckForUpdates

LEMMA UpdateOwnWork ==
  ASSUME CommandTypeOK, UpdaterTypeOK, PlacesInv, NEW p \in Proc, UpdateWork(p), Update(p)
  PROVE  UpdateWork(p)'
<1> USE DEF CommandTypeOK, UpdateWork, Steps, Before, After, Goto, Fail, Fault
<1>0. release[p] \in Version /\ second[p] \in Second
  BY DEF UpdaterTypeOK
<1>1. CASE CheckForUpdates(p)
  <2> SUFFICES ASSUME p \notin together', at'[p] \in Steps \ {"check"},
                      NEW q \in Proc \ {p}, at'[q] \in Steps
               PROVE  FALSE
    BY <1>1 DEF CheckForUpdates
  <2>1. at[q] \in Steps /\ cmd[q] = "update" /\ q \in Doing("update")
    BY <1>1 DEF CheckForUpdates, PlacesInv, Doing, Alive, Over, Success
  <2>2. p \in Doing("update")
    BY <1>1 DEF CheckForUpdates, PlacesInv, Doing, Alive, Over, Success
  <2> QED
    BY <1>1, <2>1, <2>2 DEF CheckForUpdates
<1>2. CASE CreateTemp(p)
  <2>1. Broken # None
    BY UpdaterAssumption
  <2>2. at'[p] = "fetch" => temp'[second'[p]] = Broken
    BY <1>2 DEF CreateTemp, Meets, UpdaterTypeOK
  <2> QED
    BY <1>2, <2>1, <2>2 DEF CreateTemp, Meets
<1>3. CASE Fetch(p)
  <2>1. temp[second[p]] # None /\ at'[p] = "verify" => temp'[second[p]] \in {release[p], Broken}
    BY <1>3, <1>0 DEF Fetch, UpdaterTypeOK
  <2> QED
    BY <1>3, <2>1 DEF Fetch
<1>4. CASE VerifyBinary(p)
  BY <1>4, UpdaterAssumption DEF VerifyBinary
<1>5. CASE MoveAside(p)
  <2>1. at'[p] = "create" => bin'[target'[p]] = None /\ temp' = temp
    BY <1>5, UpdaterAssumption DEF MoveAside, Rename, UpdaterTypeOK, Name
  <2> QED
    BY <1>5, <2>1 DEF MoveAside
<1>a. CASE Executable(p)
  BY <1>a DEF Executable
<1>6. CASE CreateBinary(p)
  <2>1. at'[p] = "copy" => bin'[target[p]] = fd'[p]
    BY <1>6 DEF CreateBinary, UpdaterTypeOK
  <2>2. p \notin together => temp[second[p]] # None /\ ~Busy(target[p])
    BY <1>6, <1>0, UpdaterAssumption DEF CreateBinary, Busy
  <2> QED
    BY <1>6, <2>1, <2>2 DEF CreateBinary
<1>7. CASE CopyBinary(p)
  <2>1. p \notin together => temp[second[p]] = release[p] /\ bin[target[p]] = fd[p]
    BY <1>7 DEF CopyBinary
  <2>2. fd[p] # None /\ release[p] # None /\ fd[p] \in Binary
    BY <1>0, UpdaterAssumption DEF UpdaterTypeOK
  <2>3. p \notin together /\ at'[p] = "tidy" => code'[fd[p]] = release[p]
    BY <1>7, <2>1, <2>2 DEF CopyBinary, UpdaterTypeOK
  <2> QED
    BY <1>7, <2>1, <2>2, <2>3 DEF CopyBinary
<1>8. CASE Undo(p)
  BY <1>8 DEF Undo
<1>9. CASE Tidy(p)
  BY <1>9 DEF Tidy
<1> QED
  BY <1>1, <1>2, <1>3, <1>4, <1>5, <1>a, <1>6, <1>7, <1>8, <1>9 DEF Update

LEMMA UpdateKeepsUpdaters ==
  ASSUME CommandTypeOK, UpdaterTypeOK, PlacesInv, UpdatersInv, NEW p \in Proc, Update(p)
  PROVE  UpdatersInv'
<1> USE DEF CommandTypeOK, Steps, Before, After, Goto, Fail, Fault
<1>1. cmd' = cmd /\ \A q \in Proc \ {p} : at'[q] = at[q]
  BY DEF Update, CheckForUpdates, CreateTemp, Fetch, VerifyBinary, Executable, MoveAside,
     CreateBinary, CopyBinary, Undo, Tidy, Meets
<1>2. \A q \in together' : cmd[q] = "update" /\ \E r \in Proc \ {q} : cmd[r] = "update"
  <2>1. CASE together' = together
    BY <2>1 DEF UpdatersInv
  <2>2. CASE together' # together
    <3>1. at[p] = "check" /\ together' = together \cup Doing("update")
          /\ Doing("update") # {p}
      BY <2>2 DEF Update, CheckForUpdates, CreateTemp, Fetch, VerifyBinary, Executable, MoveAside,
         CreateBinary, CopyBinary, Undo, Tidy
    <3>2. p \in Doing("update")
      BY <3>1 DEF PlacesInv, Doing, Alive, Over, Success
    <3>3. \A q \in Doing("update") : q \in Proc /\ cmd[q] = "update"
      BY DEF Doing, Alive
    <3> QED
      BY <3>1, <3>2, <3>3 DEF UpdatersInv
  <2> QED
    BY <2>1, <2>2
<1>3. ASSUME \A q \in Proc : cmd[q] = "update" => at'[q] \in Before
      PROVE  /\ \A q \in Proc : cmd[q] = "update" => at[q] \in Before
             /\ UNCHANGED <<bin, was, exe>>
             /\ \A q \in Proc : at'[q] = "backup" =>
                  target'[q] = IF at[q] = "backup" THEN target[q] ELSE was[exe[q]]
  <2>1. at[p] \in Steps /\ cmd[p] = "update"
    BY DEF PlacesInv, Update, CheckForUpdates, CreateTemp, Fetch, VerifyBinary, Executable, MoveAside,
     CreateBinary, CopyBinary, Undo, Tidy
  <2>2. at'[p] \in Before
    BY <1>3, <2>1
  <2>3. at[p] \in Before /\ UNCHANGED <<bin, was, exe>>
    BY <2>2 DEF Update, CheckForUpdates, CreateTemp, Fetch, VerifyBinary, Executable, MoveAside,
     CreateBinary, CopyBinary, Undo, Tidy, Meets
  <2>4. ASSUME NEW q \in Proc, at'[q] = "backup"
        PROVE  target'[q] = IF at[q] = "backup" THEN target[q] ELSE was[exe[q]]
    <3>1. CASE Executable(p)
      BY <1>1, <2>4, <3>1 DEF Executable, UpdaterTypeOK
    <3>2. CASE ~Executable(p)
      BY <1>1, <2>2, <2>3, <2>4, <3>2 DEF Update, CheckForUpdates, CreateTemp, Fetch, VerifyBinary,
         MoveAside, CreateBinary, CopyBinary, Undo, Tidy, Meets
    <3> QED
      BY <3>1, <3>2
  <2> QED
    BY <1>1, <1>3, <2>3, <2>4
<1> QED
  BY <1>1, <1>2, <1>3 DEF UpdatersInv

LEMMA ReleasesStep ==
  ASSUME CommandTypeOK, InstallationInv, PlacesInv, ReleaseInv, [Next]_vars
  PROVE  ReleaseInv'
<1> USE DEF CommandTypeOK
<1>0. UpdaterTypeOK /\ StepsInv
  BY DEF InstallationInv
<1>1. CASE UNCHANGED vars
  BY <1>1 DEF vars, commandVars, updaterVars, ReleaseInv, UpdatersInv, UpdateWork
<1>2. ASSUME NEW p \in Proc, Start(p) PROVE ReleaseInv'
  <2>1. /\ at[p] = "unborn" /\ at'[p] \notin Steps \ {"check"} /\ hurt \subseteq hurt'
        /\ \A q \in Proc \ {p} : at'[q] = at[q] /\ cmd'[q] = cmd[q]
    BY <1>2 DEF Start, Launch, FirstStep, Command, Steps, Before, After
  <2>2. \A q \in Proc : exe'[q] = exe[q] \/ \E n \in Name : bin[n] # None /\ exe'[q] = bin[n]
    BY <1>0, <1>2 DEF Start, RunBinary, Works, UpdaterTypeOK
  <2>3. UNCHANGED <<bin, code, was, temp, release, second, target, fd, together>>
    BY <1>2 DEF Start, RunBinary
  <2> QED
    BY <1>0, <2>1, <2>2, <2>3, OthersKeepReleases
<1>3. ASSUME NEW p \in Proc, UNCHANGED updaterVars,
             Serve(p) \/ MakeBackup(p) \/ RestoreBackup(p)
      PROVE  ReleaseInv'
  <2>1. Elsewhere(p) /\ at[p] \notin Steps \cup Over \cup {"unborn"}
    BY <1>0, <1>3, ServeStep, BackupStep
  <2>2. hurt \subseteq hurt'
    BY <1>3 DEF Serve, DetectFlags, Ensure, Load, Validate, Save, Empty, Fill, WritePIDFile,
       OpenDatabase, ServeAndWrite, StopServing, commandVars, MakeBackup, CreateTar,
       ListFiles, WalkFile, CloseTar, Encrypt, Seal, cleanOldBackups, ReportBackup,
       RestoreBackup, ChooseBackup, Decrypt, WriteDec, OpenDec, ExtractFile, CopyFile,
       ReportRestore, Goto, Fail, Fault, Meets
  <2>3. cmd[p] # "update"
    BY <2>1 DEF PlacesInv
  <2> QED
    BY <1>0, <1>3, <2>1, <2>2, <2>3, OthersKeepReleases DEF Elsewhere, updaterVars
<1>4. ASSUME NEW p \in Proc, Update(p) PROVE ReleaseInv'
  <2>1. \A q \in Proc \ {p} : UpdateWork(q)'
    BY <1>4, UpdatersMeet DEF ReleaseInv, UpdateWork, Steps, Before, After
  <2> QED
    BY <1>0, <1>4, <2>1, UpdateOwnWork, UpdateKeepsUpdaters DEF ReleaseInv
<1>5. ASSUME NEW p \in Proc, Die(p) PROVE ReleaseInv'
  <2>1. /\ at'[p] \in Over /\ at'[p] \notin Steps /\ UNCHANGED <<cmd, hurt, updaterVars>>
        /\ \A q \in Proc \ {p} : at'[q] = at[q]
    BY <1>5 DEF Die, Kill, Goto, Over, Success, Steps, Before, After
  <2> QED
    BY <1>0, <1>5, <2>1, OthersKeepReleases DEF updaterVars
<1>6. CASE Edit /\ UNCHANGED updaterVars
  BY <1>6 DEF Edit, commandVars, updaterVars, ReleaseInv, UpdatersInv, UpdateWork
<1> QED
  BY <1>1, <1>2, <1>3, <1>4, <1>5, <1>6 DEF Next

LEMMA ReleasesStart == ASSUME Init PROVE ReleaseInv
BY DEF Init, CommandInit, UpdaterInit, ReleaseInv, UpdatersInv, UpdateWork, Steps, Before,
   After, Binary

\* A process moves by a step of its own.
LEMMA Moves ==
  ASSUME CommandTypeOK, InstallationInv, [Next]_vars, NEW p \in Proc, at'[p] # at[p]
  PROVE  Start(p) \/ Serve(p) \/ MakeBackup(p) \/ RestoreBackup(p) \/ Update(p) \/ Die(p)
<1> USE DEF CommandTypeOK
<1>0. StepsInv
  BY DEF InstallationInv
<1>1. ASSUME NEW q \in Proc \ {p}, Start(q) \/ Die(q) PROVE FALSE
  BY <1>1 DEF Start, Launch, Die, Kill, Goto
<1>2. ASSUME NEW q \in Proc \ {p}, Serve(q) \/ MakeBackup(q) \/ RestoreBackup(q) PROVE FALSE
  BY <1>0, <1>2, ServeStep, BackupStep DEF Elsewhere
<1>3. ASSUME NEW q \in Proc \ {p}, Update(q) PROVE FALSE
  BY <1>3 DEF Update, CheckForUpdates, CreateTemp, Fetch, VerifyBinary, Executable, MoveAside,
     CreateBinary, CopyBinary, Undo, Tidy, Goto, Fail, Fault, Meets
<1>4. ~UNCHANGED vars /\ ~Edit
  BY DEF Edit, vars, commandVars
<1> QED
  BY <1>1, <1>2, <1>3, <1>4 DEF Next

\* One step reports each success.
LEMMA Reporters ==
  ASSUME CommandTypeOK, InstallationInv, [Next]_vars, NEW p \in Proc, at'[p] # at[p]
  PROVE  /\ at'[p] = "backedUp" => ReportBackup(p)
         /\ at'[p] = "restored" => ReportRestore(p)
         /\ at'[p] = "updated" => Tidy(p)
<1> USE DEF CommandTypeOK, Goto, Fail, Fault, Meets
<1> DEFINE reports == {"backedUp", "restored", "updated"}
<1>1. CASE Start(p) \/ Die(p)
  BY <1>1 DEF Start, Launch, FirstStep, Command, Die, Kill
<1>2. CASE Serve(p)
  <2>1. CASE DetectFlags(p) \/ Ensure(p)
    BY <2>1 DEF DetectFlags, Ensure
  <2>2. CASE Load(p) \/ Validate(p)
    BY <2>2 DEF Load, Validate
  <2>3. CASE Save(p) \/ Empty(p) \/ Fill(p)
    BY <2>3 DEF Save, Empty, Fill
  <2>4. CASE WritePIDFile(p) \/ OpenDatabase(p)
    BY <2>4 DEF WritePIDFile, OpenDatabase
  <2>5. CASE ServeAndWrite(p) \/ StopServing(p)
    BY <2>5 DEF ServeAndWrite, StopServing, commandVars
  <2> QED
    BY <1>2, <2>1, <2>2, <2>3, <2>4, <2>5 DEF Serve
<1>3. CASE MakeBackup(p)
  BY <1>3 DEF MakeBackup, CreateTar, ListFiles, WalkFile, CloseTar, Encrypt, Seal, cleanOldBackups,
     ReportBackup
<1>4. CASE RestoreBackup(p)
  BY <1>4 DEF RestoreBackup, ChooseBackup, Decrypt, WriteDec, OpenDec, ExtractFile, CopyFile,
     ReportRestore
<1>5. CASE Update(p)
  BY <1>5 DEF Update, CheckForUpdates, CreateTemp, Fetch, VerifyBinary, Executable, MoveAside,
     CreateBinary, CopyBinary, Undo, Tidy
<1> QED
  BY <1>1, <1>2, <1>3, <1>4, <1>5, Moves

\* The backup of one that met nobody and lost nothing holds the data, unless a
\* later one has made it one to clean.
LEMMA BackupReports ==
  ASSUME BackupTypeOK, ArchiveInv, NEW p \in Proc, ReportBackup(p),
         p \notin clash \cup stirred \cup lost,
         \A s \in Stamp : enc[s] # None => s <= stamp[p]
  PROVE  enc'[stamp[p]] = [files |-> data', whole |-> TRUE]
<1>1. at[p] = "unlink" /\ UNCHANGED <<enc, data>>
  BY DEF ReportBackup
<1>2. stamp[p] \in Nat /\ \A s \in Stamp : s \in Nat
  BY BackupAssumption DEF BackupTypeOK, Stamp
<1>3. enc[stamp[p]] # None
  BY <1>1, <1>2 DEF ArchiveInv, LastInv
<1>4. enc[stamp[p]] = Snapshot
  BY <1>1, <1>3 DEF ArchiveInv, BackupWork
<1> QED
  BY <1>1, <1>4 DEF Snapshot

LEMMA RestoreReports ==
  ASSUME CommandTypeOK, ArchiveInv, NEW p \in Proc, ReportRestore(p), p \notin clash \cup stirred,
         at'[p] = "restored"
  PROVE  /\ enc[stamp[p]] \in {None, got[p]}
         /\ got[p].whole
         /\ \A f \in File : got[p].files[f] \in {None, data'[f]}
<1>1. at[p] = "extract" /\ todo[p] = {} /\ data' = data
  BY DEF ReportRestore
<1>2. got[p].whole
  BY DEF ReportRestore, Goto, CommandTypeOK
<1> QED
  BY <1>1, <1>2 DEF ArchiveInv, RestoreWork

LEMMA UpdateReports ==
  ASSUME InstallationInv, ReleaseInv, NEW p \in Proc, Tidy(p), p \notin together
  PROVE  Works(target[p])' /\ code'[bin'[target[p]]] = release[p]
<1>0. UpdaterTypeOK
  BY DEF InstallationInv
<1>1. at[p] = "tidy" /\ UNCHANGED <<code, target>>
  BY DEF Tidy
<1>2. bin[target[p]] = fd[p] /\ code[fd[p]] = release[p]
  BY <1>1 DEF ReleaseInv, UpdateWork
<1>3. target[p] \in Name /\ fd[p] \in Binary /\ release[p] \in Version
  BY <1>0 DEF UpdaterTypeOK
<1>4. bin'[target[p]] = fd[p]
  <2>1. target[p] + 1 # target[p]
    BY <1>3, UpdaterAssumption DEF Name
  <2>2. bin' = [bin EXCEPT ![target[p] + 1] = None] \/ bin' = bin
    BY DEF Tidy
  <2> QED
    BY <1>0, <1>2, <1>3, <2>1, <2>2 DEF UpdaterTypeOK
<1> QED
  BY <1>1, <1>2, <1>3, <1>4, UpdaterAssumption DEF Works

-----------------------------------------------------------------------------
(* Failures. *)

\* Adding a last name to a path of one, and to one of three.
LEMMA LongerPaths ==
  ASSUME NEW a, NEW b, NEW c, NEW d
  PROVE  <<a>> \o <<d>> = <<a, d>> /\ <<a, b, c>> \o <<d>> = <<a, b, c, d>>
<1> DEFINE A == {a, b, c, d}
<1>0. a \in A /\ b \in A /\ c \in A /\ d \in A
  OBVIOUS
<1> HIDE DEF A
<1>1. <<a>> \in Seq(A) /\ <<d>> \in Seq(A) /\ <<a, b, c>> \in Seq(A)
      /\ <<a, d>> \in Seq(A) /\ <<a, b, c, d>> \in Seq(A)
  BY <1>0
<1>2. Len(<<a>> \o <<d>>) = 2 /\ \A i \in 1..2 : (<<a>> \o <<d>>)[i] = <<a, d>>[i]
  BY <1>0, <1>1
<1>3. Len(<<a, b, c>> \o <<d>>) = 4
      /\ \A i \in 1..4 : (<<a, b, c>> \o <<d>>)[i] = <<a, b, c, d>>[i]
  BY <1>0, <1>1
<1>4. <<a>> \o <<d>> \in Seq(A) /\ <<a, b, c>> \o <<d>> \in Seq(A)
  BY <1>1
<1>5. <<a>> \o <<d>> = <<a, d>>
  BY <1>1, <1>2, <1>4, SeqEqual
<1>6. <<a, b, c>> \o <<d>> = <<a, b, c, d>>
  BY <1>1, <1>3, <1>4, SeqEqual
<1> QED
  BY <1>5, <1>6

\* In every table that is used, the database's directory is in the data's.
LEMMA DatabaseIsInData ==
  ASSUME host \in Host, NEW s \in Setting, s.database = <<>>
  PROVE  PathsOf(s).DB = Database(PathsOf(s))
<1> DEFINE o == [NoOverrides EXCEPT !.data = s.data]
           held == {"Config", "Data", "Cache", "Log", "Backup", "DB", "PID", "SSL", "Security"}
           Sound(p) == DOMAIN p = held /\ p.DB = p.Data \o <<"db">>
           own == {linuxPrivilegedPaths, linuxUserPaths, darwinPrivilegedPaths,
                   bsdPrivilegedPaths, windowsUserPaths, containerPaths}
<1>1. Sound(linuxPrivilegedPaths)
  BY LongerPaths DEF linuxPrivilegedPaths, Table
<1>2. Sound(linuxUserPaths)
  BY DEF linuxUserPaths, Table
<1>3. Sound(darwinPrivilegedPaths)
  BY DEF darwinPrivilegedPaths, Table
<1>4. Sound(bsdPrivilegedPaths)
  BY DEF bsdPrivilegedPaths, Table
<1>5. Sound(windowsUserPaths)
  BY DEF windowsUserPaths, Table
<1>6. Sound(containerPaths)
  BY LongerPaths DEF containerPaths, Table
<1>7. ASSUME NEW p, Sound(p) PROVE Sound(Override(p, o))
  BY <1>7 DEF Override, Given, NoOverrides
<1> HIDE DEF Sound
<1>8. \A p \in own : Sound(Override(p, o))
  BY <1>1, <1>2, <1>3, <1>4, <1>5, <1>6, <1>7
<1>9. \E p \in own : Detect(host, s.root, o) = Override(p, o)
  <2>1. host.container \in BOOLEAN /\ host.os \in {"linux", "darwin", "bsd", "windows"}
    BY DEF Host
  <2>2. CASE host.container = TRUE
    BY <2>2 DEF Detect
  <2>3. CASE host.container = FALSE /\ host.os = "windows"
    BY <2>3 DEF Detect, isRunningAsRoot
  <2>4. CASE host.container = FALSE /\ host.os # "windows"
    BY <2>1, <2>4 DEF Detect, darwinUserPaths, bsdUserPaths
  <2> QED
    BY <2>1, <2>2, <2>3, <2>4
<1>10. Sound(Detect(host, s.root, o))
  BY <1>8, <1>9
<1> QED
  BY <1>10 DEF PathsOf, Database, Sound

\* The invariant of the starts.
StartInv == YmlInv /\ \A p \in Proc : ServeWork(p)

\* A step that leaves the settings and the modes of the starts alone.
LEMMA OthersKeepStarts ==
  ASSUME StartInv, NEW p \in Proc,
         \A q \in Proc \ {p} : at'[q] = at[q] /\ with'[q] = with[q] /\ mode'[q] = mode[q],
         made \subseteq made', host' = host, edited => edited',
         YmlInv', ServeWork(p)'
  PROVE  StartInv'
<1>1. ASSUME NEW q \in Proc \ {p} PROVE ServeWork(q)'
  <2>1. PathsOf(with[q])' = PathsOf(with[q])
    BY DEF PathsOf
  <2> QED
    BY <2>1 DEF StartInv, ServeWork
<1> QED
  BY <1>1 DEF StartInv

\* A start that Load has taken to Validate has a mode that is one, unless an
\* operator wrote another or its setting has a short name.
LEMMA LoadedMode ==
  ASSUME NEW s, NEW m, DetectMode(s) # "invalid", edited \/ Validates(m)
  PROVE  \/ Validates(OrEnv(OrEnv(s.modeFlag, s.modeEnv), m)) \/ edited
         \/ OrEnv(s.modeFlag, s.modeEnv) \in {"prod", "dev"}
BY DEF DetectMode, Validates, OrEnv

\* Ensure makes the directory in which the database is opened.
LEMMA EnsureMakesDatabase ==
  ASSUME host \in Host, NEW s \in Setting, s.database = <<>>
  PROVE  LET dirs == Ensured(PathsOf(s))
         IN  Database(PathsOf(s)) \in UNION {MkdirAll(dirs[i]) : i \in 1..Len(dirs)}
<1> DEFINE d == Ensured(PathsOf(s))
<1>1. PathsOf(s) \in Tables
  BY SettingPaths
<1>2. d[5] = PathsOf(s).DB /\ Len(d) = 12 /\ 5 \in 1..Len(d)
  BY DEF Ensured
<1>3. PathsOf(s).DB = Database(PathsOf(s))
  BY DatabaseIsInData
<1>4. /\ PathsOf(s).DB = PathsOf(s).Data \o <<"db">>
      /\ PathsOf(s).Data \in Path /\ PathsOf(s).DB \in Path
  BY <1>1, <1>3 DEF Database, Tables
<1>5. Len(PathsOf(s).DB) \in 1..Len(PathsOf(s).DB)
  <2>1. <<"db">> \in Path /\ Len(<<"db">>) = 1
    BY DEF Path, PathName
  <2> QED
    BY <1>4, <2>1 DEF Path
<1>6. PathsOf(s).DB \in MkdirAll(PathsOf(s).DB)
  BY <1>4, <1>5 DEF MkdirAll, Path
<1> QED
  BY <1>2, <1>3, <1>6

LEMMA ServeStartsStep ==
  ASSUME TypeOK, StartInv, NEW p \in Proc, Serve(p)
  PROVE  StartInv'
<1> USE DEF Goto, Fail, Fault, ServeSteps
<1>0. /\ CommandTypeOK /\ StartupTypeOK /\ host \in Host
      /\ DOMAIN at = Proc /\ DOMAIN with = Proc /\ DOMAIN mode = Proc
      /\ with[p] \in Setting
  BY DEF TypeOK, CommandTypeOK, StartupTypeOK, BackupTypeOK
<1>1. /\ \A q \in Proc \ {p} : at'[q] = at[q] /\ with'[q] = with[q] /\ mode'[q] = mode[q]
      /\ made \subseteq made' /\ host' = host /\ edited' = edited
  <2>1. CASE DetectFlags(p) \/ Ensure(p)
    BY <1>0, <2>1 DEF DetectFlags, Ensure, startupVars, backupVars
  <2>2. CASE Load(p) \/ Validate(p)
    BY <1>0, <2>2 DEF Load, Validate, startupVars, backupVars
  <2>3. CASE Save(p) \/ Empty(p) \/ Fill(p)
    BY <1>0, <2>3 DEF Save, Empty, Fill, startupVars, backupVars
  <2>4. CASE WritePIDFile(p) \/ OpenDatabase(p)
    BY <1>0, <2>4 DEF WritePIDFile, OpenDatabase, startupVars, backupVars
  <2>5. CASE ServeAndWrite(p) \/ StopServing(p)
    BY <1>0, <2>5 DEF ServeAndWrite, StopServing, commandVars, startupVars, backupVars
  <2> QED
    BY <2>1, <2>2, <2>3, <2>4, <2>5 DEF Serve
<1>a. YmlInv /\ ServeWork(p)
  BY DEF StartInv
<1>b. (with[p])' = with[p] => (PathsOf(with[p]))' = PathsOf(with[p])
  BY <1>1 DEF PathsOf
<1>2. YmlInv' /\ ServeWork(p)'
  <2>1. CASE DetectFlags(p)
    BY <1>0, <1>a, <2>1 DEF DetectFlags, YmlInv, ServeWork
  <2>2. CASE Ensure(p)
    <3>1. at'[p] = "load" /\ with[p].database = <<>> => Database(PathsOf(with[p])) \in made'
      BY <1>0, <2>2, EnsureMakesDatabase DEF Ensure
    <3> QED
      BY <1>0, <1>1, <1>a, <1>b, <2>2, <3>1 DEF Ensure, startupVars, YmlInv, ServeWork
  <2>3. CASE Load(p)
    <3>1. at'[p] = "validate" =>
            \E m \in {DefaultMode, yml} :
              /\ mode'[p] = OrEnv(OrEnv(with[p].modeFlag, with[p].modeEnv), m)
              /\ edited \/ Validates(m)
      BY <1>0, <1>a, <2>3 DEF Load, YmlInv, Validates, DefaultMode
    <3> QED
      BY <1>0, <1>1, <1>a, <1>b, <2>3, <3>1, LoadedMode DEF Load, YmlInv, ServeWork, backupVars
  <2>4. CASE Validate(p)
    BY <1>0, <1>a, <1>b, <2>4 DEF Validate, YmlInv, ServeWork, startupVars, backupVars
  <2>5. CASE Save(p)
    BY <1>0, <1>a, <1>b, <2>5 DEF Save, YmlInv, ServeWork, startupVars, backupVars
  <2>a. CASE Empty(p)
    BY <1>0, <1>a, <1>b, <2>a DEF Empty, YmlInv, ServeWork, backupVars
  <2>6. CASE Fill(p)
    BY <1>0, <1>a, <1>b, <2>6 DEF Fill, YmlInv, ServeWork, backupVars
  <2>7. CASE WritePIDFile(p) \/ OpenDatabase(p)
    BY <1>0, <1>a, <1>b, <2>7 DEF WritePIDFile, OpenDatabase, YmlInv, ServeWork, startupVars, backupVars
  <2>8. CASE ServeAndWrite(p) \/ StopServing(p)
    BY <1>0, <1>a, <1>b, <2>8
    DEF ServeAndWrite, StopServing, YmlInv, ServeWork, commandVars, startupVars, backupVars
  <2> QED
    BY <2>1, <2>2, <2>3, <2>4, <2>5, <2>a, <2>6, <2>7, <2>8 DEF Serve
<1> QED
  BY <1>1, <1>2, OthersKeepStarts

LEMMA StartsStep ==
  ASSUME TypeOK, InstallationInv, PlacesInv, StartInv, [Next]_vars
  PROVE  StartInv'
<1> USE DEF ServeSteps
<1>0. CommandTypeOK /\ DOMAIN at = Proc
  BY DEF TypeOK, CommandTypeOK
<1>a. StepsInv
  BY DEF InstallationInv
<1>b. ASSUME NEW p \in Proc, UNCHANGED startupVars, \A q \in Proc \ {p} : at'[q] = at[q],
             made \subseteq made', host' = host, at'[p] \notin ServeSteps \ {"flags"}
      PROVE  StartInv'
  <2>1. YmlInv' /\ ServeWork(p)'
    BY <1>b DEF StartInv, YmlInv, ServeWork, startupVars
  <2> QED
    BY <1>b, <2>1, OthersKeepStarts DEF startupVars
<1>1. CASE UNCHANGED vars
  <2>1. \A s : PathsOf(s)' = PathsOf(s)
    BY <1>1 DEF vars, backupVars, PathsOf
  <2> QED
    BY <1>1, <2>1 DEF vars, commandVars, startupVars, backupVars, StartInv, YmlInv, ServeWork
<1>2. ASSUME NEW p \in Proc, Start(p) PROVE StartInv'
  <2>1. (\A q \in Proc \ {p} : at'[q] = at[q]) /\ at'[p] \notin ServeSteps \ {"flags"}
    BY <1>0, <1>2 DEF Start, Launch, FirstStep, Command
  <2> QED
    BY <1>b, <1>2, <2>1 DEF Start, backupVars
<1>3. ASSUME NEW p \in Proc, Serve(p) PROVE StartInv'
  BY <1>3, ServeStartsStep
<1>4. ASSUME NEW p \in Proc, UNCHANGED startupVars, MakeBackup(p) PROVE StartInv'
  <2>1. /\ \A q \in Proc \ {p} : at'[q] = at[q]
        /\ at'[p] \notin ServeSteps /\ made \subseteq made' /\ host' = host
    BY <1>0, <1>4 DEF MakeBackup, CreateTar, ListFiles, WalkFile, CloseTar, Encrypt, Seal,
       cleanOldBackups, ReportBackup, Goto, Fail, Fault, Meets
  <2> QED
    BY <1>b, <1>4, <2>1
<1>5. ASSUME NEW p \in Proc, UNCHANGED startupVars, RestoreBackup(p) PROVE StartInv'
  <2>1. /\ \A q \in Proc \ {p} : at'[q] = at[q]
        /\ at'[p] \notin ServeSteps /\ made \subseteq made' /\ host' = host
    BY <1>0, <1>5 DEF RestoreBackup, ChooseBackup, Decrypt, WriteDec, OpenDec, ExtractFile,
       CopyFile, ReportRestore, Goto, Fail, Fault, Meets
  <2> QED
    BY <1>b, <1>5, <2>1
<1>6. ASSUME NEW p \in Proc, UNCHANGED <<startupVars, backupVars>>, Update(p) PROVE StartInv'
  <2>1. (\A q \in Proc \ {p} : at'[q] = at[q]) /\ at'[p] \notin ServeSteps
    BY <1>0, <1>6 DEF Update, CheckForUpdates, CreateTemp, Fetch, VerifyBinary, Executable, MoveAside,
       CreateBinary, CopyBinary, Undo, Tidy, Goto, Fail, Fault, Meets
  <2> QED
    BY <1>b, <1>6, <2>1 DEF backupVars
<1>7. ASSUME NEW p \in Proc, Die(p) PROVE StartInv'
  <2>1. (\A q \in Proc \ {p} : at'[q] = at[q]) /\ at'[p] \notin ServeSteps
    BY <1>0, <1>7 DEF Die, Kill, Goto
  <2> QED
    BY <1>b, <1>7, <2>1 DEF Die, backupVars
<1>8. CASE Edit
  <2>1. \A s : PathsOf(s)' = PathsOf(s)
    BY <1>8 DEF Edit, backupVars, PathsOf
  <2> QED
    BY <1>8, <2>1 DEF Edit, commandVars, backupVars, StartInv, YmlInv, ServeWork
<1> QED
  BY <1>1, <1>2, <1>3, <1>4, <1>5, <1>6, <1>7, <1>8 DEF Next

LEMMA StartsStart == ASSUME Init PROVE StartInv
BY DEF Init, CommandInit, StartupInit, StartInv, YmlInv, ServeWork, ServeSteps

LEMMA WithinAgrees ==
  ASSUME NEW A, NEW d \in Seq(A), NEW e \in Seq(A), Within(d, e), NEW i \in 1..Len(e)
  PROVE  d[i] = e[i]
<1>1. SubSeq(d, 1, Len(e))[i] = d[i]
  BY DEF Within
<1> QED
  BY <1>1 DEF Within

\* Only in a container are the backups among the data.
LEMMA BackupsAreElsewhere ==
  ASSUME host \in Host, Within(Default.Backup, Default.Data)
  PROVE  host.container
<1> SUFFICES ASSUME host.container = FALSE PROVE FALSE
  BY DEF Host
<1> DEFINE Apart(p) == ~Within(p.Backup, p.Data)
           own == {linuxPrivilegedPaths, darwinPrivilegedPaths, bsdPrivilegedPaths, windowsUserPaths}
<1>a. ASSUME NEW a, NEW b, NEW c, NEW d, b # d PROVE ~Within(<<a, b, c>>, <<a, d, c>>)
  <2> DEFINE A == {a, b, c, d}
             r == <<a, b, c>>
             s == <<a, d, c>>
  <2>1. r \in Seq(A) /\ s \in Seq(A) /\ r[2] = b /\ s[2] = d /\ 2 \in 1..Len(s)
    OBVIOUS
  <2> HIDE DEF A, r, s
  <2>2. ~Within(r, s)
    BY <1>a, <2>1, WithinAgrees
  <2> QED
    BY <2>2 DEF r, s
<1>c. ASSUME NEW a, NEW b, NEW c, NEW d, d # c PROVE ~Within(<<a, b, c, d>>, <<a, b, d>>)
  <2> DEFINE A == {a, b, c, d}
             r == <<a, b, c, d>>
             s == <<a, b, d>>
  <2>1. r \in Seq(A) /\ s \in Seq(A) /\ r[3] = c /\ s[3] = d /\ 3 \in 1..Len(s)
    OBVIOUS
  <2> HIDE DEF A, r, s
  <2>2. ~Within(r, s)
    BY <1>c, <2>1, WithinAgrees
  <2> QED
    BY <2>2 DEF r, s
<1>b. ASSUME NEW p, Apart(p), DOMAIN p = {"Config", "Data", "Cache", "Log", "Backup", "DB", "PID", "SSL", "Security"}
      PROVE  Apart(Override(p, NoOverrides))
  BY <1>b DEF Override, Given, NoOverrides
<1>1. Apart(Override(linuxPrivilegedPaths, NoOverrides))
  BY <1>a, <1>b DEF linuxPrivilegedPaths, Table
<1>2. Apart(Override(darwinPrivilegedPaths, NoOverrides))
  <2>1. ~Within(<<"var", "backups", App>>, <<"usr", "local", "var", App>>)
    BY DEF Within
  <2> QED
    BY <1>b, <2>1 DEF darwinPrivilegedPaths, Table
<1>3. Apart(Override(bsdPrivilegedPaths, NoOverrides))
  BY <1>a, <1>b DEF bsdPrivilegedPaths, Table
<1>4. Apart(Override(windowsUserPaths, NoOverrides))
  BY <1>b, <1>c DEF windowsUserPaths, Table, App
<1>5. \E p \in own : Default = Override(p, NoOverrides)
  <2>1. host.os \in {"linux", "darwin", "bsd", "windows"}
    BY DEF Host
  <2>2. isRunningAsRoot(host.os, TRUE) <=> host.os # "windows"
    BY DEF isRunningAsRoot
  <2> QED
    BY <2>1, <2>2 DEF Default, Detect
<1> QED
  BY <1>1, <1>2, <1>3, <1>4, <1>5

LEMMA ServeFailsForAReason ==
  ASSUME TypeOK, PlacesInv, StartInv, NEW p \in Proc, Serve(p),
         at[p] # "failed", at'[p] = "failed"
  PROVE  p \in hurt' \/ Reason(p)
<1> USE DEF Goto, Fail, Fault, ServeSteps
<1>0. /\ CommandTypeOK /\ StartupTypeOK /\ DOMAIN at = Proc /\ DOMAIN with = Proc
      /\ p \in hurt => p \in hurt'
  BY DEF TypeOK, CommandTypeOK, StartupTypeOK, Serve, DetectFlags, Ensure, Load, Validate, Save,
     Empty, Fill, WritePIDFile, OpenDatabase, ServeAndWrite, StopServing, commandVars
<1> DEFINE s == with'[p]
           why == \/ s.modeFlag \notin {"", "production", "development"}
                  \/ s.modeEnv \notin {"", "production", "development"}
                  \/ s.debugEnv # "" \/ s.database # <<>>
                  \/ edited \/ yml = Torn
<1>a. ServeWork(p)
  BY DEF StartInv
<1>1. cmd[p] = "serve"
  BY DEF PlacesInv, Serve, DetectFlags, Ensure, Load, Validate, Save, Empty, Fill, WritePIDFile,
     OpenDatabase, ServeAndWrite, StopServing
<1>2. why \/ p \in hurt'
  <2>1. CASE DetectFlags(p)
    BY <1>0, <2>1 DEF DetectFlags, DetectMode, DebugIsValid, OrEnv
  <2>2. CASE Ensure(p)
    BY <1>0, <2>2 DEF Ensure
  <2>3. CASE Load(p)
    BY <1>0, <2>3 DEF Load
  <2>4. CASE Validate(p)
    BY <1>0, <1>a, <2>4 DEF Validate, ServeWork, OrEnv, startupVars
  <2>5. CASE Save(p) \/ Empty(p) \/ Fill(p) \/ WritePIDFile(p)
    BY <1>0, <2>5 DEF Save, Empty, Fill, WritePIDFile
  <2>6. CASE OpenDatabase(p)
    BY <1>0, <1>a, <2>6 DEF OpenDatabase, ServeWork, startupVars
  <2>7. CASE ServeAndWrite(p) \/ StopServing(p)
    BY <1>0, <2>7 DEF ServeAndWrite, StopServing, commandVars
  <2> QED
    BY <2>1, <2>2, <2>3, <2>4, <2>5, <2>6, <2>7 DEF Serve
<1> QED
  BY <1>1, <1>2 DEF Reason

LEMMA BackupFailsForAReason ==
  ASSUME TypeOK, PlacesInv, ArchiveInv, NEW p \in Proc, MakeBackup(p),
         at[p] # "failed", at'[p] = "failed"
  PROVE  p \in hurt' \cup clash \/ Reason(p)
<1> USE DEF Goto, Fail, Fault, BackupSteps
<1>0. DOMAIN at = Proc /\ host \in Host /\ BackupWork(p) /\ enc \in [Stamp -> Archive \cup {None, Torn}]
  BY DEF TypeOK, CommandTypeOK, BackupTypeOK, ArchiveInv
<1>1. cmd[p] = "backup"
  BY DEF PlacesInv, MakeBackup, CreateTar, ListFiles, WalkFile, CloseTar, Encrypt, Seal,
     cleanOldBackups, ReportBackup
<1>2. \/ p \in hurt' \cup clash
      \/ Default.Data \notin made \/ host.container \/ p \in stirred
  <2>1. CASE CreateTar(p)
    BY <1>0, <2>1 DEF CreateTar, Meets
  <2>2. CASE ListFiles(p)
    BY <1>0, <2>2, BackupsAreElsewhere DEF ListFiles, There
  <2>3. CASE WalkFile(p)
    <3>1. todo[p] \subseteq File
      BY DEF TypeOK, BackupTypeOK
    <3>2. p \in stirred \/ p \in hurt'
      BY <1>0, <2>3, <3>1 DEF WalkFile, BackupWork
    <3> QED
      BY <3>2
  <2>4. CASE Encrypt(p)
    BY <1>0, <2>4 DEF Encrypt, BackupWork
  <2>5. CASE CloseTar(p) \/ Seal(p) \/ cleanOldBackups(p) \/ ReportBackup(p)
    BY <1>0, <2>5 DEF CloseTar, Seal, cleanOldBackups, ReportBackup
  <2> QED
    BY <2>1, <2>2, <2>3, <2>4, <2>5 DEF MakeBackup
<1> QED
  BY <1>1, <1>2 DEF Reason

LEMMA RestoreFailsForAReason ==
  ASSUME TypeOK, PlacesInv, ArchiveInv, NEW p \in Proc, RestoreBackup(p),
         at[p] # "failed", at'[p] = "failed"
  PROVE  p \in hurt' \cup clash \/ Reason(p)
<1> USE DEF Goto, Fail, Fault, RestoreSteps
<1>0. DOMAIN at = Proc /\ RestoreWork(p)
  BY DEF TypeOK, CommandTypeOK, ArchiveInv
<1>1. cmd[p] = "restore"
  BY DEF PlacesInv, RestoreBackup, ChooseBackup, Decrypt, WriteDec, OpenDec, ExtractFile,
     CopyFile, ReportRestore
<1>2. \/ p \in hurt' \cup clash
      \/ enc[stamp[p]] \in {None, Torn} \/ ~got[p].whole
  <2>1. CASE ChooseBackup(p) \/ WriteDec(p)
    BY <1>0, <2>1 DEF ChooseBackup, WriteDec, Meets
  <2>2. CASE Decrypt(p)
    BY <1>0, <2>2 DEF Decrypt
  <2>3. CASE OpenDec(p)
    BY <1>0, <2>3 DEF OpenDec, RestoreWork
  <2>4. CASE ExtractFile(p) \/ CopyFile(p)
    BY <1>0, <2>4 DEF ExtractFile, CopyFile
  <2>5. CASE ReportRestore(p)
    BY <1>0, <2>5 DEF ReportRestore
  <2> QED
    BY <2>1, <2>2, <2>3, <2>4, <2>5 DEF RestoreBackup
<1> QED
  BY <1>1, <1>2 DEF Reason

LEMMA UpdateFailsForAReason ==
  ASSUME TypeOK, PlacesInv, ReleaseInv, NEW p \in Proc, Update(p),
         at[p] # "failed", at'[p] = "failed"
  PROVE  p \in hurt' \/ Reason(p)
<1> USE DEF Goto, Fail, Fault, Steps, Before, After
<1>0. DOMAIN at = Proc /\ UpdateWork(p) /\ UpdatersInv
  BY DEF TypeOK, CommandTypeOK, ReleaseInv
<1>1. cmd[p] = "update"
  BY DEF PlacesInv, Update, CheckForUpdates, CreateTemp, Fetch, VerifyBinary, Executable, MoveAside,
     CreateBinary, CopyBinary, Undo, Tidy
<1>2. SUFFICES ASSUME \A q \in Proc \ {p} : cmd[q] # "update"
               PROVE  p \in hurt' \/ temp[second[p]] \notin Version
  BY <1>1 DEF Reason
<1>3. p \notin together
  BY <1>0, <1>2 DEF UpdatersInv
<1>4. CASE CheckForUpdates(p) \/ CreateTemp(p)
  BY <1>0, <1>4 DEF CheckForUpdates, CreateTemp, Meets
<1>5. CASE Fetch(p) \/ VerifyBinary(p)
  BY <1>0, <1>5 DEF Fetch, VerifyBinary
<1>6. CASE MoveAside(p)
  <2>1. target[p] = 0 /\ bin[0] = Installed /\ Installed # None
    <3>1. \A q \in Proc : cmd[q] = "update" => at[q] \in Before
      BY <1>2, <1>6 DEF MoveAside
    <3>2. 0 \in Name /\ Installed # None
      BY UpdaterAssumption DEF Name, Binary
    <3> QED
      BY <1>0, <1>6, <3>1, <3>2 DEF UpdatersInv, MoveAside
  <2> QED
    BY <1>0, <1>6, <2>1 DEF MoveAside
<1>a. CASE Executable(p)
  BY <1>0, <1>a DEF Executable
<1>7. CASE CreateBinary(p) \/ CopyBinary(p)
  BY <1>0, <1>7 DEF CreateBinary, CopyBinary
<1>8. CASE Undo(p)
  BY <1>0, <1>3, <1>8 DEF Undo, UpdateWork
<1>9. CASE Tidy(p)
  BY <1>0, <1>9 DEF Tidy
<1> QED
  BY <1>4, <1>5, <1>6, <1>a, <1>7, <1>8, <1>9 DEF Update

\* The types and the five invariants, as one.
WholeInv == TypeOK /\ InstallationInv /\ PlacesInv /\ ArchiveInv /\ ReleaseInv /\ StartInv

LEMMA WholeInvariance == Spec => []WholeInv
<1>1. Init => WholeInv
  BY InitTypes, ArchivesStart, ReleasesStart, StartsStart, InstallationStart DEF WholeInv, Init
<1>2. WholeInv /\ [Next]_vars => WholeInv'
  <2> SUFFICES ASSUME WholeInv, [Next]_vars PROVE WholeInv'
    OBVIOUS
  <2>1. CommandTypeOK /\ InstallationInv'
    BY InstallationStep DEF WholeInv, TypeOK
  <2>2. UpdaterTypeOK'
    BY <2>1 DEF InstallationInv
  <2>3. TypeOK'
    BY <2>2, TypesStep DEF WholeInv, TypeOK
  <2> QED
    BY <2>1, <2>3, PlacesStep, ArchivesStep, ReleasesStep, StartsStep DEF WholeInv
<1> QED
  BY <1>1, <1>2, PTL DEF Spec

\* No success is reported in vain: the backup is there and holds the data, what
\* the backup holds is restored, and the release is where the binary was, on any
\* number of processes, backups and files (ReportBackup, ReportRestore, Tidy).
THEOREM ReportsHold == Spec => ReportsAreTrue
<1>1. WholeInv /\ [Next]_vars =>
        [\A p \in Proc : at'[p] # at[p] /\ p \notin clash \cup stirred =>
       /\ at'[p] = "backedUp" /\ p \notin lost /\ (\A s \in Stamp : enc[s] # None => s <= stamp[p])
            => enc'[stamp[p]] = [files |-> data', whole |-> TRUE]
       /\ at'[p] = "restored"
            => /\ enc[stamp[p]] \in {None, got[p]}
               /\ got[p].whole
               /\ \A f \in File : got[p].files[f] \in {None, data'[f]}
       /\ at'[p] = "updated" /\ p \notin together
            => Works(target[p])' /\ code'[bin'[target[p]]] = release[p]]_vars
  BY Reporters, BackupReports, RestoreReports, UpdateReports DEF WholeInv, TypeOK
<1> QED
  BY <1>1, WholeInvariance, PTL DEF Spec, ReportsAreTrue

\* No command fails for nothing, whatever the commands before it did; a start
\* without settings never does unless server.yml was edited or is half written
\* (what main takes for an error, in all four commands).
THEOREM FailuresHaveReasons == Spec => FailsForAReason
<1>1. WholeInv /\ [Next]_vars =>
        [\A p \in Proc : at[p] # "failed" /\ at'[p] = "failed" =>
           p \in hurt' \cup clash \/ Reason(p)]_vars
  <2> SUFFICES ASSUME WholeInv, [Next]_vars, NEW p \in Proc, at[p] # "failed", at'[p] = "failed"
               PROVE  p \in hurt' \cup clash \/ Reason(p)
    OBVIOUS
  <2>0. TypeOK /\ CommandTypeOK
    BY DEF WholeInv, TypeOK
  <2>1. CASE Start(p) \/ Die(p)
    BY <2>0, <2>1 DEF Start, Launch, FirstStep, Command, Die, Kill, Goto, CommandTypeOK
  <2>2. CASE Serve(p)
    BY <2>0, <2>2, ServeFailsForAReason DEF WholeInv
  <2>3. CASE MakeBackup(p)
    BY <2>0, <2>3, BackupFailsForAReason DEF WholeInv
  <2>4. CASE RestoreBackup(p)
    BY <2>0, <2>4, RestoreFailsForAReason DEF WholeInv
  <2>5. CASE Update(p)
    BY <2>0, <2>5, UpdateFailsForAReason DEF WholeInv
  <2> QED
    BY <2>0, <2>1, <2>2, <2>3, <2>4, <2>5, Moves DEF WholeInv
<1> QED
  BY <1>1, WholeInvariance, PTL DEF Spec, FailsForAReason

-----------------------------------------------------------------------------
(* Two updaters that work together.                                        *)

\* A process has not been written before it is created.
FreshInv ==
  /\ NamesInv
  /\ \A p, q \in Proc : at[p] \in Before \cup {"create", "unborn"} => fd[q] # p

\* Two that are past their checks have met.
MeetInv ==
  \A p, q \in Proc :
    p # q /\ at[p] \in Steps \ {"check"} /\ at[q] \in Steps \ {"check"} =>
      p \in together /\ q \in together

\* Two whose downloads have one name know of it.
OwnTempInv ==
  \A p, q \in Proc :
    p # q /\ second[p] = second[q]
          /\ at[p] \in Steps \ {"check", "download"} /\ at[q] \in Steps \ {"check", "download"} =>
      p \in clash /\ q \in clash

PairInv == FreshInv /\ MeetInv /\ OwnTempInv

\* Whoever runs, runs a version; and what is being written is none, and is not run.
CodeInv ==
  /\ \A p \in Alive : code[exe[p]] \in Version
  /\ \A p \in Proc :
       /\ at[p] = "tidy" => \A q \in Alive : exe[q] # fd[p]
       /\ at[p] = "copy" => code[fd[p]] \notin Version
       /\ at[p] \in {"locate", "backup", "create", "copy"} => temp[second[p]] \in Version

Open == {"create", "copy", "undo"}

\* What an updater leaves, should it be the last to work.
KeepsOne(p) ==
  LET t == target[p]
  IN  /\ at[p] \in Open => \E k \in Name \ {t} : Works(k)
      /\ at[p] = "copy" /\ bin[t] \notin {None, fd[p]} => \E k \in Name \ {t + 1} : Works(k)
      /\ at[p] = "tidy" => \E k \in Name \ {t + 1} : Works(k)

\* The others that have met p have yet to move their binary.
Unmet(p) == \A q \in together \ {p} : at[q] \in Before

\* Then its names are its own.
AloneInv(p) ==
  LET t == target[p]
  IN  /\ at[p] = "create" => bin[t] = None
      /\ at[p] = "copy" => bin[t] = fd[p] /\ fd[p] = p
      /\ at[p] = "undo" => ~Works(t)
      /\ at[p] = "tidy" => bin[t] = fd[p] /\ Works(t)
      /\ at[p] \in Open => bin[t + 1] = exe[p]

\* The name p installs to, and the name it has moved its binary to, are as it
\* left them.
OwnName(p) ==
  /\ at[p] = "create" => bin[target[p]] = None
  /\ at[p] = "copy" => bin[target[p]] = fd[p]
  /\ at[p] = "tidy" => Works(target[p])
OwnBackup(p) == at[p] \in Open => Works(target[p] + 1)

\* Of two that have moved their binaries, one may have moved to the name that
\* the other installs to.
JointInv(p, q) ==
  LET s == target[p]
      t == target[q]
  IN  /\ s # t
      /\ s # t + 1 => OwnName(p)
      /\ t # s + 1 => OwnBackup(p)
      /\ t = s + 1 =>
           /\ at[q] = "create" => bin[t] \in {None, exe[p]}
           /\ at[q] = "copy" => bin[t] \in {None, fd[q]} \/ Works(t)
           /\ at[q] = "tidy" /\ at[p] \in Open => Works(t)
      /\ at[p] = "copy" /\ at[q] = "copy" => fd[p] # fd[q]

TogetherInv ==
  /\ CodeInv
  /\ \E n \in Name : Works(n)
  /\ \A p \in Proc : at[p] \in After => KeepsOne(p) /\ (Unmet(p) => AloneInv(p))
  /\ \A p, q \in Proc : p # q /\ at[p] \in After /\ at[q] \in After => JointInv(p, q)

SurvivalInv == PairInv /\ (Quiet => TogetherInv)

LEMMA SurvivalStart == ASSUME Init PROVE SurvivalInv
<1> USE DEF Init, UpdaterInit, CommandInit
<1>1. 0 \in Name /\ First \in Version
  BY UpdaterAssumption DEF Name, First
<1>2. PairInv
  BY <1>1, UpdaterAssumption
  DEF PairInv, FreshInv, NamesInv, MeetInv, OwnTempInv, Binary, Before, After, Steps
<1>3. \E n \in Name : Works(n)
  BY <1>1, UpdaterAssumption DEF Works, Binary
<1>4. CodeInv
  BY DEF CodeInv, Alive
<1> QED
  BY <1>2, <1>3, <1>4 DEF SurvivalInv, TogetherInv, After

\* One updater beside p that is past its check is the only one.
LEMMA OneOther ==
  ASSUME Quiet, MeetInv, NEW p \in Proc, NEW q \in Proc, p # q,
         at[p] \in Steps \ {"check"}, at[q] \in Steps \ {"check"}
  PROVE  p \in together /\ q \in together /\ \A r \in together : r \in {p, q}
<1>1. p \in together /\ q \in together
  BY DEF MeetInv
<1> QED
  BY <1>1 DEF Quiet

\* Two that share their names so leave a binary each.
LEMMA JointKeeps ==
  \A p, q \in Proc :
    /\ StepsInv /\ UpdaterTypeOK
    /\ at[p] \in After /\ at[q] \in After /\ JointInv(p, q) /\ JointInv(q, p)
    => KeepsOne(p)
<1> SUFFICES ASSUME StepsInv, UpdaterTypeOK, NEW p \in Proc, NEW q \in Proc,
                    at[p] \in After, at[q] \in After, JointInv(p, q), JointInv(q, p)
             PROVE  KeepsOne(p)
  OBVIOUS
<1>1. /\ target[p] \in Nat /\ target[p] + 1 \in Name /\ target[p] \in Name
      /\ target[q] \in Nat /\ target[q] + 1 \in Name /\ target[q] \in Name
  BY UpdaterAssumption DEF StepsInv, UpdaterTypeOK, Name
<1> USE <1>1 DEF JointInv
<1>2. ASSUME at[p] \in Open PROVE \E k \in Name \ {target[p]} : Works(k)
  <2>1. CASE target[q] # target[p] + 1
    BY <1>2, <2>1 DEF OwnBackup
  <2>2. CASE target[q] = target[p] + 1
    BY <1>2, <2>2 DEF OwnBackup, After, Open
  <2> QED
    BY <2>1, <2>2
<1>3. ASSUME at[p] = "copy", bin[target[p]] \notin {None, fd[p]}
      PROVE  \E k \in Name \ {target[p] + 1} : Works(k)
  BY <1>3 DEF OwnName
<1>4. ASSUME at[p] = "tidy" PROVE \E k \in Name \ {target[p] + 1} : Works(k)
  BY <1>4 DEF OwnName, After, Open
<1> QED
  BY <1>2, <1>3, <1>4 DEF KeepsOne

LEMMA JointKeepsNext ==
  (\A p, q \in Proc :
    /\ StepsInv /\ UpdaterTypeOK
    /\ at[p] \in After /\ at[q] \in After /\ JointInv(p, q) /\ JointInv(q, p)
    => KeepsOne(p))'
BY JointKeeps, PTL

-----------------------------------------------------------------------------
(* A step of an updater moves itself, and forgets nothing of what was. *)

UpdateMoves(p) ==
  /\ at[p] \in Steps
  /\ cmd' = cmd /\ DOMAIN at' = Proc
  /\ \A q \in Proc \ {p} : at'[q] = at[q]
  /\ at'[p] \in (Steps \ {"check"}) \cup Over
  /\ exe' = exe /\ together \subseteq together' /\ clash \subseteq clash'
  /\ (nested => nested') /\ (stray => stray')

LEMMA UpdateMovesOne ==
  ASSUME StepsInv, NEW p \in Proc, Update(p)
  PROVE  UpdateMoves(p)
<1> USE DEF StepsInv, UpdateMoves, Goto, Fail, Fault, Steps, Before, After, Over, Success
<1>1. CASE CheckForUpdates(p)
  BY <1>1 DEF CheckForUpdates
<1>2. CASE CreateTemp(p)
  BY <1>2 DEF CreateTemp, Meets
<1>3. CASE Fetch(p)
  BY <1>3 DEF Fetch
<1>4. CASE VerifyBinary(p)
  BY <1>4 DEF VerifyBinary
<1>5. CASE MoveAside(p)
  <2>1. stray => stray'
    BY <1>5, Zenon DEF MoveAside
  <2> QED
    BY <1>5, <2>1 DEF MoveAside
<1>a. CASE Executable(p)
  BY <1>a DEF Executable
<1>6. CASE CreateBinary(p)
  BY <1>6 DEF CreateBinary
<1>7. CASE CopyBinary(p)
  BY <1>7 DEF CopyBinary
<1>8. CASE Undo(p) \/ Tidy(p)
  BY <1>8 DEF Undo, Tidy
<1> QED
  BY <1>1, <1>2, <1>3, <1>4, <1>5, <1>a, <1>6, <1>7, <1>8 DEF Update

LEMMA QuietBefore ==
  ASSUME StepsInv, [Next]_vars, Quiet'
  PROVE  Quiet
<1>0. SUFFICES /\ nested => nested'
               /\ stray => stray'
               /\ together \subseteq together' /\ clash \subseteq clash'
               /\ \A p \in Proc : cmd[p] = "update" => cmd'[p] = "update"
  BY DEF Quiet
<1> USE DEF StepsInv
<1>1. CASE UNCHANGED vars
  BY <1>1 DEF vars, commandVars, updaterVars
<1>2. ASSUME NEW p \in Proc, Start(p) PROVE <1>0!1
  <2>1. /\ stray' = stray /\ together' = together /\ clash' = clash
        /\ \A q \in Proc : cmd[q] = "update" => cmd'[q] = "update"
    BY <1>2 DEF Start, RunBinary, Launch, Steps, Before, After, Over, Success
  <2>2. nested => nested'
    BY <1>2 DEF Start, RunBinary
  <2> QED
    BY <2>1, <2>2
<1>3. ASSUME NEW p \in Proc, UNCHANGED updaterVars,
             Serve(p) \/ MakeBackup(p) \/ RestoreBackup(p)
      PROVE  <1>0!1
  <2>1. cmd' = cmd /\ clash \subseteq clash'
    BY <1>3 DEF Serve, DetectFlags, Ensure, Load, Validate, Save, Empty, Fill, WritePIDFile,
       OpenDatabase, ServeAndWrite, StopServing, commandVars, MakeBackup, CreateTar,
       ListFiles, WalkFile, CloseTar, Encrypt, Seal, cleanOldBackups, ReportBackup,
       RestoreBackup, ChooseBackup, Decrypt, WriteDec, OpenDec, ExtractFile, CopyFile,
       ReportRestore, Goto, Fail, Fault, Meets
  <2> QED
    BY <1>3, <2>1 DEF updaterVars
<1>4. ASSUME NEW p \in Proc, Update(p) PROVE <1>0!1
  BY <1>4, UpdateMovesOne DEF UpdateMoves
<1>5. ASSUME NEW p \in Proc, Die(p) PROVE <1>0!1
  BY <1>5 DEF Die, Kill, Goto, updaterVars
<1>6. CASE Edit /\ UNCHANGED updaterVars
  BY <1>6 DEF Edit, commandVars, updaterVars
<1> QED
  BY <1>1, <1>2, <1>3, <1>4, <1>5, <1>6 DEF Next

-----------------------------------------------------------------------------
(* Whom the updaters meet, and what has a name. *)

\* Whoever is no updater, and whoever is no longer one.
LEMMA PairKeeps ==
  ASSUME StepsInv, PairInv, NEW p \in Proc, at[p] # "unborn",
         \A q \in Proc \ {p} : at'[q] = at[q],
         at'[p] \notin Steps \cup {"unborn"},
         clash \subseteq clash', UNCHANGED updaterVars
  PROVE  PairInv'
<1> USE DEF PairInv, updaterVars, Steps, Before, After
<1>1. NamesInv'
  BY DEF FreshInv, NamesInv
<1>2. FreshInv'
  BY <1>1 DEF FreshInv
<1>3. MeetInv'
  BY DEF MeetInv
<1>4. OwnTempInv'
  BY DEF OwnTempInv
<1> QED
  BY <1>2, <1>3, <1>4

LEMMA PairStart ==
  ASSUME UpdaterTypeOK, StepsInv, PairInv, NEW p \in Proc, Start(p)
  PROVE  PairInv'
<1> USE DEF PairInv, Steps, Before, After, StepsInv
<1>1. /\ \A q \in Proc \ {p} : at'[q] = at[q]
      /\ at[p] = "unborn" /\ at'[p] \notin Steps \ {"check"} /\ at'[p] # "unborn"
      /\ UNCHANGED <<bin, was, fd, second, together, clash>>
  BY DEF Start, Launch, FirstStep, Command, RunBinary
<1>2. \A q \in Proc : exe'[q] = exe[q] \/ \E n \in Name : bin[n] # None /\ exe'[q] = bin[n]
  BY DEF Start, RunBinary, Works, UpdaterTypeOK
<1>3. NamesInv'
  BY <1>1, <1>2 DEF FreshInv, NamesInv
<1>4. FreshInv'
  BY <1>1, <1>3 DEF FreshInv
<1>5. MeetInv' /\ OwnTempInv'
  BY <1>1 DEF MeetInv, OwnTempInv
<1> QED
  BY <1>4, <1>5

\* An updater that renames or creates a binary.
LEMMA UpdateNames ==
  ASSUME UpdaterTypeOK, StepsInv, FreshInv, NEW p \in Proc, Update(p)
  PROVE  FreshInv'
<1> USE UpdaterAssumption
<1>0. /\ UpdateMoves(p) /\ DOMAIN bin = Name /\ DOMAIN was = Binary
      /\ \A q \in Proc : q \in Binary
  BY UpdateMovesOne DEF UpdaterTypeOK, Binary
<1>1. \A q \in Proc : at'[q] \in Before \cup {"create", "unborn"} =>
        at[q] \in Before \cup {"create", "unborn"}
  BY <1>0 DEF UpdateMoves, Update, CheckForUpdates, CreateTemp, Fetch, VerifyBinary, Executable, MoveAside,
     CreateBinary, CopyBinary, Undo, Tidy, Goto, Fail, Fault, Meets, Steps, Before, After,
     Over, Success, StepsInv
<1>2. ASSUME UNCHANGED <<bin, was, fd>> PROVE FreshInv'
  BY <1>0, <1>1, <1>2 DEF FreshInv, NamesInv, UpdateMoves
<1>3. ASSUME NEW n \in Name, NEW m \in Name, n # m, bin[n] # None, Rename(n, m), fd' = fd
      PROVE  FreshInv'
  <2>1. /\ bin'[n] = None /\ bin'[m] = bin[n] /\ was'[bin[n]] = m /\ was[bin[n]] = n
        /\ \A k \in Name \ {n, m} : bin'[k] = bin[k]
        /\ \A b \in Binary \ {bin[n]} : was'[b] = was[b]
    BY <1>0, <1>3 DEF Rename, UpdaterTypeOK, FreshInv, NamesInv
  <2>2. \A k \in Name : bin'[k] # None => was'[bin'[k]] = k
    <3> SUFFICES ASSUME NEW k \in Name \ {n, m}, bin'[k] # None PROVE was'[bin'[k]] = k
      BY <2>1
    <3>1. bin'[k] = bin[k] /\ was[bin[k]] = k /\ bin[k] # bin[n] /\ bin[k] \in Binary
      BY <2>1 DEF FreshInv, NamesInv, UpdaterTypeOK
    <3> QED
      BY <2>1, <3>1
  <2>3. \A q \in Proc, k \in Name : bin'[k] = q => \E j \in Name : bin[j] = q
    BY <1>0, <2>1 DEF Binary
  <2> QED
    BY <1>0, <1>1, <1>3, <2>2, <2>3 DEF FreshInv, NamesInv, UpdateMoves
<1>4. CASE CheckForUpdates(p) \/ CreateTemp(p) \/ Fetch(p) \/ VerifyBinary(p)
               \/ Executable(p) \/ CopyBinary(p)
  BY <1>2, <1>4 DEF CheckForUpdates, CreateTemp, Fetch, VerifyBinary, Executable, CopyBinary
<1>5. CASE MoveAside(p)
  <2>1. target[p] \in Name /\ Depth \in Nat
    BY DEF UpdaterTypeOK
  <2>2. target[p] < Depth => target[p] + 1 \in Name /\ target[p] + 1 # target[p]
    BY <2>1 DEF Name
  <2> QED
    BY <1>2, <1>3, <1>5, <2>1, <2>2 DEF MoveAside
<1>6. CASE Undo(p)
  <2>1. target[p] \in Name /\ target[p] + 1 \in Name /\ target[p] # target[p] + 1
    BY <1>6 DEF Undo, StepsInv, After, UpdaterTypeOK, Name
  <2> QED
    BY <1>2, <1>3, <1>6, <2>1 DEF Undo
<1>7. CASE Tidy(p)
  <2>1. \A k \in Name : bin'[k] = bin[k] \/ bin'[k] = None
    BY <1>0, <1>7 DEF Tidy
  <2>2. was' = was /\ fd' = fd
    BY <1>7 DEF Tidy
  <2> QED
    BY <1>0, <1>1, <2>1, <2>2 DEF FreshInv, NamesInv, UpdateMoves, Binary
<1>8. CASE CreateBinary(p)
  <2>0. CASE UNCHANGED <<bin, was, fd>>
    BY <1>2, <2>0
  <2> SUFFICES ASSUME ~UNCHANGED <<bin, was, fd>> PROVE FreshInv'
    BY <2>0
  <2> DEFINE n == target[p]
             b == IF bin[n] = None THEN p ELSE bin[n]
  <2>1. /\ bin' = [bin EXCEPT ![n] = b] /\ was' = [was EXCEPT ![b] = n]
        /\ fd' = [fd EXCEPT ![p] = b] /\ at'[p] = "copy" /\ at[p] = "create"
    BY <1>8 DEF CreateBinary, Goto, StepsInv
  <2>2. n \in Name /\ b \in Binary /\ b # None
    BY <1>0 DEF UpdaterTypeOK
  <2>3. \A k \in Name \ {n} : bin[k] # b
    BY <2>1, <2>2 DEF FreshInv, NamesInv, Before
  <2> HIDE DEF n
  <2>4. /\ bin'[n] = b /\ \A k \in Name \ {n} : bin'[k] = bin[k]
        /\ was'[b] = n /\ \A c \in Binary \ {b} : was'[c] = was[c]
        /\ \A q \in Proc : fd'[q] = IF q = p THEN b ELSE fd[q]
    BY <1>0, <2>1, <2>2 DEF UpdaterTypeOK
  <2>5. \A k \in Name : bin'[k] # None => was'[bin'[k]] = k
    BY <2>2, <2>3, <2>4 DEF FreshInv, NamesInv, UpdaterTypeOK
  <2>6. \A q \in Proc : at'[q] \in Before \cup {"create", "unborn"} => q # p /\ q # b
    BY <1>1, <2>1, <2>2 DEF FreshInv, NamesInv, Before, n
  <2> QED
    BY <1>0, <1>1, <2>4, <2>5, <2>6 DEF FreshInv, NamesInv, UpdateMoves
<1> QED
  BY <1>4, <1>5, <1>6, <1>7, <1>8 DEF Update

LEMMA UpdateMeets ==
  ASSUME UpdaterTypeOK, StepsInv, PairInv, NEW p \in Proc, Update(p)
  PROVE  PairInv'
<1>0. UpdateMoves(p) /\ \A q \in Proc : at[q] \in Steps => q \in Doing("update")
  BY UpdateMovesOne
  DEF Doing, Alive, StepsInv, Steps, Before, After, Over, Success
<1>1. FreshInv'
  BY UpdateNames DEF PairInv
<1>2. MeetInv'
  <2>1. CASE at[p] # "check"
    BY <1>0, <2>1 DEF PairInv, MeetInv, UpdateMoves, Steps
  <2>2. CASE at[p] = "check"
    <3>1. together' = IF Doing("update") = {p} THEN together ELSE together \cup Doing("update")
      BY <2>2 DEF Update, CheckForUpdates, CreateTemp, Fetch, VerifyBinary, Executable, MoveAside,
         CreateBinary, CopyBinary, Undo, Tidy
    <3>2. p \in Doing("update")
      BY <1>0 DEF UpdateMoves
    <3>3. ASSUME NEW q \in Proc, q # p, at'[q] \in Steps \ {"check"}
          PROVE  p \in together' /\ q \in together'
      BY <1>0, <3>1, <3>2, <3>3 DEF UpdateMoves
    <3> QED
      BY <1>0, <3>3 DEF PairInv, MeetInv, UpdateMoves
  <2> QED
    BY <2>1, <2>2
<1>3. OwnTempInv'
  <2>1. CASE CreateTemp(p)
    <3>1. ASSUME NEW q \in Proc, q # p, second'[q] = second'[p], at'[p] = "fetch",
                 at'[q] \in Steps \ {"check", "download"}
          PROVE  p \in clash' /\ q \in clash'
      <4>1. at'[p] # "failed"
        BY <3>1
      <4>2. PICK s \in Second : Meets(p, Sharing(s), "fetch") /\ second' = [second EXCEPT ![p] = s]
        BY <2>1, <4>1 DEF CreateTemp, Fault, StepsInv
      <4>3. second[q] = s /\ at[q] = at'[q]
        BY <1>0, <3>1, <4>2 DEF UpdaterTypeOK, UpdateMoves
      <4>4. q \in Sharing(s)
        BY <1>0, <3>1, <4>3 DEF Sharing, Steps
      <4> QED
        BY <3>1, <4>2, <4>4 DEF Meets
    <3>2. at'[p] \in {"fetch", "failed"} /\ \A q \in Proc \ {p} : second'[q] = second[q]
      BY <2>1 DEF CreateTemp, Meets, Fault, StepsInv, UpdaterTypeOK
    <3>3. "failed" \notin Steps
      BY DEF Steps, Before, After
    <3> QED
      BY <1>0, <3>1, <3>2, <3>3 DEF PairInv, OwnTempInv, UpdateMoves
  <2>2. CASE ~CreateTemp(p)
    <3>1. second' = second /\ (at'[p] \in Steps \ {"check", "download"} =>
                                at[p] \in Steps \ {"check", "download"})
      BY <1>0, <2>2 DEF UpdateMoves, Update, CheckForUpdates, Fetch, VerifyBinary, Executable, MoveAside,
         CreateBinary, CopyBinary, Undo, Tidy, Goto, Fail, Fault, Steps, Before, After, StepsInv
    <3> QED
      BY <1>0, <3>1 DEF PairInv, OwnTempInv, UpdateMoves
  <2> QED
    BY <2>1, <2>2
<1> QED
  BY <1>1, <1>2, <1>3 DEF PairInv

LEMMA PairStep ==
  ASSUME InstallationInv, PairInv, [Next]_vars
  PROVE  PairInv'
<1>0. UpdaterTypeOK /\ StepsInv
  BY DEF InstallationInv
<1>1. CASE UNCHANGED vars \/ (Edit /\ UNCHANGED updaterVars)
  BY <1>1 DEF Edit, vars, commandVars, updaterVars, PairInv, FreshInv, NamesInv, MeetInv, OwnTempInv
<1>2. ASSUME NEW p \in Proc, Start(p) PROVE PairInv'
  BY <1>0, <1>2, PairStart
<1>3. ASSUME NEW p \in Proc, UNCHANGED updaterVars,
             Serve(p) \/ MakeBackup(p) \/ RestoreBackup(p)
      PROVE  PairInv'
  <2>1. Elsewhere(p) /\ at[p] \notin Steps \cup Over \cup {"unborn"}
    BY <1>0, <1>3, ServeStep, BackupStep
  <2>2. clash \subseteq clash'
    BY <1>3 DEF Serve, DetectFlags, Ensure, Load, Validate, Save, Empty, Fill, WritePIDFile,
       OpenDatabase, ServeAndWrite, StopServing, commandVars, MakeBackup, CreateTar,
       ListFiles, WalkFile, CloseTar, Encrypt, Seal, cleanOldBackups, ReportBackup,
       RestoreBackup, ChooseBackup, Decrypt, WriteDec, OpenDec, ExtractFile, CopyFile,
       ReportRestore, Goto, Fail, Fault, Meets
  <2> QED
    BY <1>0, <1>3, <2>1, <2>2, PairKeeps DEF Elsewhere
<1>4. ASSUME NEW p \in Proc, Update(p) PROVE PairInv'
  BY <1>0, <1>4, UpdateMeets
<1>5. ASSUME NEW p \in Proc, Die(p) PROVE PairInv'
  <2>1. /\ at'[p] \notin Steps \cup {"unborn"} /\ at[p] # "unborn"
        /\ clash' = clash /\ UNCHANGED updaterVars
        /\ \A q \in Proc \ {p} : at'[q] = at[q]
    BY <1>0, <1>5 DEF Die, Kill, Alive, Goto, StepsInv, Steps, Before, After
  <2> QED
    BY <1>0, <2>1, PairKeeps
<1> QED
  BY <1>1, <1>2, <1>3, <1>4, <1>5 DEF Next

-----------------------------------------------------------------------------
(* The steps of one, beside at most one other.                             *)

\* Who is beside p knows of it, and nobody else is there.
LEMMA AtMostTwo ==
  ASSUME Quiet, MeetInv, NEW p \in Proc, at[p] \in Steps \ {"check"}
  PROVE  /\ \A q \in Proc : q # p /\ at[q] \in Steps \ {"check"} => p \in together /\ q \in together
         /\ \A q, r \in Proc : q # p /\ r # p /\ q # r => ~(at[q] \in After /\ at[r] \in After)
<1>1. \A q \in Proc : q # p /\ at[q] \in Steps \ {"check"} => p \in together /\ q \in together
  BY DEF MeetInv
<1>2. "check" \notin After /\ After \subseteq Steps
  BY DEF After, Steps
<1> QED
  BY <1>1, <1>2 DEF Quiet

\* The step of one that goes on with its files.
LEMMA StaysAtWork ==
  ASSUME StepsInv, UpdaterTypeOK', StepsInv', Quiet, MeetInv, TogetherInv, NEW p \in Proc,
         UpdateMoves(p), at[p] \in Steps \ {"check"}, at'[p] \in After,
         CodeInv', KeepsOne(p)', Unmet(p)' => AloneInv(p)',
         \A q \in Proc : q # p /\ at[q] \in After => JointInv(p, q)' /\ JointInv(q, p)'
  PROVE  TogetherInv'
<1>1. (\E n \in Name : Works(n))'
  BY DEF KeepsOne, After, Open
<1>2. ASSUME NEW q \in Proc, q # p, at'[q] \in After
      PROVE  KeepsOne(q)' /\ ~Unmet(q)'
  <2>1. at[q] \in After /\ at[q] \in Steps \ {"check"}
    BY <1>2 DEF UpdateMoves, After, Steps
  <2>2. p \in together' /\ at'[p] \notin Before
    BY <1>2, <2>1, AtMostTwo DEF UpdateMoves, After, Before
  <2>3. KeepsOne(q)'
    BY <1>2, <2>1, JointKeepsNext
  <2> QED
    BY <1>2, <2>2, <2>3 DEF Unmet
<1>3. ASSUME NEW q \in Proc, NEW r \in Proc, q # r, at'[q] \in After, at'[r] \in After
      PROVE  JointInv(q, r)'
  <2>1. (q # p => at[q] \in After) /\ (r # p => at[r] \in After)
    BY <1>3 DEF UpdateMoves
  <2> QED
    BY <1>3, <2>1, AtMostTwo
<1> QED
  BY <1>1, <1>2, <1>3 DEF TogetherInv

\* The step of one that is done with them.
LEMMA LeavesWork ==
  ASSUME StepsInv, Quiet, MeetInv, TogetherInv, NEW p \in Proc,
         UpdateMoves(p), at[p] \in Steps \ {"check"}, at'[p] \in Over,
         CodeInv', (\E n \in Name : Works(n))',
         \A q \in Proc : q # p /\ at[q] \in After => KeepsOne(q)'
  PROVE  TogetherInv'
<1>0. at'[p] \notin Before \cup After
  BY DEF Over, Success, Before, After
<1>1. ASSUME NEW q \in Proc, at'[q] \in After
      PROVE  q # p /\ at[q] \in After /\ KeepsOne(q)' /\ ~Unmet(q)'
  <2>1. q # p /\ at[q] \in After /\ at[q] \in Steps \ {"check"}
    BY <1>0, <1>1 DEF UpdateMoves, After, Steps
  <2>2. p \in together'
    BY <2>1, AtMostTwo DEF UpdateMoves
  <2> QED
    BY <1>0, <2>1, <2>2 DEF Unmet
<1>2. ASSUME NEW q \in Proc, NEW r \in Proc, q # r, at'[q] \in After, at'[r] \in After
      PROVE  FALSE
  BY <1>1, <1>2, AtMostTwo
<1> QED
  BY <1>1, <1>2 DEF TogetherInv

\* The step of one that leaves the binaries alone, before it has moved its own
\* or for good.
LEMMA BinariesAlone ==
  ASSUME TogetherInv, together \subseteq Proc, NEW p \in Proc,
         \A q \in Proc \ {p} : at'[q] = at[q] /\ exe'[q] = exe[q],
         \A q \in Proc \ {p} : target'[q] = target[q],
         UNCHANGED <<bin, code, fd>>, together \subseteq together',
         at'[p] \notin After, at'[p] \in Before => at[p] \in Before \/ p \notin together',
         CodeInv'
  PROVE  TogetherInv'
<1>1. ASSUME NEW q \in Proc, at'[q] \in After 
      PROVE  q # p /\ at'[q] = at[q] /\ exe'[q] = exe[q] /\ target'[q] = target[q]
  BY <1>1
<1>2. (\E n \in Name : Works(n))'
  BY DEF TogetherInv, Works
<1>3. ASSUME NEW q \in Proc, at'[q] \in After
      PROVE  KeepsOne(q)' /\ (Unmet(q)' => AloneInv(q)')
  <2>1. KeepsOne(q)'
    BY <1>1, <1>3 DEF TogetherInv, KeepsOne, Works
  <2>2. Unmet(q)' => Unmet(q)
    BY <1>1, <1>3, \A r \in Proc \ {p} : at'[r] = at[r] DEF Unmet
  <2>3. AloneInv(q) => AloneInv(q)'
    BY <1>1, <1>3 DEF AloneInv, Works
  <2> QED
    BY <1>1, <1>3, <2>1, <2>2, <2>3 DEF TogetherInv
<1>4. ASSUME NEW q \in Proc, NEW r \in Proc, q # r, at'[q] \in After, at'[r] \in After
      PROVE  JointInv(q, r)'
  <2>1. JointInv(q, r)
    BY <1>1, <1>4 DEF TogetherInv
  <2> QED
    BY <1>1, <1>4, <2>1 DEF JointInv, OwnName, OwnBackup, Works
<1> QED
  BY <1>2, <1>3, <1>4 DEF TogetherInv

-----------------------------------------------------------------------------
(* What is run, what is written and what was downloaded.                   *)

\* Nobody else touches what an updater has verified.
LEMMA OthersDownloads ==
  ASSUME UpdaterTypeOK, StepsInv, PairInv, PairInv', Quiet', CodeInv,
         NEW p \in Proc, Update(p), NEW q \in Proc, q # p, at[q] \in {"locate", "backup", "create", "copy"}
  PROVE  temp'[second'[q]] \in Version
<1>0. UpdateMoves(p) /\ at'[q] = at[q] /\ cmd'[q] = "update" /\ q \notin clash'
  BY UpdateMovesOne DEF UpdateMoves, StepsInv, Steps, Before, After, Quiet
<1>1. temp[second[q]] \in Version /\ second[q] \in Second /\ second[p] \in Second
  BY DEF CodeInv, UpdaterTypeOK
<1>2. CASE CreateTemp(p)
  <2>1. CASE second' = second /\ temp' = temp
    BY <1>1, <2>1
  <2>2. CASE ~(second' = second /\ temp' = temp)
    <3>1. PICK s \in Second : /\ Meets(p, Sharing(s), "fetch")
                              /\ second' = [second EXCEPT ![p] = s]
                              /\ temp' = [temp EXCEPT ![s] = Broken]
      BY <1>2, <2>2 DEF CreateTemp
    <3>2. at'[p] = "fetch" /\ second'[p] = s /\ second'[q] = second[q]
      BY <3>1 DEF Meets, StepsInv, UpdaterTypeOK
    <3>3. second[q] # s
      BY <1>0, <3>2 DEF PairInv, OwnTempInv, Steps, Before, After
    <3> QED
      BY <1>1, <3>1, <3>2, <3>3 DEF UpdaterTypeOK
  <2> QED
    BY <2>1, <2>2
<1>3. CASE ~CreateTemp(p)
  <2>1. second' = second /\ \A s \in Second \ {second[p]} : temp'[s] = temp[s]
    BY <1>3 DEF Update, CheckForUpdates, Fetch, VerifyBinary, Executable, MoveAside,
       CreateBinary, CopyBinary, Undo, Tidy, RemoveTemp, UpdaterTypeOK
  <2>2. temp' = temp \/ at[p] \in Steps \ {"check", "download"}
    BY <1>3 DEF Update, CheckForUpdates, Fetch, VerifyBinary, Executable, MoveAside,
       CreateBinary, CopyBinary, Undo, Tidy, Steps, Before, After
  <2>3. second[p] = second[q] => temp' = temp
    BY <1>0, <2>2 DEF PairInv, OwnTempInv, Steps, Before, After, UpdateMoves
  <2> QED
    BY <1>1, <2>1, <2>3
<1> QED
  BY <1>2, <1>3

\* A step that writes no binary.
LEMMA CodeKeeps ==
  ASSUME UpdaterTypeOK, StepsInv, PairInv, PairInv', Quiet', CodeInv,
         NEW p \in Proc, Update(p), UNCHANGED <<code, fd>>,
         at'[p] \notin {"tidy", "copy"},
         at'[p] \in {"locate", "backup", "create", "copy"} => temp'[second'[p]] \in Version
  PROVE  CodeInv'
<1>0. UpdateMoves(p) /\ at[p] \in Steps
  BY UpdateMovesOne DEF UpdateMoves
<1>1. \A q \in Proc : q \in Alive' => q \in Alive
  BY <1>0 DEF Alive, UpdateMoves, Steps, Before, After, Over, Success
<1>2. \A q \in Alive' : code'[exe'[q]] \in Version
  BY <1>0, <1>1 DEF CodeInv, UpdateMoves, Alive
<1>3. ASSUME NEW q \in Proc, at'[q] \in {"locate", "backup", "create", "copy"}
      PROVE  temp'[second'[q]] \in Version
  BY <1>0, <1>3, OthersDownloads DEF UpdateMoves
<1>4. ASSUME NEW q \in Proc, at'[q] = "tidy", NEW r \in Alive' PROVE exe'[r] # fd'[q]
  BY <1>0, <1>1, <1>4 DEF CodeInv, UpdateMoves, Alive
<1>5. ASSUME NEW q \in Proc, at'[q] = "copy" PROVE code'[fd'[q]] \notin Version
  BY <1>0, <1>5 DEF CodeInv, UpdateMoves
<1> QED
  BY <1>2, <1>3, <1>4, <1>5 DEF CodeInv

\* The steps before a binary is moved.
LEMMA BeforeTogether ==
  ASSUME UpdaterTypeOK, StepsInv, PairInv, PairInv', Quiet', TogetherInv, UpdaterTypeOK',
         NEW p \in Proc, CheckForUpdates(p) \/ CreateTemp(p) \/ Fetch(p) \/ VerifyBinary(p)
                           \/ Executable(p)
  PROVE  TogetherInv'
<1>0. Update(p) /\ UpdateMoves(p)
  BY UpdateMovesOne DEF Update
<1>1. /\ UNCHANGED <<bin, code, fd>> /\ at[p] \in Before
      /\ \A q \in Proc \ {p} : target'[q] = target[q]
      /\ at'[p] \in (Before \ {"check"}) \cup Over
  BY DEF CheckForUpdates, CreateTemp, Fetch, VerifyBinary, Executable, Goto, Fail, Fault, Meets,
     Before, Over, Success, StepsInv, UpdaterTypeOK
<1>2. at'[p] \in {"locate", "backup"} => temp'[second'[p]] \in Version
  BY DEF CheckForUpdates, CreateTemp, Fetch, VerifyBinary, Executable, Goto, Fail, Fault, Meets,
     StepsInv, TogetherInv, CodeInv
<1>3. CodeInv'
  BY <1>0, <1>1, <1>2, CodeKeeps DEF TogetherInv, Before, Over, Success
<1> QED
  BY <1>0, <1>1, <1>3, BinariesAlone DEF UpdateMoves, UpdaterTypeOK, Before, After, Over, Success

\* One that starts, or is no updater, or is killed.
LEMMA OthersTogether ==
  ASSUME UpdaterTypeOK, StepsInv, PairInv, TogetherInv,
         NEW p \in Proc, \A q \in Proc \ {p} : at'[q] = at[q],
         at'[p] \notin Steps \cup {"unborn"}, at[p] \notin Over \cup {"unborn"}, UNCHANGED updaterVars
  PROVE  TogetherInv'
<1> USE DEF updaterVars
<1>1. at'[p] \notin Before \cup After /\ \A q \in Proc : q \in Alive' => q \in Alive
  BY DEF Steps, Alive
<1>2. CodeInv'
  <2>1. \A q \in Alive' : code'[exe'[q]] \in Version
    BY <1>1 DEF CodeInv, TogetherInv, Alive
  <2>2. \A q \in Proc : at'[q] = "tidy" => \A r \in Alive' : exe'[r] # fd'[q]
    BY <1>1 DEF CodeInv, TogetherInv, Alive, After
  <2>3. \A q \in Proc : at'[q] = "copy" => code'[fd'[q]] \notin Version
    BY <1>1 DEF CodeInv, TogetherInv, After
  <2>4. \A q \in Proc : at'[q] \in {"locate", "backup", "create", "copy"} => temp'[second'[q]] \in Version
    BY <1>1 DEF CodeInv, TogetherInv, Before, After
  <2> QED
    BY <2>1, <2>2, <2>3, <2>4 DEF CodeInv
<1> QED
  BY <1>1, <1>2, BinariesAlone DEF UpdaterTypeOK

LEMMA StartTogether ==
  ASSUME UpdaterTypeOK, StepsInv, PlacesInv, UpdatersInv, PairInv, Quiet', TogetherInv,
         NEW p \in Proc, Start(p)
  PROVE  TogetherInv'
<1>1. /\ \A q \in Proc \ {p} : at'[q] = at[q]
      /\ at[p] = "unborn" /\ at'[p] \notin Steps \ {"check"} /\ at'[p] # "unborn"
      /\ UNCHANGED <<bin, code, temp, second, target, fd, together>>
  BY DEF Start, Launch, FirstStep, Command, RunBinary, StepsInv, Steps, Before, After
<1>2. PICK n \in Name : /\ Works(n) /\ exe' = [exe EXCEPT ![p] = bin[n]]
                        /\ nested' = (nested \/ \E q \in Alive : at[q] = "tidy" /\ fd[q] = bin[n])
  BY DEF Start, RunBinary
<1>3. exe'[p] = bin[n] /\ \A q \in Proc \ {p} : exe'[q] = exe[q]
  BY <1>2 DEF UpdaterTypeOK
<1>4. \A q \in Alive : ~(at[q] = "tidy" /\ fd[q] = bin[n])
  BY <1>2 DEF Quiet
<1>5. p \notin together
  BY <1>1 DEF PlacesInv, UpdatersInv
<1>6. CodeInv'
  <2>1. \A q \in Alive' : code'[exe'[q]] \in Version
    BY <1>1, <1>2, <1>3 DEF CodeInv, TogetherInv, Alive, Works
  <2>2. ASSUME NEW q \in Proc, at'[q] = "tidy", NEW r \in Alive' PROVE exe'[r] # fd'[q]
    <3>1. q # p /\ q \in Alive /\ at[q] = "tidy"
      BY <1>1, <2>2 DEF Alive, Steps, After, Over, Success
    <3>2. r # p => r \in Alive
      BY <1>1, <2>2 DEF Alive
    <3> QED
      BY <1>1, <1>3, <1>4, <2>2, <3>1, <3>2 DEF CodeInv, TogetherInv, Alive
  <2>3. \A q \in Proc : at'[q] = "copy" => code'[fd'[q]] \notin Version
    BY <1>1 DEF CodeInv, TogetherInv, Steps, After
  <2>4. \A q \in Proc : at'[q] \in {"locate", "backup", "create", "copy"} => temp'[second'[q]] \in Version
    BY <1>1 DEF CodeInv, TogetherInv, Steps, Before, After
  <2> QED
    BY <2>1, <2>2, <2>3, <2>4 DEF CodeInv
<1> QED
  BY <1>1, <1>3, <1>5, <1>6, BinariesAlone DEF UpdaterTypeOK, Steps, After

-----------------------------------------------------------------------------
(* The steps with the names of binaries.                                   *)

\* Where an updater past its check works.
LEMMA TargetNames ==
  ASSUME UpdaterTypeOK, StepsInv, NEW q \in Proc, at[q] \in After
  PROVE  target[q] \in Nat /\ target[q] \in Name /\ target[q] + 1 \in Name
BY UpdaterAssumption DEF UpdaterTypeOK, StepsInv, Name

LEMMA MoveAsideTogether ==
  ASSUME UpdaterTypeOK, StepsInv, PairInv, UpdaterTypeOK', StepsInv', PairInv', Quiet, Quiet',
         TogetherInv, NEW p \in Proc, MoveAside(p)
  PROVE  TogetherInv'
<1>0. /\ Update(p) /\ UpdateMoves(p) /\ at[p] = "backup"
      /\ exe' = exe /\ code' = code /\ fd' = fd /\ together' = together
  BY UpdateMovesOne DEF Update, UpdateMoves, MoveAside
<1>1. CASE Fail(p) \/ Fault(p, "failed")
  <2>1. at'[p] = "failed"
    BY <1>1 DEF Fail, Goto, Fault, StepsInv
  <2>2. UNCHANGED <<bin, target>>
    BY <1>0, <2>1 DEF MoveAside, Goto, StepsInv
  <2>3. CodeInv'
    BY <1>0, <2>1, CodeKeeps DEF TogetherInv
  <2> QED
    BY <1>0, <2>1, <2>2, <2>3, BinariesAlone
    DEF UpdateMoves, UpdaterTypeOK, Before, After
<1>2. CASE ~(Fail(p) \/ Fault(p, "failed"))
  <2>0. PICK n \in Name : n = target[p]
    BY DEF UpdaterTypeOK
  <2>1. /\ bin[n] # None /\ n < Depth /\ Rename(n, n + 1) /\ Goto(p, "create")
        /\ UNCHANGED <<temp, target, second>>
    BY <1>2, <2>0 DEF MoveAside
  <2>2. bin[n] = exe[p]
    <3>1. stray' = (stray \/ bin[n] # exe[p])
      BY <1>2, <2>0, Zenon DEF MoveAside
    <3> QED
      BY <3>1 DEF Quiet
  <2>3. n \in Name /\ n \in Nat /\ n + 1 \in Name /\ n + 1 # n
    BY <2>1, UpdaterAssumption DEF Name
  <2>4. /\ bin'[n] = None /\ bin'[n + 1] = exe[p]
        /\ \A k \in Name \ {n, n + 1} : bin'[k] = bin[k]
        /\ target'[p] = n /\ \A q \in Proc \ {p} : target'[q] = target[q]
        /\ at'[p] = "create" /\ \A q \in Proc \ {p} : at'[q] = at[q]
    BY <2>0, <2>1, <2>2, <2>3 DEF Rename, Goto, StepsInv, UpdaterTypeOK
  <2>5. code[exe[p]] \in Version /\ exe[p] \in Binary /\ exe[p] # None
    BY <1>0, UpdaterAssumption DEF TogetherInv, CodeInv, Alive, Over, Success, UpdaterTypeOK
  <2>6. Works(n + 1)'
    BY <1>0, <2>4, <2>5 DEF Works
  <2>7. \A k \in Name \ {n, n + 1} : Works(k) => Works(k)'
    BY <1>0, <2>4 DEF Works
  <2>8. CodeInv'
    BY <1>0, <2>1, <2>4, CodeKeeps DEF TogetherInv, CodeInv
  <2>9. KeepsOne(p)' /\ AloneInv(p)'
    BY <1>0, <2>3, <2>4, <2>6 DEF KeepsOne, AloneInv, Open
  <2>10. ASSUME NEW q \in Proc, q # p, at[q] \in After
         PROVE  JointInv(p, q)' /\ JointInv(q, p)'
    <3>1. target[q] \in Nat /\ target[q] \in Name /\ target[q] + 1 \in Name
      BY <2>10, TargetNames
    <3>2. at[q] \in Steps \ {"check"} /\ at[p] \in Steps \ {"check"}
      BY <1>0, <2>10 DEF Steps, Before, After
    <3>3. AloneInv(q)
      <4>1. \A r \in together : r \in {p, q}
        BY <2>10, <3>2, OneOther DEF PairInv
      <4>2. Unmet(q)
        BY <1>0, <4>1 DEF Unmet, Before
      <4> QED
        BY <2>10, <4>2 DEF TogetherInv
    <3>4. code[exe[q]] \in Version /\ exe[q] # None
      BY <2>10, UpdaterAssumption
      DEF TogetherInv, CodeInv, Alive, After, Over, Success, UpdaterTypeOK, Binary
    <3>5. target[q] # n
      <4>1. at[q] = "copy" => code[fd[q]] \notin Version
        BY DEF TogetherInv, CodeInv
      <4>2. at[q] = "tidy" => exe[p] # fd[q]
        BY <1>0 DEF TogetherInv, CodeInv, Alive, Over, Success
      <4>3. ~Works(target[q]) => bin[target[q]] # exe[p]
        BY <2>5 DEF Works
      <4> QED
        BY <2>2, <2>5, <2>10, <3>3, <4>1, <4>2, <4>3 DEF AloneInv, After
    <3>6. target'[q] = target[q] /\ at'[q] = at[q] /\ fd'[q] = fd[q] /\ exe'[q] = exe[q]
      BY <1>0, <2>4, <2>10
    <3>7. JointInv(p, q)'
      <4>1. OwnName(p)' /\ OwnBackup(p)'
        BY <2>4, <2>6 DEF OwnName, OwnBackup
      <4>2. target[q] = n + 1 => bin'[target[q]] = exe'[p] /\ Works(target[q])'
        BY <1>0, <2>4, <2>6, <3>6
      <4> QED
        BY <2>4, <3>5, <3>6, <4>1, <4>2 DEF JointInv
    <3>8. JointInv(q, p)'
      <4>1. target[q] # n + 1 => OwnName(q)'
        BY <2>4, <2>7, <3>1, <3>3, <3>5, <3>6 DEF OwnName, AloneInv
      <4>2. n # target[q] + 1 => OwnBackup(q)'
        <5> SUFFICES ASSUME n # target[q] + 1, at[q] \in Open PROVE Works(target[q] + 1)'
          BY <3>6 DEF OwnBackup
        <5>1. target[q] + 1 \notin {n, n + 1}
          BY <2>3, <3>1, <3>5
        <5>2. Works(target[q] + 1)
          BY <3>3, <3>4 DEF AloneInv, Works
        <5> QED
          BY <2>7, <3>1, <3>6, <5>1, <5>2
      <4> QED
        BY <2>4, <3>5, <3>6, <4>1, <4>2 DEF JointInv
    <3> QED
      BY <3>7, <3>8
  <2>11. at[p] \in Steps \ {"check"} /\ at'[p] \in After
    BY <1>0, <2>4 DEF Steps, Before, After
  <2> QED
    BY <1>0, <2>8, <2>9, <2>10, <2>11, StaysAtWork DEF PairInv
<1> QED
  BY <1>1, <1>2

\* One that gives up before it has opened the file.
LEMMA GivesUp ==
  ASSUME UpdaterTypeOK, StepsInv, PairInv, UpdaterTypeOK', StepsInv', PairInv', Quiet, Quiet',
         TogetherInv, NEW p \in Proc, Update(p), at[p] = "create", at'[p] = "undo",
         UNCHANGED <<bin, code, target, fd, temp, second>>
  PROVE  TogetherInv'
<1>0. UpdateMoves(p) /\ exe' = exe /\ at[p] \in After /\ at[p] \in Steps \ {"check"} /\ at'[p] \in After
  BY UpdateMovesOne DEF UpdateMoves, Steps, After, Before
<1>1. CodeInv'
  BY CodeKeeps DEF TogetherInv
<1>2. KeepsOne(p)'
  BY <1>0 DEF TogetherInv, KeepsOne, Works, Open
<1>3. Unmet(p)' => AloneInv(p)'
  <2>1. Unmet(p)' => Unmet(p)
    BY <1>0 DEF Unmet, UpdateMoves, UpdaterTypeOK
  <2>2. AloneInv(p) => AloneInv(p)'
    <3>1. AloneInv(p) => ~Works(target[p])
      BY DEF AloneInv, Works, TogetherInv, CodeInv
    <3> QED
      BY <1>0, <3>1 DEF AloneInv, Works, Open
  <2> QED
    BY <1>0, <2>1, <2>2 DEF TogetherInv
<1>4. ASSUME NEW q \in Proc, q # p, at[q] \in After
      PROVE  JointInv(p, q)' /\ JointInv(q, p)'
  <2>1. JointInv(p, q) /\ JointInv(q, p) /\ at'[q] = at[q]
    BY <1>0, <1>4 DEF TogetherInv, UpdateMoves
  <2>2. JointInv(p, q)'
    BY <1>0, <2>1 DEF JointInv, OwnName, OwnBackup, Works, Open
  <2>3. JointInv(q, p)'
    BY <1>0, <2>1 DEF JointInv, OwnName, OwnBackup, Works, Open
  <2> QED
    BY <2>2, <2>3
<1> QED
  BY <1>0, <1>1, <1>2, <1>3, <1>4, StaysAtWork DEF PairInv

LEMMA CreateTogether ==
  ASSUME UpdaterTypeOK, StepsInv, PairInv, UpdaterTypeOK', StepsInv', PairInv', Quiet, Quiet',
         TogetherInv, NEW p \in Proc, CreateBinary(p)
  PROVE  TogetherInv'
<1>0. /\ Update(p) /\ UpdateMoves(p) /\ at[p] = "create"
      /\ UNCHANGED <<exe, temp, second, target, together>>
      /\ at[p] \in After /\ at[p] \in Steps \ {"check"}
  BY UpdateMovesOne DEF Update, UpdateMoves, CreateBinary, Steps, After, Before
<1>1. CASE at'[p] = "undo"
  <2>1. UNCHANGED <<bin, code, fd>>
    BY <1>1 DEF CreateBinary, Goto, StepsInv
  <2> QED
    BY <1>0, <1>1, <2>1, GivesUp
<1>2. CASE at'[p] # "undo"
  <2>0. PICK n \in Name, b \in Binary :
          n = target[p] /\ b = IF bin[n] = None THEN p ELSE bin[n]
    BY UpdaterAssumption DEF UpdaterTypeOK, Binary
  <2>1. /\ ~Busy(n) /\ bin' = [bin EXCEPT ![n] = b] /\ code' = [code EXCEPT ![b] = Broken]
        /\ fd' = [fd EXCEPT ![p] = b] /\ at'[p] = "copy"
    BY <1>2, <2>0 DEF CreateBinary, Goto, Fault, StepsInv
  <2>2. /\ bin'[n] = b /\ \A k \in Name \ {n} : bin'[k] = bin[k]
        /\ code'[b] = Broken /\ \A c \in Binary \ {b} : code'[c] = code[c]
        /\ fd'[p] = b /\ \A q \in Proc \ {p} : fd'[q] = fd[q]
    BY <2>1 DEF UpdaterTypeOK
  <2>3. /\ n \in Nat /\ n + 1 \in Name /\ b # None /\ Broken \notin Version
    BY <1>0, <2>0, TargetNames, UpdaterAssumption DEF Binary
  <2>4. \A k \in Name \ {n} : bin[k] # b
    BY <1>0, <2>0, <2>3 DEF PairInv, FreshInv, NamesInv
  <2>5. \A k \in Name \ {n} : Works(k)' <=> Works(k)
    BY <2>2, <2>4 DEF Works, UpdaterTypeOK
  <2>6. \A q \in Alive : exe[q] # b
    <3>1. bin[n] # None => \A q \in Alive : exe[q] # bin[n]
      BY <2>1 DEF Busy
    <3>2. \A q \in Proc : exe[q] # p
      BY <1>0 DEF PairInv, FreshInv, NamesInv
    <3> QED
      BY <2>0, <3>1, <3>2 DEF Alive
  <2>7. CodeInv'
    <3>1. \A q \in Alive' : q \in Alive
      BY <1>0 DEF UpdateMoves, Alive, Steps, Before, After, Over, Success
    <3>2. \A q \in Alive' : code'[exe'[q]] \in Version
      BY <1>0, <2>2, <2>6, <3>1 DEF TogetherInv, CodeInv, UpdaterTypeOK, Alive
    <3>3. ASSUME NEW q \in Proc, at'[q] = "tidy", NEW r \in Alive' PROVE exe'[r] # fd'[q]
      <4>1. q # p /\ at[q] = "tidy"
        BY <1>0, <2>1, <3>3 DEF UpdateMoves
      <4> QED
        BY <1>0, <2>2, <3>1, <3>3, <4>1 DEF TogetherInv, CodeInv
    <3>4. ASSUME NEW q \in Proc, at'[q] = "copy" PROVE code'[fd'[q]] \notin Version
      <4>1. CASE q = p
        BY <2>2, <2>3, <4>1
      <4>2. CASE q # p
        <5>1. code[fd[q]] \notin Version /\ fd'[q] = fd[q] /\ fd[q] \in Binary
          BY <1>0, <2>2, <3>4, <4>2 DEF TogetherInv, CodeInv, UpdateMoves, UpdaterTypeOK
        <5> QED
          BY <2>2, <2>3, <5>1
      <4> QED
        BY <4>1, <4>2
    <3>5. ASSUME NEW q \in Proc, at'[q] \in {"locate", "backup", "create", "copy"}
          PROVE  temp'[second'[q]] \in Version
      <4>1. at[q] \in {"locate", "backup", "create", "copy"}
        BY <1>0, <3>5 DEF UpdateMoves
      <4> QED
        BY <1>0, <4>1 DEF TogetherInv, CodeInv
    <3> QED
      BY <3>2, <3>3, <3>4, <3>5 DEF CodeInv
  <2>8. KeepsOne(p)'
    <3>1. \E k \in Name \ {n} : Works(k)
      BY <1>0, <2>0 DEF TogetherInv, KeepsOne, Open
    <3> QED
      BY <1>0, <2>0, <2>1, <2>2, <2>5, <3>1 DEF KeepsOne
  <2>9. Unmet(p)' => AloneInv(p)'
    <3>1. Unmet(p)' => Unmet(p)
      BY <1>0 DEF Unmet, UpdateMoves, UpdaterTypeOK
    <3>2. Unmet(p) => bin[n + 1] = exe[p] /\ b = p
      BY <1>0, <2>0 DEF TogetherInv, AloneInv, Open
    <3> QED
      BY <1>0, <2>0, <2>1, <2>2, <2>3, <3>1, <3>2 DEF AloneInv
  <2>10. ASSUME NEW q \in Proc, q # p, at[q] \in After
         PROVE  JointInv(p, q)' /\ JointInv(q, p)'
    <3>1. JointInv(p, q) /\ JointInv(q, p)
      BY <1>0, <2>10 DEF TogetherInv
    <3>2. target[q] \in Nat /\ target[q] \in Name /\ target[q] + 1 \in Name
      BY <2>10, TargetNames
    <3>3. /\ at'[q] = at[q] /\ target'[q] = target[q] /\ target'[p] = n /\ exe' = exe
          /\ fd'[q] = fd[q]
      BY <1>0, <2>0, <2>2, <2>10 DEF UpdateMoves
    <3>4. target[q] # n
      BY <2>0, <3>1 DEF JointInv
    <3>5. at[q] = "copy" => fd[q] # b
      <4>1. fd[q] # p
        BY <1>0 DEF PairInv, FreshInv
      <4>2. n # target[q] + 1 => bin[n] = None
        BY <1>0, <2>0, <3>1 DEF JointInv, OwnName
      <4>3. n = target[q] + 1 => bin[n] \in {None, exe[q]}
        BY <1>0, <2>0, <3>1 DEF JointInv
      <4>4. q \in Alive
        BY <2>10 DEF Alive, After, Over, Success
      <4> QED
        BY <2>0, <2>6, <4>1, <4>2, <4>3, <4>4
    <3>6. JointInv(p, q)'
      <4>1. OwnName(p)'
        BY <2>1, <2>2, <3>3 DEF OwnName
      <4>2. target[q] # n + 1 => OwnBackup(p)'
        <5>1. target[q] # n + 1 => Works(n + 1)
          BY <1>0, <2>0, <3>1 DEF JointInv, OwnBackup, Open
        <5>2. Works(n + 1) => Works(n + 1)'
          BY <2>3, <2>5
        <5> QED
          BY <3>3, <5>1, <5>2 DEF OwnBackup
      <4>3. target[q] = n + 1 =>
              /\ at[q] = "create" => bin'[target[q]] \in {None, exe[p]}
              /\ at[q] = "copy" => bin'[target[q]] \in {None, fd[q]} \/ Works(target[q])'
              /\ at[q] = "tidy" => Works(target[q])'
        <5>1. bin'[target[q]] = bin[target[q]] /\ (Works(target[q])' <=> Works(target[q]))
          BY <2>2, <2>5, <3>2, <3>3, <3>4
        <5> QED
          BY <1>0, <2>0, <3>1, <5>1 DEF JointInv, Open
      <4> QED
        BY <2>1, <2>2, <3>3, <3>4, <3>5, <4>1, <4>2, <4>3 DEF JointInv
    <3>7. JointInv(q, p)'
      <4>1. target[q] # n + 1 => OwnName(q)'
        <5>1. target[q] # n + 1 => OwnName(q)
          BY <2>0, <3>1 DEF JointInv
        <5> QED
          BY <2>2, <2>5, <3>2, <3>3, <3>4, <5>1 DEF OwnName
      <4>2. n # target[q] + 1 => OwnBackup(q)'
        <5>1. n # target[q] + 1 => OwnBackup(q)
          BY <2>0, <3>1 DEF JointInv
        <5> QED
          BY <2>5, <3>2, <3>3, <5>1 DEF OwnBackup
      <4> QED
        BY <2>1, <2>2, <3>3, <3>4, <3>5, <4>1, <4>2 DEF JointInv
    <3> QED
      BY <3>6, <3>7
  <2>11. at'[p] \in After
    BY <2>1 DEF After
  <2> QED
    BY <1>0, <2>7, <2>8, <2>9, <2>10, <2>11, StaysAtWork DEF PairInv
<1> QED
  BY <1>1, <1>2

LEMMA CopyTogether ==
  ASSUME UpdaterTypeOK, StepsInv, PairInv, UpdaterTypeOK', StepsInv', PairInv', Quiet, Quiet',
         TogetherInv, NEW p \in Proc, CopyBinary(p)
  PROVE  TogetherInv'
<1>0. /\ Update(p) /\ UpdateMoves(p) /\ at[p] = "copy"
      /\ UNCHANGED <<bin, exe, temp, second, target, fd, together>>
      /\ at[p] \in After /\ at[p] \in Steps \ {"check"}
      /\ target[p] \in Nat /\ target[p] \in Name /\ target[p] + 1 \in Name
  BY UpdateMovesOne, TargetNames DEF Update, UpdateMoves, CopyBinary, Steps, After, Before
<1> QED
  <2>0. PICK n \in Name : n = target[p]
    BY <1>0
  <2>1. PICK c \in Version \cup {Broken} :
          /\ code' = [code EXCEPT ![fd[p]] = c]
          /\ at'[p] = "undo" /\ fd[p] = p => c = code[fd[p]]
          /\ at'[p] = "tidy" /\ bin[n] = fd[p] => c \in Version
    <3>1. code[fd[p]] \in Version \cup {Broken} /\ code = [code EXCEPT ![fd[p]] = code[fd[p]]]
      BY DEF UpdaterTypeOK
    <3>2. release[p] \in Version /\ temp[second[p]] \in Version
      BY <1>0 DEF UpdaterTypeOK, TogetherInv, CodeInv
    <3>3. ASSUME Unmarked(p) PROVE \E c \in Version \cup {Broken} :
            code' = [code EXCEPT ![fd[p]] = c] /\ (fd[p] = p => c = code[fd[p]])
      BY <3>1, <3>2, <3>3 DEF Unmarked
    <3>4. \/ at'[p] = "tidy" /\ code' = [code EXCEPT ![fd[p]] = temp[second[p]]]
          \/ Unmarked(p) /\ (at'[p] = "tidy" => bin[n] # fd[p])
      BY <2>0 DEF CopyBinary, Goto, Fault, StepsInv
    <3> QED
      BY <3>2, <3>3, <3>4
  <2>2. at'[p] \in {"undo", "tidy"} /\ (at'[p] = "tidy" => bin[n] # None)
    <3>1. fd[p] # None
      BY UpdaterAssumption DEF UpdaterTypeOK
    <3> QED
      BY <2>0, <3>1 DEF CopyBinary, Goto, Fault, StepsInv
  <2>3. /\ code'[fd[p]] = c /\ \A b \in Binary \ {fd[p]} : code'[b] = code[b]
        /\ fd[p] \in Binary /\ fd[p] # None /\ code[fd[p]] \notin Version
    BY <1>0, <2>1, UpdaterAssumption DEF UpdaterTypeOK, TogetherInv, CodeInv
  <2>4. /\ \A k \in Name : Works(k) => Works(k)'
        /\ at'[p] = "tidy" /\ bin[n] = fd[p] => Works(n)'
    BY <1>0, <2>1, <2>3 DEF Works, UpdaterTypeOK
  <2>5. ASSUME NEW q \in Proc, q # p, at[q] = "copy" PROVE fd[q] # fd[p]
    BY <1>0, <2>5 DEF TogetherInv, JointInv, After
  <2>6. CodeInv'
    <3>1. \A q \in Alive' : q \in Alive
      BY <1>0 DEF UpdateMoves, Alive, Steps, Before, After, Over, Success
    <3>2. \A q \in Alive' : code'[exe'[q]] \in Version
      BY <1>0, <2>3, <3>1 DEF TogetherInv, CodeInv, UpdaterTypeOK, Alive
    <3>3. ASSUME NEW q \in Proc, at'[q] = "tidy", NEW r \in Alive' PROVE exe'[r] # fd'[q]
      <4>1. at[q] = "tidy" \/ q = p
        BY <1>0, <3>3 DEF UpdateMoves
      <4>2. code[exe[r]] \in Version /\ code[fd[p]] \notin Version
        BY <1>0, <3>1, <3>3 DEF TogetherInv, CodeInv
      <4> QED
        BY <1>0, <3>1, <3>3, <4>1, <4>2 DEF TogetherInv, CodeInv
    <3>4. ASSUME NEW q \in Proc, at'[q] = "copy" PROVE code'[fd'[q]] \notin Version
      <4>1. q # p /\ at[q] = "copy"
        BY <1>0, <2>2, <3>4 DEF UpdateMoves
      <4>2. fd[q] # fd[p] /\ code[fd[q]] \notin Version /\ fd[q] \in Binary
        BY <2>5, <4>1 DEF TogetherInv, CodeInv, UpdaterTypeOK
      <4> QED
        BY <1>0, <2>3, <4>2
    <3>5. ASSUME NEW q \in Proc, at'[q] \in {"locate", "backup", "create", "copy"}
          PROVE  temp'[second'[q]] \in Version
      <4>1. at[q] \in {"locate", "backup", "create", "copy"}
        BY <1>0, <2>2, <3>5 DEF UpdateMoves
      <4> QED
        BY <1>0, <4>1 DEF TogetherInv, CodeInv
    <3> QED
      BY <3>2, <3>3, <3>4, <3>5 DEF CodeInv
  <2>7. KeepsOne(p)'
    <3>1. KeepsOne(p) /\ n # n + 1
      BY <1>0, <2>0 DEF TogetherInv
    <3>2. CASE at'[p] = "undo"
      BY <1>0, <2>0, <2>2, <2>4, <3>1, <3>2 DEF KeepsOne, Open
    <3>3. CASE at'[p] = "tidy" /\ bin[n] = fd[p]
      BY <1>0, <2>0, <2>2, <2>3, <2>4, <3>1, <3>3 DEF KeepsOne, Open
    <3>4. CASE at'[p] = "tidy" /\ bin[n] # fd[p]
      BY <1>0, <2>0, <2>2, <2>4, <3>1, <3>4 DEF KeepsOne, Open
    <3> QED
      BY <2>2, <3>2, <3>3, <3>4
  <2>8. Unmet(p)' => AloneInv(p)'
    <3>1. Unmet(p)' => Unmet(p)
      BY <1>0 DEF Unmet, UpdateMoves, UpdaterTypeOK
    <3>2. Unmet(p) => bin[n] = fd[p] /\ fd[p] = p /\ bin[n + 1] = exe[p]
      BY <1>0, <2>0 DEF TogetherInv, AloneInv, Open
    <3>3. Unmet(p) /\ at'[p] = "undo" => ~Works(n)'
      BY <1>0, <2>1, <2>3, <3>2 DEF Works
    <3> QED
      BY <1>0, <2>0, <2>2, <2>4, <3>1, <3>2, <3>3 DEF AloneInv, Open
  <2>9. ASSUME NEW q \in Proc, q # p, at[q] \in After
        PROVE  JointInv(p, q)' /\ JointInv(q, p)'
    <3>1. JointInv(p, q) /\ JointInv(q, p)
      BY <1>0, <2>9 DEF TogetherInv
    <3>2. target[q] \in Nat /\ target[q] \in Name /\ target[q] + 1 \in Name
      BY <2>9, TargetNames
    <3>3. at'[q] = at[q]
      BY <1>0, <2>9 DEF UpdateMoves
    <3>4. JointInv(p, q)'
      <4>1. n # target[q] + 1 => OwnName(p)'
        BY <1>0, <2>0, <2>2, <2>4, <3>1 DEF JointInv, OwnName
      <4>2. target[q] # n + 1 => OwnBackup(p)'
        BY <1>0, <2>0, <2>2, <2>4, <3>1 DEF JointInv, OwnBackup, Open
      <4>3. target[q] = n + 1 =>
              /\ at[q] = "create" => bin[target[q]] \in {None, exe[p]}
              /\ at[q] = "copy" => bin[target[q]] \in {None, fd[q]} \/ Works(target[q])
              /\ at[q] = "tidy" => Works(target[q])
        BY <1>0, <2>0, <3>1 DEF JointInv, Open
      <4>4. n # target[q]
        BY <2>0, <3>1 DEF JointInv
      <4> QED
        BY <1>0, <2>0, <2>2, <2>4, <3>2, <3>3, <4>1, <4>2, <4>3, <4>4 DEF JointInv
    <3>5. JointInv(q, p)'
      <4>1. target[q] # n + 1 => OwnName(q)'
        BY <1>0, <2>0, <2>4, <3>1, <3>2, <3>3 DEF JointInv, OwnName
      <4>2. n # target[q] + 1 => OwnBackup(q)'
        BY <1>0, <2>0, <2>4, <3>1, <3>2, <3>3 DEF JointInv, OwnBackup
      <4>3. n = target[q] + 1 /\ at'[p] = "tidy" => Works(n)'
        <5>1. n = target[q] + 1 => bin[n] \in {None, fd[p]} \/ Works(n)
          BY <1>0, <2>0, <3>1 DEF JointInv
        <5> QED
          BY <2>2, <2>4, <5>1
      <4>4. n # target[q]
        BY <2>0, <3>1 DEF JointInv
      <4> QED
        BY <1>0, <2>0, <2>2, <3>3, <4>1, <4>2, <4>3, <4>4 DEF JointInv
    <3> QED
      BY <3>4, <3>5
  <2>10. at'[p] \in After
    BY <2>2 DEF After
  <2> QED
    BY <1>0, <2>6, <2>7, <2>8, <2>9, <2>10, StaysAtWork DEF PairInv

\* The binary is moved back.
LEMMA UndoTogether ==
  ASSUME UpdaterTypeOK, StepsInv, PairInv, UpdaterTypeOK', StepsInv', PairInv', Quiet, Quiet',
         TogetherInv, NEW p \in Proc, Undo(p)
  PROVE  TogetherInv'
<1>0. /\ Update(p) /\ UpdateMoves(p) /\ at[p] = "undo" /\ at'[p] = "failed"
      /\ UNCHANGED <<code, exe, second, target, fd, together>>
      /\ at[p] \in After /\ at[p] \in Steps \ {"check"} /\ at'[p] \in Over
      /\ target[p] \in Nat /\ target[p] \in Name /\ target[p] + 1 \in Name
  BY UpdateMovesOne, TargetNames
  DEF Update, UpdateMoves, Undo, Fail, Goto, Fault, Steps, After, Before, Over, StepsInv
<1>1. CodeInv'
  BY <1>0, CodeKeeps DEF TogetherInv
<1>2. CASE bin' = bin
  BY <1>0, <1>1, <1>2, BinariesAlone DEF UpdateMoves, UpdaterTypeOK, Before, After
<1>3. CASE bin' # bin
  <2>0. PICK n \in Name : n = target[p]
    BY <1>0
  <2>1. bin[n + 1] # None /\ bin' = [bin EXCEPT ![n + 1] = None, ![n] = bin[n + 1]]
    BY <1>3, <2>0 DEF Undo, Rename
  <2>2. /\ n + 1 \in Name /\ n # n + 1 /\ n \in Nat
        /\ bin'[n] = bin[n + 1] /\ bin'[n + 1] = None
        /\ \A k \in Name \ {n, n + 1} : bin'[k] = bin[k]
    BY <1>0, <2>0, <2>1 DEF UpdaterTypeOK
  <2>3. /\ Works(n + 1) => Works(n)'
        /\ \A k \in Name \ {n, n + 1} : Works(k) => Works(k)'
    BY <1>0, <2>2 DEF Works
  <2>4. (\E k \in Name : Works(k))'
    <3>1. \E k \in Name \ {n} : Works(k)
      BY <1>0, <2>0 DEF TogetherInv, KeepsOne, Open
    <3> QED
      BY <2>3, <3>1
  <2>5. ASSUME NEW q \in Proc, q # p, at[q] \in After PROVE KeepsOne(q)'
    <3>1. JointInv(p, q) /\ JointInv(q, p)
      BY <1>0, <2>5 DEF TogetherInv
    <3>2. PICK t \in Name : t = target[q] /\ t \in Nat /\ t + 1 \in Name
      BY <2>5, TargetNames
    <3>3. at'[q] = at[q] /\ target'[q] = t /\ fd'[q] = fd[q] /\ n # t
      BY <1>0, <2>0, <2>5, <3>1, <3>2 DEF UpdateMoves, JointInv
    <3>4. ASSUME at[q] \in Open PROVE \E k \in Name \ {t} : Works(k)'
      <4>1. CASE n = t + 1
        <5>1. Works(n + 1)
          BY <1>0, <2>0, <3>1, <3>2, <4>1 DEF JointInv, OwnBackup, Open
        <5> QED
          BY <2>3, <3>3, <5>1
      <4>2. CASE n # t + 1
        <5>1. Works(t + 1)
          BY <2>0, <3>1, <3>2, <3>4, <4>2 DEF JointInv, OwnBackup
        <5> QED
          BY <2>2, <2>3, <3>2, <3>3, <4>2, <5>1
      <4> QED
        BY <4>1, <4>2
    <3>5. ASSUME at[q] = "copy" PROVE bin'[t] \in {None, fd[q]}
      <4>1. t # n + 1 => bin[t] = fd[q]
        BY <2>0, <3>1, <3>2, <3>5 DEF JointInv, OwnName
      <4> QED
        BY <2>2, <3>3, <4>1
    <3>6. ASSUME at[q] = "tidy" PROVE \E k \in Name \ {t + 1} : Works(k)'
      <4>1. CASE t = n + 1
        <5>1. Works(n + 1)
          BY <1>0, <2>0, <3>1, <3>2, <3>6, <4>1 DEF JointInv, Open
        <5> QED
          BY <2>2, <2>3, <4>1, <5>1
      <4>2. CASE t # n + 1
        <5>1. Works(t) /\ t # t + 1
          BY <2>0, <3>1, <3>2, <3>6, <4>2 DEF JointInv, OwnName
        <5> QED
          BY <2>3, <3>3, <4>2, <5>1
      <4> QED
        BY <4>1, <4>2
    <3> QED
      BY <3>3, <3>4, <3>5, <3>6 DEF KeepsOne
  <2> QED
    BY <1>0, <1>1, <2>4, <2>5, LeavesWork DEF PairInv
<1> QED
  BY <1>2, <1>3

\* The backup is removed.
LEMMA TidyTogether ==
  ASSUME UpdaterTypeOK, StepsInv, PairInv, UpdaterTypeOK', StepsInv', PairInv', Quiet, Quiet',
         TogetherInv, NEW p \in Proc, Tidy(p)
  PROVE  TogetherInv'
<1>0. /\ Update(p) /\ UpdateMoves(p) /\ at[p] = "tidy" /\ at'[p] = "updated"
      /\ UNCHANGED <<code, exe, second, target, fd, together>>
      /\ at[p] \in After /\ at[p] \in Steps \ {"check"} /\ at'[p] \in Over
      /\ target[p] \in Nat /\ target[p] \in Name /\ target[p] + 1 \in Name
  BY UpdateMovesOne, TargetNames
  DEF Update, UpdateMoves, Tidy, Goto, Steps, After, Before, Over, Success, StepsInv
<1>1. CodeInv'
  BY <1>0, CodeKeeps DEF TogetherInv
<1>2. CASE bin' = bin
  BY <1>0, <1>1, <1>2, BinariesAlone DEF UpdateMoves, UpdaterTypeOK, Before, After
<1>3. CASE bin' # bin
  <2>0. PICK n \in Name : n = target[p]
    BY <1>0
  <2>1. /\ n + 1 \in Name /\ n # n + 1 /\ n \in Nat
        /\ bin'[n + 1] = None /\ \A k \in Name \ {n + 1} : bin'[k] = bin[k]
    BY <1>0, <1>3, <2>0 DEF Tidy, UpdaterTypeOK
  <2>2. \A k \in Name \ {n + 1} : Works(k) => Works(k)'
    BY <1>0, <2>1 DEF Works
  <2>3. (\E k \in Name : Works(k))'
    <3>1. \E k \in Name \ {n + 1} : Works(k)
      BY <1>0, <2>0 DEF TogetherInv, KeepsOne
    <3> QED
      BY <2>2, <3>1
  <2>4. ASSUME NEW q \in Proc, q # p, at[q] \in After PROVE KeepsOne(q)'
    <3>1. JointInv(p, q) /\ JointInv(q, p)
      BY <1>0, <2>4 DEF TogetherInv
    <3>2. PICK t \in Name : t = target[q] /\ t \in Nat /\ t + 1 \in Name
      BY <2>4, TargetNames
    <3>3. at'[q] = at[q] /\ target'[q] = t /\ fd'[q] = fd[q] /\ n # t
      BY <1>0, <2>0, <2>4, <3>1, <3>2 DEF UpdateMoves, JointInv
    <3>4. ASSUME at[q] \in Open PROVE \E k \in Name \ {t} : Works(k)'
      <4>1. CASE n = t + 1
        <5>1. Works(n)
          BY <1>0, <2>0, <3>1, <3>2, <3>4, <4>1 DEF JointInv
        <5> QED
          BY <2>1, <2>2, <3>3, <5>1
      <4>2. CASE n # t + 1
        <5>1. Works(t + 1)
          BY <2>0, <3>1, <3>2, <3>4, <4>2 DEF JointInv, OwnBackup
        <5> QED
          BY <2>1, <2>2, <3>2, <3>3, <4>2, <5>1
      <4> QED
        BY <4>1, <4>2
    <3>5. ASSUME at[q] = "copy", bin'[t] \notin {None, fd[q]}
          PROVE  \E k \in Name \ {t + 1} : Works(k)'
      <4>1. t # n + 1
        BY <2>1, <3>5
      <4>2. bin[t] = fd[q]
        BY <2>0, <3>1, <3>2, <3>5, <4>1 DEF JointInv, OwnName
      <4> QED
        BY <2>1, <3>5, <4>1, <4>2
    <3>6. ASSUME at[q] = "tidy" PROVE \E k \in Name \ {t + 1} : Works(k)'
      <4>1. CASE t = n + 1
        <5>1. Works(n) /\ n # t + 1
          BY <1>0, <2>0, <2>1, <3>1, <3>2, <4>1 DEF JointInv, OwnName
        <5> QED
          BY <2>1, <2>2, <5>1
      <4>2. CASE t # n + 1
        <5>1. Works(t) /\ t # t + 1
          BY <2>0, <3>1, <3>2, <3>6, <4>2 DEF JointInv, OwnName
        <5> QED
          BY <2>2, <3>3, <4>2, <5>1
      <4> QED
        BY <4>1, <4>2
    <3> QED
      BY <3>3, <3>4, <3>5, <3>6 DEF KeepsOne
  <2> QED
    BY <1>0, <1>1, <2>3, <2>4, LeavesWork DEF PairInv
<1> QED
  BY <1>2, <1>3

LEMMA SurvivalStep ==
  ASSUME InstallationInv, InstallationInv', PlacesInv, UpdatersInv, SurvivalInv, [Next]_vars
  PROVE  SurvivalInv'
<1>0. UpdaterTypeOK /\ StepsInv /\ PairInv /\ UpdaterTypeOK' /\ StepsInv' /\ PairInv'
  BY PairStep DEF InstallationInv, SurvivalInv
<1> SUFFICES ASSUME Quiet' PROVE TogetherInv'
  BY <1>0 DEF SurvivalInv
<1>a. Quiet /\ TogetherInv
  BY <1>0, QuietBefore DEF SurvivalInv
<1>1. CASE UNCHANGED vars \/ (Edit /\ UNCHANGED updaterVars)
  <2>1. UNCHANGED <<at, updaterVars>>
    BY <1>1 DEF Edit, vars, commandVars
  <2> QED
    BY <1>a, <2>1 DEF updaterVars, TogetherInv, CodeInv, Alive, Works, KeepsOne, Unmet, AloneInv,
       JointInv, OwnName, OwnBackup
<1>2. ASSUME NEW p \in Proc, Start(p) PROVE TogetherInv'
  BY <1>0, <1>a, <1>2, StartTogether
<1>3. ASSUME NEW p \in Proc, UNCHANGED updaterVars,
             Serve(p) \/ MakeBackup(p) \/ RestoreBackup(p)
      PROVE  TogetherInv'
  <2>1. Elsewhere(p) /\ at[p] \notin Steps \cup Over \cup {"unborn"}
    BY <1>0, <1>3, ServeStep, BackupStep
  <2> QED
    BY <1>0, <1>a, <1>3, <2>1, OthersTogether DEF Elsewhere
<1>4. ASSUME NEW p \in Proc, Update(p) PROVE TogetherInv'
  BY <1>0, <1>a, <1>4, BeforeTogether, MoveAsideTogether, CreateTogether, CopyTogether,
     UndoTogether, TidyTogether DEF Update
<1>5. ASSUME NEW p \in Proc, Die(p) PROVE TogetherInv'
  <2>1. /\ at'[p] \notin Steps \cup {"unborn"} /\ at[p] \notin Over \cup {"unborn"}
        /\ UNCHANGED updaterVars
        /\ \A q \in Proc \ {p} : at'[q] = at[q]
    BY <1>0, <1>5 DEF Die, Kill, Alive, Goto, StepsInv, Steps, Before, After
  <2> QED
    BY <1>0, <1>a, <2>1, OthersTogether
<1> QED
  BY <1>1, <1>2, <1>3, <1>4, <1>5 DEF Next

\* One updater at a time leaves a binary that works, wherever it fails or is
\* killed (replaceBinary), and so do two that work together, as long as no third
\* has met another: unless their downloads had one name, a binary was run whose
\* updater had still to remove the backup, or one renamed a binary that is not
\* its own, another having put it there since os.Executable.
THEOREM TwoQuietUpdatersAreSafe == Spec => []BinarySurvives
<1> DEFINE IInv == WholeInv /\ SurvivalInv
<1>1. Init => SurvivalInv
  BY SurvivalStart
<1>2. WholeInv /\ WholeInv' /\ SurvivalInv /\ [Next]_vars => SurvivalInv'
  BY SurvivalStep DEF WholeInv, ReleaseInv
<1>3. WholeInv /\ SurvivalInv => BinarySurvives
  BY DEF WholeInv, InstallationInv, LoneInv, LoneUpdateIsSafe, SurvivalInv, TogetherInv,
     BinarySurvives
<1> QED
  BY <1>1, <1>2, <1>3, WholeInvariance, PTL DEF Spec
=============================================================================
