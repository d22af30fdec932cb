------------------------------ MODULE Updater ------------------------------
(***************************************************************************)
(* --update yes: the latest release is looked up, downloaded to a file     *)
(* that is named for the second, run with --version, and put in the place  *)
(* of the binary that runs, which is moved aside for as long.              *)
(*                                                                         *)
(* A binary has names in the file system, but it is not its name: a        *)
(* process goes on running a file that is moved or has lost its name, and  *)
(* on Linux os.Executable follows the file, not the name.  Name 0 is that  *)
(* of the binary, n + 1 is n with ".backup" appended.                      *)
(***************************************************************************)
EXTENDS Commands

CONSTANTS
  Version,  \* releases
  Depth,    \* bound: the last name a binary is moved to
  Second,   \* bound: the names there are for a download
  Installed,  \* the binary the installation began with
  Broken    \* the content of a binary that does not run

Name == 0..Depth
Binary == Proc \cup {Installed}

ASSUME UpdaterAssumption ==
  /\ Depth \in Nat
  /\ Version # {} /\ Second # {}
  /\ Broken \notin Version /\ None \notin Version \cup {Broken}
  /\ Installed \notin Proc /\ None \notin Binary

VARIABLES
  bin,      \* of a name: the binary that has it, or None
  code,     \* of a binary: its version, or Broken
  was,      \* of a binary: the name it has, or had last
  exe,      \* of a process: the binary it runs
  temp,     \* of a second: the content of the download named for it
  release,  \* of a process: the release it installs
  second,   \* of a process: that of its download
  target,   \* of a process: the name it installs to, read before it is used
  fd,       \* of a process: the binary it writes
  nested,   \* history: one has been started from a binary not yet put in order
  stray,    \* history: an updater has moved aside a binary that it does not run
  together  \* history: updaters that have been at work with another

updaterVars == <<bin, code, was, exe, temp, release, second, target, fd, nested, stray, together>>

UpdaterTypeOK ==
  /\ bin \in [Name -> Binary \cup {None}]
  /\ code \in [Binary -> Version \cup {Broken}]
  /\ was \in [Binary -> Name]
  /\ exe \in [Proc -> Binary]
  /\ temp \in [Second -> Version \cup {Broken, None}]
  /\ release \in [Proc -> Version]
  /\ second \in [Proc -> Second]
  /\ target \in [Proc -> Name]
  /\ fd \in [Proc -> Binary]
  /\ nested \in BOOLEAN
  /\ stray \in BOOLEAN
  /\ together \subseteq Proc

First == CHOOSE v \in Version : TRUE

UpdaterInit ==
  /\ bin = [n \in Name |-> IF n = 0 THEN Installed ELSE None]
  /\ code = [b \in Binary |-> IF b = Installed THEN First ELSE Broken]
  /\ was = [b \in Binary |-> 0]
  /\ exe = [p \in Proc |-> Installed]
  /\ temp = [s \in Second |-> None]
  /\ release = [p \in Proc |-> First]
  /\ second = [p \in Proc |-> CHOOSE s \in Second : TRUE]
  /\ target = [p \in Proc |-> 0]
  /\ fd = [p \in Proc |-> Installed]
  /\ nested = FALSE
  /\ stray = FALSE
  /\ together = {}

Works(n) == bin[n] # None /\ code[bin[n]] \in Version

\* The binary is run by its name, or by that of a backup.
RunBinary(p) ==
  /\ \E n \in Name :
       /\ Works(n)
       /\ exe' = [exe EXCEPT ![p] = bin[n]]
       /\ nested' = (nested \/ \E q \in Alive : at[q] = "tidy" /\ fd[q] = bin[n])
  /\ UNCHANGED <<bin, code, was, temp, release, second, target, fd, stray, together>>

-----------------------------------------------------------------------------
(* The steps of an updater. *)

CheckForUpdates(p) ==
  /\ at[p] = "check"
  /\ \/ Fault(p, "failed") /\ UNCHANGED release
     \/ \E r \in Version :
          /\ release' = [release EXCEPT ![p] = r]
          /\ Goto(p, IF r = code[exe[p]] THEN "current" ELSE "download")
  /\ together' = IF Doing("update") = {p} THEN together ELSE together \cup Doing("update")
  /\ UNCHANGED <<bin, code, was, exe, temp, second, target, fd, nested, stray>>

Sharing(s) == {q \in Doing("update") : second[q] = s /\ at[q] \notin {"check", "download"}}

\* downloadBinary, up to os.Create, which empties a file that is there.
CreateTemp(p) ==
  /\ at[p] = "download"
  /\ \/ Fault(p, "failed") /\ UNCHANGED <<second, temp>>
     \/ \E s \in Second :
          /\ Meets(p, Sharing(s), "fetch")
          /\ second' = [second EXCEPT ![p] = s]
          /\ temp' = [temp EXCEPT ![s] = Broken]
  /\ UNCHANGED <<bin, code, was, exe, release, target, fd, nested, stray, together>>

\* ... and after it.  A file that is not complete is not removed.  What comes
\* may be a binary that does not run here.
Fetch(p) ==
  /\ at[p] = "fetch"
  /\ \/ Fault(p, "failed") /\ UNCHANGED temp
     \/ /\ Goto(p, "verify")
        /\ \E c \in {release[p], Broken} :
             temp' = IF temp[second[p]] = None THEN temp ELSE [temp EXCEPT ![second[p]] = c]
  /\ UNCHANGED <<bin, code, was, exe, release, second, target, fd, nested, stray, together>>

RemoveTemp(p) == temp' = [temp EXCEPT ![second[p]] = None]

\* Mutant: whatever was downloaded is installed.
VerifyBinary_Trusts(p) ==
  /\ at[p] = "verify"
  /\ Goto(p, "locate") /\ UNCHANGED temp
  /\ UNCHANGED <<bin, code, was, exe, release, second, target, fd, nested, stray, together>>

VerifyBinary(p) ==
  /\ at[p] = "verify"
  /\ \/ temp[second[p]] \in Version /\ Goto(p, "locate") /\ UNCHANGED temp
     \/ temp[second[p]] \notin Version /\ Fail(p) /\ RemoveTemp(p)
  /\ UNCHANGED <<bin, code, was, exe, release, second, target, fd, nested, stray, together>>

\* os.Executable: a name, which the binary may lose before it is used.
Executable(p) ==
  /\ at[p] = "locate"
  /\ \/ /\ Goto(p, "backup") /\ UNCHANGED temp
        /\ target' = [target EXCEPT ![p] = was[exe[p]]]
     \/ Fault(p, "failed") /\ RemoveTemp(p) /\ UNCHANGED target
  /\ UNCHANGED <<bin, code, was, exe, release, second, fd, nested, stray, together>>

\* os.Rename: a binary that had the name m loses it.
Rename(n, m) ==
  /\ bin' = [bin EXCEPT ![n] = None, ![m] = bin[n]]
  /\ was' = [was EXCEPT ![bin[n]] = m]

\* The first rename: of whatever has that name now.
MoveAside(p) ==
  /\ at[p] = "backup"
  /\ LET n == target[p]
     IN  \/ /\ bin[n] # None /\ n < Depth
            /\ Rename(n, n + 1) /\ Goto(p, "create") /\ UNCHANGED temp
            /\ stray' = (stray \/ bin[n] # exe[p])
         \/ /\ bin[n] = None /\ Fail(p)
            /\ RemoveTemp(p) /\ UNCHANGED <<bin, was, stray>>
         \/ Fault(p, "failed") /\ RemoveTemp(p) /\ UNCHANGED <<bin, was, stray>>
  /\ UNCHANGED <<code, exe, release, second, target, fd, nested, together>>

\* A file that is being run cannot be opened for writing.
Busy(n) == bin[n] # None /\ \E q \in Alive : exe[q] = bin[n]

\* copyFile, up to os.Create: a new binary, or the one of that name emptied.
CreateBinary(p) ==
  /\ at[p] = "create"
  /\ LET n == target[p]
         b == IF bin[n] = None THEN p ELSE bin[n]
     IN  \/ /\ temp[second[p]] # None /\ ~Busy(n)
            /\ bin' = [bin EXCEPT ![n] = b]
            /\ code' = [code EXCEPT ![b] = Broken]
            /\ was' = [was EXCEPT ![b] = n]
            /\ fd' = [fd EXCEPT ![p] = b]
            /\ Goto(p, "copy")
         \/ /\ temp[second[p]] = None \/ Busy(n)
            /\ Goto(p, "undo") /\ UNCHANGED <<bin, code, was, fd>>
         \/ Fault(p, "undo") /\ UNCHANGED <<bin, code, was, fd>>
  /\ UNCHANGED <<exe, temp, release, second, target, nested, stray, together>>

\* Without mode bits what was written runs only if the file was there before.
Unmarked(p) ==
  code' \in {code} \cup (IF fd[p] = p THEN {}
                         ELSE {[code EXCEPT ![fd[p]] = c] :
                                 c \in {release[p], temp[second[p]]} \ {None}})

\* Mutant: that the mode bits cannot be set is ignored.
CopyBinary_ErrorIgnored(p) ==
  /\ at[p] = "copy"
  /\ \/ /\ temp[second[p]] # None /\ bin[target[p]] = fd[p] /\ Goto(p, "tidy")
        /\ code' = [code EXCEPT ![fd[p]] = temp[second[p]]]
     \/ bin[target[p]] # fd[p] /\ Goto(p, "tidy") /\ Unmarked(p)
     \/ Fault(p, "undo") /\ Unmarked(p)
  /\ UNCHANGED <<bin, was, exe, temp, release, second, target, fd, nested, stray, together>>

\* ... and after it.  The mode bits are those of the download, found by its
\* name, and are given to what has the name of the binary.
CopyBinary(p) ==
  /\ at[p] = "copy"
  /\ LET found == temp[second[p]] # None
         n == target[p]
     IN  \/ /\ found /\ bin[n] = fd[p] /\ Goto(p, "tidy")
            /\ code' = [code EXCEPT ![fd[p]] = temp[second[p]]]
         \/ found /\ bin[n] \notin {None, fd[p]} /\ Goto(p, "tidy") /\ Unmarked(p)
         \/ (~found \/ bin[n] = None) /\ Goto(p, "undo") /\ Unmarked(p)
         \/ Fault(p, "undo") /\ Unmarked(p)
  /\ UNCHANGED <<bin, was, exe, temp, release, second, target, fd, nested, stray, together>>

\* The binary is moved back, or the error is ignored.
Undo(p) ==
  /\ at[p] = "undo"
  /\ LET n == target[p]
     IN  \/ bin[n + 1] # None /\ Rename(n + 1, n) /\ Fail(p)
         \/ bin[n + 1] = None /\ Fail(p) /\ UNCHANGED <<bin, was>>
         \/ Fault(p, "failed") /\ UNCHANGED <<bin, was>>
  /\ RemoveTemp(p)
  /\ UNCHANGED <<code, exe, release, second, target, fd, nested, stray, together>>

\* The backup is removed, or the error is ignored; then the download is.
Tidy(p) ==
  /\ at[p] = "tidy"
  /\ Goto(p, "updated")
  /\ bin' \in {[bin EXCEPT ![target[p] + 1] = None], bin}
  /\ RemoveTemp(p)
  /\ UNCHANGED <<code, was, exe, release, second, target, fd, nested, stray, together>>

Update(p) ==
  \/ CheckForUpdates(p) \/ CreateTemp(p) \/ Fetch(p) \/ VerifyBinary(p)
  \/ Executable(p) \/ MoveAside(p) \/ CreateBinary(p) \/ CopyBinary(p) \/ Undo(p) \/ Tidy(p)
=============================================================================
