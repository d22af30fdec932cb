------------------------------- MODULE Backup -------------------------------
(***************************************************************************)
(* --maintenance backup and --maintenance restore.  A backup is an archive *)
(* of the data directory, written in the clear beside its final name,      *)
(* encrypted into that, and removed; a restore decrypts beside the backup  *)
(* and extracts over the data directory.  A server may be writing there.   *)
(*                                                                         *)
(* Both work on the paths of paths.Detect without any override.            *)
(***************************************************************************)
EXTENDS Commands, Paths

CONSTANTS
  File,        \* files of the data directory
  Value,       \* what may be in a file
  Stamps,      \* bound: backup names are 1..Stamps, in their order
  MaxBackups,  \* 4 in main
  Torn         \* a file that was created and not filled

Stamp == 1..Stamps

\* Systems the program is built for, and whether it runs in a container there.
Host == [os : {"linux", "darwin", "bsd", "windows"}, container : BOOLEAN]

VARIABLES
  host,    \* [os, container]
  made,    \* directories that exist
  data,    \* the default data directory
  tar,     \* of a stamp: backup-<stamp>.tar.gz.enc.tmp
  enc,     \* of a stamp: backup-<stamp>.tar.gz.enc
  dec,     \* of a stamp: backup-<stamp>.tar.gz.enc.decrypted
  stamp,   \* of a process: that of the backup it makes or restores
  todo,    \* of a process: the files it has still to archive or extract
  got,     \* of a process: what it has archived, or is to extract
  open,    \* of a process: the file it is extracting
  lost,    \* history: processes whose archive was not written out, untold
  stirred  \* history: processes that have seen others write the data

backupVars == <<host, made, data, tar, enc, dec, stamp, todo, got, open, lost, stirred>>

\* An archive: what is in it, and whether it has its end.  A file that was
\* created for one and has not been filled is an archive of nothing.
Content == Value \cup {None, Torn}
Archive == [files : [File -> Content], whole : BOOLEAN]
Blank == [files |-> [f \in File |-> None], whole |-> FALSE]

ASSUME BackupAssumption ==
  /\ Stamps \in Nat \ {0} /\ MaxBackups \in Nat \ {0}
  /\ File # {}
  /\ None # Torn /\ {None, Torn} \cap (Value \cup Archive) = {}

Default == Detect(host, TRUE, NoOverrides)
There == Default.Data \in made

\* The directories are a tree; a backup that is not all written is Torn.
BackupTypeOK ==
  /\ host \in Host
  /\ \A d \in made : \A n \in 1..Len(d) : SubSeq(d, 1, n) \in made
  /\ data \in [File -> Content]
  /\ tar \in [Stamp -> Archive \cup {None}]
  /\ enc \in [Stamp -> Archive \cup {None, Torn}]
  /\ dec \in [Stamp -> Archive \cup {None}]
  /\ stamp \in [Proc -> Stamp]
  /\ todo \in [Proc -> SUBSET File]
  /\ got \in [Proc -> Archive]
  /\ open \in [Proc -> File]
  /\ lost \subseteq Proc
  /\ stirred \subseteq Proc

BackupInit ==
  /\ tar = [s \in Stamp |-> None]
  /\ dec = [s \in Stamp |-> None]
  /\ stamp = [p \in Proc |-> 1]
  /\ todo = [p \in Proc |-> {}]
  /\ got = [p \in Proc |-> Blank]
  /\ open = [p \in Proc |-> CHOOSE f \in File : TRUE]
  /\ lost = {}
  /\ stirred = {}

\* The process p writes c to the file f of the default data directory.
Write(p, f, c) ==
  /\ data' = [data EXCEPT ![f] = c]
  /\ stirred' = stirred \cup (Alive \ {p})

Sharers(s) ==
  {q \in Doing("backup") \cup Doing("restore") :
     stamp[q] = s /\ at[q] \notin {"key", "choose"}}

RemoveTar(p) == tar' = [tar EXCEPT ![stamp[p]] = None]
RemoveDec(p) == dec' = [dec EXCEPT ![stamp[p]] = None]

-----------------------------------------------------------------------------
(* CreateBackup. *)

\* The key is looked at, the backup is named, its directory and its plain
\* archive are created.
CreateTar(p) ==
  /\ at[p] = "key"
  /\ \/ Goto(p, "refused") /\ UNCHANGED <<made, tar, stamp>>
     \/ Fault(p, "failed") /\ UNCHANGED <<made, tar, stamp>>
     \/ \E s \in Stamp :
          /\ stamp' = [stamp EXCEPT ![p] = s]
          /\ made' = made \cup MkdirAll(Default.Backup)
          /\ tar' = [tar EXCEPT ![s] = Blank]
          /\ Meets(p, Sharers(s), "list")
  /\ UNCHANGED <<host, data, enc, dec, todo, got, open, lost, stirred>>

\* The walk begins.  Where the backups are among the data, it meets the very
\* archive it writes: the header of that has no bytes in it when nothing has
\* been archived yet, and then the file has some, which the writer refuses;
\* otherwise it depends on how much of the archive is still in its buffers.
ListFiles(p) ==
  /\ at[p] = "list"
  /\ LET meetsItself == Within(Default.Backup, Default.Data)
         older == \E s \in Stamp : s < stamp[p] /\ (tar[s] # None \/ enc[s] # None)
     IN  \/ /\ ~There \/ meetsItself
            /\ Fail(p) /\ UNCHANGED <<todo, got>>
         \/ Fault(p, "failed") /\ UNCHANGED <<todo, got>>
         \/ /\ There /\ (meetsItself => older)
            /\ todo' = [todo EXCEPT ![p] = {f \in File : data[f] # None}]
            /\ got' = [got EXCEPT ![p] = Blank]
            /\ Goto(p, "walk")
  /\ UNCHANGED <<host, made, data, tar, enc, dec, stamp, open, lost, stirred>>

\* A file of the directory is archived.  One that was listed and is gone, or
\* whose size changes under the walk, ends it.
WalkFile(p) ==
  /\ at[p] = "walk"
  /\ \E f \in todo[p] :
       \/ /\ data[f] = None \/ p \in stirred
          /\ Fail(p) /\ UNCHANGED <<todo, got>>
       \/ Fault(p, "failed") /\ UNCHANGED <<todo, got>>
       \/ /\ data[f] # None
          /\ todo' = [todo EXCEPT ![p] = @ \ {f}]
          /\ got' = [got EXCEPT ![p].files[f] = data[f]]
          /\ Goto(p, "walk")
  /\ UNCHANGED <<host, made, data, tar, enc, dec, stamp, open, lost, stirred>>

\* The deferred calls of Close write out what is left, and their errors are
\* dropped.  Of two writers of one file, either may be the last.
CloseTar(p) ==
  /\ at[p] = "walk" /\ todo[p] = {}
  /\ Goto(p, "encrypt")
  /\ LET s == stamp[p]
         closed == [got[p] EXCEPT !.whole = TRUE]
     IN  \/ /\ \E a \in (IF p \in clash THEN {tar[s], Blank, closed} ELSE {closed}) :
                 tar' = IF tar[s] = None THEN tar ELSE [tar EXCEPT ![s] = a]
            /\ UNCHANGED lost
         \/ /\ tar' = IF tar[s] = None THEN tar ELSE [tar EXCEPT ![s] = got[p]]
            /\ lost' = lost \cup {p}
  /\ UNCHANGED <<host, made, data, enc, dec, stamp, todo, got, open, stirred>>

\* encryptFile, up to the creation of the backup.
Encrypt(p) ==
  /\ at[p] = "encrypt"
  /\ LET s == stamp[p]
     IN  \/ tar[s] = None /\ Fail(p) /\ UNCHANGED <<tar, enc, got>>
         \/ Fault(p, "failed") /\ RemoveTar(p) /\ UNCHANGED <<enc, got>>
         \/ /\ tar[s] # None
            /\ got' = [got EXCEPT ![p] = tar[s]]
            /\ enc' = [enc EXCEPT ![s] = Torn]
            /\ Goto(p, "seal") /\ UNCHANGED tar
  /\ UNCHANGED <<host, made, data, dec, stamp, todo, open, lost, stirred>>

\* Mutant: an error of the encryption is dropped.
Seal_ErrorIgnored(p) ==
  /\ at[p] = "seal"
  /\ \/ Fault(p, "clean") /\ UNCHANGED <<tar, enc>>
     \/ /\ Goto(p, "clean") /\ UNCHANGED tar
        /\ enc' = [enc EXCEPT ![stamp[p]] = got[p]]
  /\ UNCHANGED <<host, made, data, dec, stamp, todo, got, open, lost, stirred>>

\* ... and after it.
Seal(p) ==
  /\ at[p] = "seal"
  /\ \/ Fault(p, "failed") /\ RemoveTar(p) /\ UNCHANGED enc
     \/ /\ \E a \in {got[p]} \cup (IF p \in clash THEN {Torn} ELSE {}) :
             enc' = IF enc[stamp[p]] = None THEN enc ELSE [enc EXCEPT ![stamp[p]] = a]
        /\ Goto(p, "clean") /\ UNCHANGED tar
  /\ UNCHANGED <<host, made, data, dec, stamp, todo, got, open, lost, stirred>>

\* The first of the backups in the order of their names, whole or not; errors
\* are ignored.
cleanOldBackups(p) ==
  /\ at[p] = "clean"
  /\ LET there == {s \in Stamp : enc[s] # None}
         old == {s \in there : Cardinality({u \in there : u > s}) >= MaxBackups}
     IN  \E S \in SUBSET old : enc' = [s \in Stamp |-> IF s \in S THEN None ELSE enc[s]]
  /\ Goto(p, "unlink")
  /\ UNCHANGED <<host, made, data, tar, dec, stamp, todo, got, open, lost, stirred>>

\* The plain archive is removed, and the backup is reported.
ReportBackup(p) ==
  /\ at[p] = "unlink"
  /\ RemoveTar(p)
  /\ Goto(p, "backedUp")
  /\ UNCHANGED <<host, made, data, enc, dec, stamp, todo, got, open, lost, stirred>>

-----------------------------------------------------------------------------
(* RestoreBackup. *)

ChooseBackup(p) ==
  /\ at[p] = "choose"
  /\ \/ Goto(p, "refused") /\ UNCHANGED stamp
     \/ \E s \in Stamp :
          /\ enc[s] # None
          /\ stamp' = [stamp EXCEPT ![p] = s]
          /\ Meets(p, Sharers(s), "decrypt")
  /\ UNCHANGED <<host, made, data, tar, enc, dec, todo, got, open, lost, stirred>>

\* decryptFile, up to the creation of the decrypted file.  With another key,
\* or of a backup that is not whole, nothing is written.
Decrypt(p) ==
  /\ at[p] = "decrypt"
  /\ LET s == stamp[p]
     IN  \/ Goto(p, "refused") /\ UNCHANGED <<dec, got>>
         \/ enc[s] \in {None, Torn} /\ Fail(p) /\ UNCHANGED <<dec, got>>
         \/ Fault(p, "failed") /\ UNCHANGED <<dec, got>>
         \/ /\ enc[s] \notin {None, Torn}
            /\ got' = [got EXCEPT ![p] = enc[s]]
            /\ dec' = [dec EXCEPT ![s] = Blank]
            /\ Goto(p, "plain")
  /\ UNCHANGED <<host, made, data, tar, enc, stamp, todo, open, lost, stirred>>

\* ... and after it.
WriteDec(p) ==
  /\ at[p] = "plain"
  /\ \/ Fault(p, "failed") /\ UNCHANGED dec
     \/ /\ Goto(p, "open")
        /\ dec' = IF dec[stamp[p]] = None THEN dec ELSE [dec EXCEPT ![stamp[p]] = got[p]]
  /\ UNCHANGED <<host, made, data, tar, enc, stamp, todo, got, open, lost, stirred>>

\* extractArchive opens the decrypted file.
OpenDec(p) ==
  /\ at[p] = "open"
  /\ LET d == dec[stamp[p]]
     IN  \/ d = None /\ Fail(p) /\ UNCHANGED <<made, dec, todo, got>>
         \/ Fault(p, "failed") /\ RemoveDec(p) /\ UNCHANGED <<made, todo, got>>
         \/ /\ d # None
            /\ got' = [got EXCEPT ![p] = d]
            /\ todo' = [todo EXCEPT ![p] = {f \in File : d.files[f] # None}]
            /\ made' = IF todo'[p] = {} THEN made ELSE made \cup MkdirAll(Default.Data)
            /\ Goto(p, "extract") /\ UNCHANGED dec
  /\ UNCHANGED <<host, data, tar, enc, stamp, open, lost, stirred>>

\* A file of the archive: created, or emptied, ...
ExtractFile(p) ==
  /\ at[p] = "extract"
  /\ \E f \in todo[p] :
       \/ Fault(p, "failed") /\ RemoveDec(p) /\ UNCHANGED <<data, stirred, open>>
       \/ /\ Write(p, f, Torn)
          /\ open' = [open EXCEPT ![p] = f]
          /\ Goto(p, "copyFile") /\ UNCHANGED dec
  /\ UNCHANGED <<host, made, tar, enc, stamp, todo, got, lost>>

\* Mutant: a file that cannot be written is skipped.
CopyFile_Skips(p) ==
  /\ at[p] = "copyFile"
  /\ \/ Fault(p, "extract") /\ UNCHANGED <<data, stirred>>
     \/ Write(p, open[p], got[p].files[open[p]]) /\ Goto(p, "extract")
  /\ todo' = [todo EXCEPT ![p] = @ \ {open[p]}]
  /\ UNCHANGED <<host, made, tar, enc, dec, stamp, got, open, lost>>

\* ... and filled.
CopyFile(p) ==
  /\ at[p] = "copyFile"
  /\ \/ Fault(p, "failed") /\ RemoveDec(p) /\ UNCHANGED <<data, stirred, todo>>
     \/ /\ Write(p, open[p], got[p].files[open[p]])
        /\ todo' = [todo EXCEPT ![p] = @ \ {open[p]}]
        /\ Goto(p, "extract") /\ UNCHANGED dec
  /\ UNCHANGED <<host, made, tar, enc, stamp, got, open, lost>>

\* The end of the archive, or an error where it should be; the decrypted file
\* is removed.
ReportRestore(p) ==
  /\ at[p] = "extract" /\ todo[p] = {}
  /\ Goto(p, IF got[p].whole THEN "restored" ELSE "failed")
  /\ RemoveDec(p)
  /\ UNCHANGED <<host, made, data, tar, enc, stamp, todo, got, open, lost, stirred>>

MakeBackup(p) ==
  \/ CreateTar(p) \/ ListFiles(p) \/ WalkFile(p) \/ CloseTar(p)
  \/ Encrypt(p) \/ Seal(p) \/ cleanOldBackups(p) \/ ReportBackup(p)

RestoreBackup(p) ==
  \/ ChooseBackup(p) \/ Decrypt(p) \/ WriteDec(p) \/ OpenDec(p)
  \/ ExtractFile(p) \/ CopyFile(p) \/ ReportRestore(p)
=============================================================================
