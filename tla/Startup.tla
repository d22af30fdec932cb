------------------------------ MODULE Startup ------------------------------
(***************************************************************************)
(* main, from its flags and its environment to a server that runs: mode,   *)
(* paths, server.yml, the PID file and the store.  Lifecycle has the PID   *)
(* file and the shutdown in detail, AdminSetup what setup makes of it.     *)
(*                                                                         *)
(* Of the settings the mode stands for all that a flag or the environment  *)
(* puts over server.yml; it is the one that Validate can refuse.           *)
(***************************************************************************)
EXTENDS Backup

CONSTANTS
  Setting,   \* flags and environments a server is started with
  Saved      \* modes that an operator writes into server.yml

ASSUME StartupAssumption ==
  /\ Setting # {}
  /\ Setting \subseteq [modeFlag : STRING, modeEnv : STRING, debugFlag : BOOLEAN,
                        debugEnv : STRING, root : BOOLEAN, data : Seq(STRING),
                        database : Seq(STRING)]

VARIABLES
  yml,      \* the mode in server.yml; None without one, Torn in one half written
  with,     \* of a process: its setting
  mode,     \* of a process: the mode of its configuration
  edited    \* history: an operator has written to server.yml

startupVars == <<yml, with, mode, edited>>

\* What ParseBool takes for true and for false, in lower case.
Truthy ==
  {"1", "y", "t", "yes", "true", "on", "ok", "enable", "enabled", "yep", "yup", "yeah",
   "aye", "si", "oui", "da", "hai", "affirmative", "accept", "allow", "grant", "sure",
   "totally"}
Falsy ==
  {"0", "n", "f", "no", "false", "off", "disable", "disabled", "nope", "nah", "nay",
   "nein", "non", "niet", "iie", "lie", "negative", "reject", "block", "revoke", "deny",
   "never", "noway"}

\* The mode of config.Default.
DefaultMode == "production"

\* A flag goes before the environment.
OrEnv(flag, env) == IF flag = "" THEN env ELSE flag

\* The mode server.New is given; server.yml has no part in it.
DetectMode(s) ==
  CASE OrEnv(s.modeFlag, s.modeEnv) \in {"", "prod", "production"} -> "production"
    [] OrEnv(s.modeFlag, s.modeEnv) \in {"dev", "development"}     -> "development"
    [] OTHER -> "invalid"

DebugIsValid(s) == s.debugFlag \/ s.debugEnv \in {""} \cup Truthy \cup Falsy

\* paths.Detect with the overrides, then DATABASE_DIR.
PathsOf(s) ==
  LET p == Detect(host, s.root, [NoOverrides EXCEPT !.data = s.data])
  IN  [p EXCEPT !.DB = IF s.database = <<>> THEN @ ELSE s.database]

ServesDefault(p) == PathsOf(with[p]).Data = Default.Data

Validates(m) == m \in {"production", "development"}

\* A mode is the default, was saved by an operator, or comes with a setting.
Mode == {"", DefaultMode} \cup Saved \cup {OrEnv(s.modeFlag, s.modeEnv) : s \in Setting}

StartupTypeOK ==
  /\ yml \in {None, Torn} \cup Mode
  /\ with \in [Proc -> Setting]
  /\ mode \in [Proc -> Mode]
  /\ edited \in BOOLEAN

StartupInit ==
  /\ yml = None
  /\ with = [p \in Proc |-> CHOOSE s \in Setting : TRUE]
  /\ mode = [p \in Proc |-> ""]
  /\ edited = FALSE

-----------------------------------------------------------------------------

\* mode.Detect.
DetectFlags(p) ==
  /\ at[p] = "flags"
  /\ \E s \in Setting :
       /\ with' = [with EXCEPT ![p] = s]
       /\ Goto(p, IF DetectMode(s) = "invalid" \/ ~DebugIsValid(s) THEN "failed" ELSE "ensure")
  /\ UNCHANGED <<yml, mode, edited, backupVars>>

\* Ensure stops at the first directory it cannot make.
Ensure(p) ==
  /\ at[p] = "ensure"
  /\ LET dirs == Ensured(PathsOf(with[p]))
         first(n) == UNION {MkdirAll(dirs[i]) : i \in 1..n}
     IN  \/ Goto(p, "load") /\ made' = made \cup first(Len(dirs))
         \/ \E n \in 0..(Len(dirs) - 1) : Fault(p, "failed") /\ made' = made \cup first(n)
  /\ UNCHANGED <<startupVars, host, data, tar, enc, dec, stamp, todo, got, open, lost, stirred>>

\* config.Load, and the flags over it.  What is left of a file half written
\* may be refused, and may be taken for all of it.
Load(p) ==
  /\ at[p] = "load"
  /\ LET flag == OrEnv(with[p].modeFlag, with[p].modeEnv)
         take(m) == mode' = [mode EXCEPT ![p] = OrEnv(flag, m)] /\ Goto(p, "validate")
     IN  \/ yml \in {None, Torn} /\ take(DefaultMode)
         \/ yml = Torn /\ Fail(p) /\ UNCHANGED mode
         \/ yml \notin {None, Torn} /\ take(yml)
         \/ yml # None /\ Fault(p, "failed") /\ UNCHANGED mode
  /\ UNCHANGED <<yml, with, edited, backupVars>>

\* Mutant: the configuration is saved first and then looked at.
Validate_AfterSave(p) ==
  /\ at[p] = "validate"
  /\ yml' = IF yml = None THEN mode[p] ELSE yml
  /\ Goto(p, IF Validates(mode[p]) THEN "save" ELSE "failed")
  /\ UNCHANGED <<with, mode, edited, backupVars>>

Validate(p) ==
  /\ at[p] = "validate"
  /\ Goto(p, IF Validates(mode[p]) THEN "save" ELSE "failed")
  /\ UNCHANGED <<startupVars, backupVars>>

\* The first start saves its configuration, its flags with it; a failure is
\* only a warning.  Two starts can find no file.
Save(p) ==
  /\ at[p] = "save"
  /\ Goto(p, IF yml = None THEN "empty" ELSE "pid")
  /\ UNCHANGED <<startupVars, backupVars>>

\* os.WriteFile empties the file, or creates it ...
Empty(p) ==
  /\ at[p] = "empty"
  /\ \/ Goto(p, "fill") /\ yml' = Torn
     \/ Fault(p, "pid") /\ UNCHANGED yml
  /\ UNCHANGED <<with, mode, edited, backupVars>>

\* ... and fills it; over what another start has filled in, the rest of which stays.
Fill(p) ==
  /\ at[p] = "fill"
  /\ \/ Goto(p, "pid") /\ yml' \in {mode[p]} \cup (IF yml = Torn THEN {} ELSE {Torn})
     \/ Fault(p, "pid") /\ yml' \in {yml, Torn}
  /\ UNCHANGED <<with, mode, edited, backupVars>>

\* WritePIDFile: another server runs, or is taken to.
WritePIDFile(p) ==
  /\ at[p] = "pid"
  /\ \/ Goto(p, "store") \/ Goto(p, "refused") \/ Fault(p, "failed")
  /\ UNCHANGED <<startupVars, backupVars>>

\* server.New opens the database where it always does.
OpenDatabase(p) ==
  /\ at[p] = "store"
  /\ \/ Database(PathsOf(with[p])) \in made /\ Goto(p, "serving")
     \/ Database(PathsOf(with[p])) \notin made /\ Fail(p)
     \/ Fault(p, "failed")
  /\ UNCHANGED <<startupVars, backupVars>>

\* The database's files while it serves: written, created and removed.
ServeAndWrite(p) ==
  /\ at[p] = "serving"
  /\ ServesDefault(p)
  /\ \E f \in File, c \in Value \cup {None} : data[f] # c /\ Write(p, f, c)
  /\ UNCHANGED <<commandVars, startupVars, host, made, tar, enc, dec, stamp, todo, got, open, lost>>

StopServing(p) ==
  /\ at[p] = "serving"
  /\ Goto(p, "ended")
  /\ UNCHANGED <<startupVars, backupVars>>

\* An operator writes to server.yml; bound: once, and while nothing runs.
Edit ==
  /\ ~edited
  /\ yml # None
  /\ Alive = {}
  /\ edited' = TRUE
  /\ yml' \in Saved
  /\ UNCHANGED <<commandVars, with, mode, backupVars>>

Serve(p) ==
  \/ DetectFlags(p) \/ Ensure(p) \/ Load(p) \/ Validate(p) \/ Save(p) \/ Empty(p) \/ Fill(p)
  \/ WritePIDFile(p) \/ OpenDatabase(p) \/ ServeAndWrite(p) \/ StopServing(p)
=============================================================================
