------------------------------ MODULE Commands ------------------------------
(***************************************************************************)
(* The processes of an installation.  Each is one invocation of the binary *)
(* and carries out one command of main: the server, --maintenance backup,  *)
(* --maintenance restore or --update yes.  Any of them may be killed       *)
(* between two of its steps, and any step that reads or writes may fail.   *)
(***************************************************************************)
EXTENDS Naturals, FiniteSets

CONSTANTS
  Proc,   \* processes: a process id is one process
  None    \* no file

VARIABLES
  at,     \* of a process: the step it is at
  cmd,    \* its command
  hurt,   \* history: processes that an operation of the system has failed
  clash   \* history: processes that shared the name of a file with another

commandVars == <<at, cmd, hurt, clash>>

Command == {"serve", "backup", "restore", "update"}

\* How a command ends: with a report of success, with one of failure, or not.
Success == {"ended", "backedUp", "restored", "updated", "current"}
Over == Success \cup {"failed", "refused", "killed"}

Alive == {p \in Proc : at[p] # "unborn" /\ at[p] \notin Over}
Doing(c) == {p \in Alive : cmd[p] = c}

Goto(p, l) == at' = [at EXCEPT ![p] = l] /\ UNCHANGED <<cmd, hurt, clash>>
Fail(p) == Goto(p, "failed")

\* An operation of the system fails, and the process goes on at l.
Fault(p, l) ==
  /\ at' = [at EXCEPT ![p] = l]
  /\ hurt' = hurt \cup {p}
  /\ UNCHANGED <<cmd, clash>>

\* The process goes on with a file whose name those in S work with, too.
Meets(p, S, l) ==
  /\ at' = [at EXCEPT ![p] = l]
  /\ clash' = IF S \ {p} = {} THEN clash ELSE clash \cup S \cup {p}
  /\ UNCHANGED <<cmd, hurt>>

CommandTypeOK ==
  /\ DOMAIN at = Proc
  /\ cmd \in [Proc -> Command]
  /\ hurt \subseteq Proc
  /\ clash \subseteq Proc

CommandInit ==
  /\ at = [p \in Proc |-> "unborn"]
  /\ cmd = [p \in Proc |-> "serve"]
  /\ hurt = {}
  /\ clash = {}

\* main gets to the command c, whose first step is l.
Launch(p, c, l) ==
  /\ at[p] = "unborn"
  /\ at' = [at EXCEPT ![p] = l]
  /\ cmd' = [cmd EXCEPT ![p] = c]
  /\ UNCHANGED <<hurt, clash>>

Kill(p) == p \in Alive /\ Goto(p, "killed")
=============================================================================
