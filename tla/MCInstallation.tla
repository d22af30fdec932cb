--------------------------- MODULE MCInstallation ---------------------------
(* Small instances of Installation. *)
EXTENDS Installation, TLC

MCHosts == [os : {"linux"}, container : BOOLEAN]

Plain == [modeFlag |-> "", modeEnv |-> "", debugFlag |-> FALSE, debugEnv |-> "",
          root |-> TRUE, data |-> <<>>, database |-> <<>>]

MCSetting ==
  {Plain, [Plain EXCEPT !.modeFlag = "dev"], [Plain EXCEPT !.modeEnv = "development"],
   [Plain EXCEPT !.debugEnv = "maybe"],
   [Plain EXCEPT !.root = FALSE, !.data = <<"srv">>, !.database = <<"ssd">>]}

Alike == Permutations(Proc) \cup Permutations(File) \cup Permutations(Value)
           \cup Permutations(Second)

\* The tables: the database is opened where Ensure makes a directory for it,
\* but for the table of Windows that isRunningAsRoot never chooses; and only
\* a container has its backups among its data.
ASSUME TablesAssumption ==
  \A h \in Host, r \in BOOLEAN :
    LET p == Detect(h, r, NoOverrides)
    IN  /\ \E i \in DOMAIN Ensured(p) : Ensured(p)[i] = Database(p)
        /\ Within(p.Backup, p.Data) <=> h.container
=============================================================================
