----------------------------- MODULE Deployment -----------------------------
(* Containers start: each upgrades the schema to head and then serves, with  *)
(* workers, or exits and is restarted.  Two may start at once, one may die   *)
(* within its migration, and an operator may downgrade while all are down.   *)
EXTENDS Migrations, TaskRunner

CONSTANTS
  Oldest,         \* the least version a database may have at first
  MaxCrashes,     \* bound: deaths of containers, failures of alembic
  MaxDowngrades   \* bound: downgrades by an operator

ASSUME DeploymentAssumption ==
  /\ Oldest \in 0..LastRevision
  /\ MaxCrashes \in Nat
  /\ MaxDowngrades \in Nat
  /\ MaxLoops \in Nat

\* A process of TaskRunner is the worker of a container.
Containers == Processes

VARIABLES
  schema,     \* the committed schema
  version,    \* the row of alembic_version, 0 for none
  container,  \* container[c]: how far the start script is
  crashes,
  downgrades

deployVars == <<schema, version, container, crashes, downgrades>>

vars == <<deployVars, taskVars>>

\* base: the version it read.
Off == [at |-> "off", base |-> 0]

-----------------------------------------------------------------------------
\* Variant: the number of the revision to come is taken.
ReadVersionNext(c) ==
  /\ container[c] = Off
  /\ container' = [container EXCEPT ![c] = [at |-> "read", base |-> version + 1]]
  /\ UNCHANGED <<schema, version, crashes, downgrades>>

\* alembic upgrade head: a transaction begins, the version is read.
ReadVersion(c) ==
  /\ container[c] = Off
  /\ container' = [container EXCEPT ![c] = [at |-> "read", base |-> version]]
  /\ UNCHANGED <<schema, version, crashes, downgrades>>

\* Variant: who has read the version holds a lock that is shared, until the end.
LockUpgraded(c) ==
  /\ container[c].at = "read"
  /\ container[c].base < LastRevision
  /\ \A d \in Containers \ {c} : container[d].at \notin {"read", "locked"}
  /\ container' = [container EXCEPT ![c].at = "locked"]
  /\ UNCHANGED <<schema, version, crashes, downgrades>>

\* Its first statement waits for a transaction that has issued the same one:
\* for the lock on a table, or for the name in the catalog.
Lock(c) ==
  /\ container[c].at = "read"
  /\ container[c].base < LastRevision
  /\ \A d \in Containers : container[d].at # "locked"
  /\ container' = [container EXCEPT ![c].at = "locked"]
  /\ UNCHANGED <<schema, version, crashes, downgrades>>

\* All revisions in one transaction, in which each expects to find the version
\* of the one before; a failure rolls everything back and ends the script.
Migrate(c) ==
  /\ container[c].at = "locked"
  /\ LET S == Upgraded(schema, container[c].base)
     IN IF S # Failed /\ version = container[c].base
        THEN /\ schema' = S
             /\ version' = LastRevision
             /\ container' = [container EXCEPT ![c].at = "serving"]
        ELSE /\ container' = [container EXCEPT ![c] = Off]
             /\ UNCHANGED <<schema, version>>
  /\ UNCHANGED <<crashes, downgrades>>

\* Nothing to upgrade.
Serve(c) ==
  /\ container[c].at = "read"
  /\ container[c].base = LastRevision
  /\ container' = [container EXCEPT ![c].at = "serving"]
  /\ UNCHANGED <<schema, version, crashes, downgrades>>

\* Variant: DDL that is committed statement by statement.
CrashMidway(c) ==
  /\ container[c] # Off
  /\ crashes < MaxCrashes
  /\ crashes' = crashes + 1
  /\ container' = [container EXCEPT ![c] = Off]
  /\ schema' = IF container[c].at = "locked" /\ version < LastRevision
               THEN Upgrades(schema, version, version + 1) ELSE schema
  /\ UNCHANGED <<version, downgrades>>

\* Variant: the script goes on after a failure (no set -e).
AlembicFailsUnnoticed(c) ==
  /\ container[c].at \in {"read", "locked"}
  /\ crashes < MaxCrashes
  /\ crashes' = crashes + 1
  /\ container' = [container EXCEPT ![c].at = "serving"]
  /\ UNCHANGED <<schema, version, downgrades>>

\* alembic fails, the database being away: its transaction is rolled back, the
\* script ends.
AlembicFails(c) ==
  /\ container[c].at \in {"read", "locked"}
  /\ crashes < MaxCrashes
  /\ crashes' = crashes + 1
  /\ container' = [container EXCEPT ![c] = Off]
  /\ UNCHANGED <<schema, version, downgrades>>

\* The container dies or is stopped; an open transaction is rolled back.
Crash(c) ==
  /\ container[c] # Off
  /\ crashes < MaxCrashes
  /\ crashes' = crashes + 1
  /\ container' = [container EXCEPT ![c] = Off]
  /\ UNCHANGED <<schema, version, downgrades>>

\* alembic downgrade -1, with everything down.
Downgrade ==
  /\ \A c \in Containers : container[c] = Off
  /\ version > 0
  /\ downgrades < MaxDowngrades
  /\ downgrades' = downgrades + 1
  /\ schema' = Downgraded(schema, version)
  /\ version' = version - 1
  /\ UNCHANGED <<container, crashes>>

-----------------------------------------------------------------------------
Init ==
  /\ version \in Oldest..LastRevision
  /\ schema = SchemaOf[version]
  /\ container = [c \in Containers |-> Off]
  /\ crashes = 0
  /\ downgrades = 0
  /\ TasksInit

Start(c) == ReadVersion(c) \/ Lock(c) \/ Migrate(c) \/ Serve(c)

Next ==
  \/ Downgrade /\ UNCHANGED taskVars
  \/ \E c \in Containers :
       \/ (Start(c) \/ AlembicFails(c)) /\ UNCHANGED taskVars
       \/ Crash(c) /\ NewProcess(c)
       \/ container[c].at = "serving" /\ RunTask(c) /\ UNCHANGED deployVars

\* A container that has exited is started again, and what it does goes on.
Spec == Init /\ [][Next]_vars /\ \A c \in Containers : WF_deployVars(Start(c))

-----------------------------------------------------------------------------
TypeOK ==
  /\ version \in 0..LastRevision
  /\ Names(schema) \subseteq Tables \cup DOMAIN IndexOf \cup {"vector", "pgcrypto"}
  /\ container \in [Containers -> [at : {"off", "read", "locked", "serving"}, base : 0..LastRevision]]
  /\ loop \in [Containers -> 0..MaxLoops]
  /\ task \in [Containers -> {"idle", "running", "returned", "raised"}]

\* The schema is that of the version, neither half a revision ahead nor behind,
\* however often it was upgraded, by two at once or in vain, and downgraded.
SchemaFollowsVersion ==
  WithoutExtensions(schema) = WithoutExtensions(SchemaOf[version])

\* The code serves only on a schema that has every table and index its models
\* declare.
ServesDeclaredSchema ==
  (\E c \in Containers : container[c].at = "serving") => Declared \subseteq Names(schema)

\* Every container comes to serve, those that lost the race for the migration,
\* that died in it, or that found the schema downgraded included.
EveryoneServes == \A c \in Containers : <>[](container[c].at = "serving")

=============================================================================
