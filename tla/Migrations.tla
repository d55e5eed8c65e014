----------------------------- MODULE Migrations -----------------------------
(***************************************************************************)
(* The migration runner every service starts with                          *)
(* (crates/document-adapters/src/migrate.rs).  Services start together, a  *)
(* statement fails, a process dies and is restarted.  Postgres holds the   *)
(* advisory lock for the connection that took it.                          *)
(***************************************************************************)
EXTENDS Integers, Sequences

CONSTANTS
  Services,
  Files,        \* number of embedded migrations, in order of their names
  MaxFaults     \* failed statements and processes that die

VARIABLES
  holder,       \* the service whose connection holds the lock, or "none"
  versions,     \* schema_migration
  schema,       \* the migrations executed and committed, in order
  start,        \* service -> its start-up
  faults

migrationVars == <<holder, versions, schema, start, faults>>

None == "none"
\* applied: the versions it read; next: the file it looks at; failed: apply_all's
\* result, which run returns once the lock is dealt with
NewStart == [pc |-> "lock", applied |-> {}, next |-> 1, failed |-> FALSE]

MigrationsInit ==
  /\ holder = None
  /\ \E n \in 0..Files : versions = 1..n /\ schema = [i \in 1..n |-> i]
  /\ start = [s \in Services |-> NewStart]
  /\ faults = 0

At(s, pc) == start[s].pc = pc
Goto(s, pc) == start' = [start EXCEPT ![s].pc = pc]
Ended(s) == start[s].pc \in {"up", "down"}

\* Slip: the lock is not waited for.
LockAny(s) ==
  /\ At(s, "lock")
  /\ holder' = s /\ Goto(s, "read")
  /\ UNCHANGED <<versions, schema, faults>>

\* pg_advisory_lock waits.
Lock(s) ==
  /\ At(s, "lock") /\ holder = None
  /\ holder' = s /\ Goto(s, "read")
  /\ UNCHANGED <<versions, schema, faults>>

\* apply_all: the table is created if need be, and what it lists is read once.
ReadApplied(s) ==
  /\ At(s, "read")
  /\ start' = [start EXCEPT ![s].pc = "apply", ![s].applied = versions]
  /\ UNCHANGED <<holder, versions, schema, faults>>

\* One file: passed over when it was listed, else executed and recorded in one
\* transaction.  The tables it creates, or the key of schema_migration, refuse
\* a second execution.
Apply(s) ==
  LET v == start[s].next IN
  /\ At(s, "apply")
  /\ IF v > Files THEN Goto(s, "unlock") /\ UNCHANGED <<versions, schema>>
     ELSE IF v \in start[s].applied
     THEN start' = [start EXCEPT ![s].next = v + 1] /\ UNCHANGED <<versions, schema>>
     ELSE IF v \in versions
     THEN /\ start' = [start EXCEPT ![s].pc = "unlock", ![s].failed = TRUE]
          /\ UNCHANGED <<versions, schema>>
     ELSE /\ versions' = versions \cup {v} /\ schema' = Append(schema, v)
          /\ start' = [start EXCEPT ![s].next = v + 1]
  /\ UNCHANGED <<holder, faults>>

\* A statement fails and its transaction is rolled back, or the answer to the
\* commit is lost: apply_all breaks off.
ApplyFails(s, lost) ==
  LET v == start[s].next IN
  /\ At(s, "read") \/ At(s, "apply")
  /\ faults < MaxFaults /\ faults' = faults + 1
  /\ start' = [start EXCEPT ![s].pc = "unlock", ![s].failed = TRUE]
  /\ IF lost
     THEN /\ At(s, "apply") /\ v <= Files /\ v \notin versions
          /\ versions' = versions \cup {v} /\ schema' = Append(schema, v)
     ELSE UNCHANGED <<versions, schema>>
  /\ UNCHANGED holder

\* The lock is released after a failure too; connect_postgres returns the
\* result, and a service whose start-up failed exits, its connections with it.
Unlock(s) ==
  /\ At(s, "unlock")
  /\ holder' = IF holder = s THEN None ELSE holder
  /\ Goto(s, IF start[s].failed THEN "down" ELSE "up")
  /\ UNCHANGED <<versions, schema, faults>>

\* A failed unlock is only logged: the pooled connection keeps the lock for as
\* long as the service runs.
UnlockFails(s) ==
  /\ At(s, "unlock") /\ faults < MaxFaults /\ faults' = faults + 1
  /\ Goto(s, IF start[s].failed THEN "down" ELSE "up")
  /\ holder' = IF start[s].failed /\ holder = s THEN None ELSE holder
  /\ UNCHANGED <<versions, schema>>

\* The process dies: Postgres ends its session, and the lock with it.
Die(s) ==
  /\ ~At(s, "down") /\ faults < MaxFaults /\ faults' = faults + 1
  /\ Goto(s, "down")
  /\ holder' = IF holder = s THEN None ELSE holder
  /\ UNCHANGED <<versions, schema>>

StartAgain(s) ==
  /\ At(s, "down") /\ start' = [start EXCEPT ![s] = NewStart]
  /\ UNCHANGED <<holder, versions, schema, faults>>

MigrationsNext ==
  \E s \in Services :
    \/ Lock(s) \/ ReadApplied(s) \/ Apply(s) \/ Unlock(s) \/ UnlockFails(s)
    \/ \E lost \in BOOLEAN : ApplyFails(s, lost)
    \/ Die(s) \/ StartAgain(s)

MigrationsSpec == MigrationsInit /\ [][MigrationsNext]_migrationVars

----------------------------------------------------------------------------
\* Concurrent startups are safe, as the runner's heading says: each migration
\* takes effect once and in order however often starting services overlap and
\* break off, a service that is up has all of them, and no start-up fails for
\* want of anything but a fault.
StartupsAreSafe ==
  /\ schema = [i \in 1..Len(schema) |-> i]
  /\ versions = 1..Len(schema)
  /\ \A s \in Services : At(s, "up") => Len(schema) = Files
  /\ faults = 0 => \A s \in Services : ~At(s, "down")
=============================================================================
