----------------------------- MODULE Bootstrap -----------------------------
(***************************************************************************)
(* How an installation comes to life: control-api and runs of              *)
(* `ccwadmin init-project` migrate one database (internal/store/           *)
(* postgres.go) and the latter then create an account, a project and a CDK *)
(* (internal/store/admin.go).  compose starts control-api again whenever   *)
(* it exits; a run of ccwadmin is a process of its own and ends for good.  *)
(*                                                                         *)
(* A step is one call to the database.  Of PostgreSQL the module takes     *)
(* that a transaction shows its effects at the commit only, that CREATE    *)
(* TABLE waits for another transaction that creates the same table, and    *)
(* that UNIQUE columns are unique.  Rows are named by the run that         *)
(* inserted them, as their ids are random.                                 *)
(***************************************************************************)
EXTENDS Naturals, FiniteSets

CONSTANTS
    Admins,      \* runs of ccwadmin init-project
    ControlApi,  \* the control-api process
    NoAdmin,     \* nobody: a free slug, no account yet
    Slugs,
    Files,       \* number of files in migrations/
    MaxFaults    \* bound on failing calls and killed processes

Processes == Admins \cup {ControlApi}
Migrations == 1 .. Files

ASSUME BootstrapAssumption ==
    /\ ControlApi \notin Admins /\ NoAdmin \notin Admins
    /\ Files \in Nat /\ MaxFaults \in Nat

VARIABLES
    proc,      \* where each process is
    file,      \* the migration it has come to
    applied,   \* how often each migration has been committed
    recorded,  \* the rows of schema_migrations
    slug,      \* the argument of each run
    account,   \* the account each run found or made, and gave its project
    accounts,  \* the rows of accounts that are named "default"
    project,   \* the project of each slug: the run that created it
    cdks,      \* the runs whose CDK has a row
    faults

schema == <<applied, recorded>>
rows == <<account, accounts, project, cdks>>
bootVars == <<proc, file, schema, slug, rows, faults>>

Fault == faults < MaxFaults /\ faults' = faults + 1

BootInit ==
    /\ proc = [p \in Processes |-> "off"]
    /\ file = [p \in Processes |-> 1]
    /\ applied = [m \in Migrations |-> 0]
    /\ recorded = {}
    /\ slug \in [Admins -> Slugs]
    /\ account = [a \in Admins |-> NoAdmin]
    /\ accounts = {}
    /\ project = [s \in Slugs |-> NoAdmin]
    /\ cdks = {}
    /\ faults = 0

-----------------------------------------------------------------------------
(* Pieces of the steps.  A definition whose name ends in Bug is a mistake  *)
(* the code could have made; no action uses it.                            *)

Goto(p, where) == proc' = [proc EXCEPT ![p] = where]

(* os.Exit(1).  An open transaction is rolled back: nothing of it was      *)
(* visible.                                                                *)
Exit(p) == Goto(p, IF p = ControlApi THEN "off" ELSE "failed")

NextFile(p) == file' = [file EXCEPT ![p] = @ + 1]

InTransaction == {"record", "commit"}
(* Another transaction has executed the same file and not ended yet. *)
Blocked(p) ==
    \E q \in Processes \ {p} : proc[q] \in InTransaction /\ file[q] = file[p]

-----------------------------------------------------------------------------
(* store.New and Migrate, the same in both programs. *)

Start(p) ==
    /\ proc[p] = "off"
    /\ Goto(p, "connect")
    /\ UNCHANGED <<file, schema, slug, rows, faults>>

(* Ping, and CREATE TABLE IF NOT EXISTS schema_migrations. *)
Connect(p) ==
    /\ proc[p] = "connect"
    /\ Goto(p, "check")
    /\ file' = [file EXCEPT ![p] = 1]
    /\ UNCHANGED <<schema, slug, rows, faults>>

AfterMigrate(p) == IF p = ControlApi THEN "serving" ELSE "account"

ReturnAtFirstDoneBug(p) ==
    /\ proc[p] = "check"
    /\ IF file[p] > Files \/ file[p] \in recorded
       THEN Goto(p, AfterMigrate(p))
       ELSE Goto(p, "execute")
    /\ UNCHANGED <<file, schema, slug, rows, faults>>
NeverDoneBug(p) ==
    /\ proc[p] = "check"
    /\ Goto(p, IF file[p] > Files THEN AfterMigrate(p) ELSE "execute")
    /\ UNCHANGED <<file, schema, slug, rows, faults>>
(* SELECT EXISTS: what is recorded is skipped. *)
Check(p) ==
    /\ proc[p] = "check"
    /\ \/ file[p] > Files /\ Goto(p, AfterMigrate(p)) /\ UNCHANGED file
       \/ file[p] \in recorded /\ NextFile(p) /\ UNCHANGED proc
       \/ file[p] \in Migrations \ recorded /\ Goto(p, "execute") /\ UNCHANGED file
    /\ UNCHANGED <<schema, slug, rows, faults>>

(* Begin, and the file's statements; they fail if the tables exist. *)
Execute(p) ==
    /\ proc[p] = "execute" /\ ~ Blocked(p)
    /\ IF applied[file[p]] = 0 THEN Goto(p, "record") ELSE Exit(p)
    /\ UNCHANGED <<file, schema, slug, rows, faults>>

RecordOutsideBug(p) ==
    /\ proc[p] = "record"
    /\ recorded' = recorded \cup {file[p]}
    /\ Goto(p, "commit")
    /\ UNCHANGED <<file, applied, slug, rows, faults>>
(* INSERT INTO schema_migrations, in the same transaction. *)
Record(p) ==
    /\ proc[p] = "record"
    /\ IF file[p] \in recorded THEN Exit(p) ELSE Goto(p, "commit")
    /\ UNCHANGED <<file, schema, slug, rows, faults>>

Commit(p) ==
    /\ proc[p] = "commit"
    /\ applied' = [applied EXCEPT ![file[p]] = @ + 1]
    /\ recorded' = recorded \cup {file[p]}
    /\ NextFile(p)
    /\ Goto(p, "check")
    /\ UNCHANGED <<slug, rows, faults>>

Migrate(p) == Connect(p) \/ Check(p) \/ Execute(p) \/ Record(p) \/ Commit(p)

-----------------------------------------------------------------------------
(* The rest of init-project. *)

(* EnsureAccount, the SELECT: any error counts as "no such account", and   *)
(* with several rows the first one that comes is taken.                    *)
FindAccount(a) ==
    /\ proc[a] = "account"
    /\ \/ \E x \in accounts : /\ account' = [account EXCEPT ![a] = x]
                              /\ Goto(a, "project") /\ UNCHANGED faults
       \/ accounts = {} /\ Goto(a, "insert") /\ UNCHANGED <<account, faults>>
       \/ accounts # {} /\ Fault /\ Goto(a, "insert") /\ UNCHANGED account
    /\ UNCHANGED <<file, schema, slug, accounts, project, cdks>>

(* ... and the INSERT.  The name is not UNIQUE: runs that overlap here, or *)
(* one whose SELECT failed, make several "default" accounts.               *)
InsertAccount(a) ==
    /\ proc[a] = "insert"
    /\ accounts' = accounts \cup {a}
    /\ account' = [account EXCEPT ![a] = a]
    /\ Goto(a, "project")
    /\ UNCHANGED <<file, schema, slug, project, cdks, faults>>

OnConflictDoNothingBug(a) ==
    /\ proc[a] = "project"
    /\ project' = [project EXCEPT ![slug[a]] = IF @ = NoAdmin THEN a ELSE @]
    /\ Goto(a, "cdk")
    /\ UNCHANGED <<file, schema, slug, account, accounts, cdks, faults>>
(* Slug and container name are UNIQUE. *)
CreateProject(a) ==
    /\ proc[a] = "project"
    /\ \/ /\ project[slug[a]] = NoAdmin
          /\ project' = [project EXCEPT ![slug[a]] = a]
          /\ Goto(a, "cdk")
       \/ project[slug[a]] # NoAdmin /\ Exit(a) /\ UNCHANGED project
    /\ UNCHANGED <<file, schema, slug, account, accounts, cdks, faults>>

CreateCDK(a) ==
    /\ proc[a] = "cdk"
    /\ cdks' = cdks \cup {a}
    /\ Goto(a, "print")
    /\ UNCHANGED <<file, schema, slug, account, accounts, project, faults>>

PrintCDK(a) ==
    /\ proc[a] = "print"
    /\ Goto(a, "done")
    /\ UNCHANGED <<file, schema, slug, rows, faults>>

InitProject(a) ==
    FindAccount(a) \/ InsertAccount(a) \/ CreateProject(a) \/ CreateCDK(a) \/ PrintCDK(a)

-----------------------------------------------------------------------------
Ended == {"off", "done", "failed"}

(* A call fails, or the process is killed.  A call whose effect was there  *)
(* but whose answer was lost is the step followed by this one.             *)
Fail(p) ==
    /\ proc[p] \notin Ended
    /\ Fault
    /\ Exit(p)
    /\ UNCHANGED <<file, schema, slug, rows>>

BootNext ==
    \/ \E p \in Processes : Start(p) \/ Migrate(p) \/ Fail(p)
    \/ \E a \in Admins : InitProject(a)

BootSpec == BootInit /\ [][BootNext]_bootVars

(* compose restarts control-api (restart: unless-stopped) and the database *)
(* answers.  Nobody has to run ccwadmin.                                   *)
BootFairness ==
    /\ WF_bootVars(Start(ControlApi))
    /\ \A p \in Processes : WF_bootVars(Migrate(p))
    /\ \A a \in Admins : WF_bootVars(InitProject(a))

-----------------------------------------------------------------------------
(* Properties. *)

Serving == proc[ControlApi] = "serving"
Initialising == {"account", "insert", "project", "cdk", "print", "done"}

BootTypeOK ==
    /\ proc \in [Processes -> {"connect", "check", "execute", "record", "commit",
                               "serving"} \cup Initialising \cup Ended]
    /\ file \in [Processes -> 1 .. Files + 1]
    /\ applied \in [Migrations -> Nat]
    /\ recorded \subseteq Migrations
    /\ slug \in [Admins -> Slugs]
    /\ account \in [Admins -> Admins \cup {NoAdmin}]
    /\ accounts \subseteq Admins
    /\ project \in [Slugs -> Admins \cup {NoAdmin}]
    /\ cdks \subseteq Admins
    /\ faults \in 0 .. MaxFaults

(* "每个迁移文件只执行一次": with several programs migrating at once and     *)
(* killed anywhere, a migration is committed at most once, is recorded     *)
(* exactly if it was, and never before the ones that precede it.           *)
MigratedOnce ==
    /\ \A m \in Migrations : applied[m] = (IF m \in recorded THEN 1 ELSE 0)
    /\ \A m \in recorded : 1 .. m \subseteq recorded

(* control-api answers requests, and ccwadmin writes rows, only on the     *)
(* complete schema, also when the migrations were another process's.       *)
RunsOnSchema ==
    \A p \in Processes :
        proc[p] \in Initialising \cup {"serving"} => recorded = Migrations

(* A CDK opens the project that the same run created, on an account that   *)
(* exists: of two runs with one slug the second ends at the UNIQUE column  *)
(* and never gets a CDK for the project of the first, wherever the runs    *)
(* overlap, fail or are killed, and however many accounts they make.       *)
CdkOpensProject ==
    \A a \in cdks : project[slug[a]] = a /\ account[a] \in accounts

(* A restart of control-api, or a migration it lost to somebody else,      *)
(* never keeps it down: it serves again and again.                         *)
ApiServes == []<>Serving
=============================================================================
