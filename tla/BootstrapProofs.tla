-------------------------- MODULE BootstrapProofs --------------------------
(***************************************************************************)
(* Proofs about Bootstrap, for any number of runs of ccwadmin, migrations  *)
(* and faults.                                                             *)
(***************************************************************************)
EXTENDS Bootstrap, TLAPS

USE BootstrapAssumption

Migrating == {"check", "execute", "record", "commit"}

(* A process has come to its migration past recorded ones only, and the    *)
(* one it has a transaction open for is neither recorded nor another       *)
(* transaction's.                                                          *)
InOrder == \A p \in Processes : proc[p] \in Migrating => 1 .. file[p] - 1 \subseteq recorded
Exclusive ==
    \A p \in Processes :
        /\ proc[p] \in {"execute"} \cup InTransaction => file[p] \in Migrations
        /\ proc[p] \in InTransaction =>
              /\ file[p] \notin recorded
              /\ \A q \in Processes \ {p} : proc[q] \in InTransaction => file[q] # file[p]

(* A run has the project of its slug if it has come past CreateProject;    *)
(* it is created once and on an account that was found or made before.     *)
Created == {"cdk", "print", "done"}
Owns(a) == project[slug[a]] = a
Owned ==
    \A a \in Admins :
        /\ proc[a] \in Created \/ a \in cdks => Owns(a)
        /\ Owns(a) => proc[a] \in Created \cup {"failed"}
        /\ proc[a] = "project" \/ Owns(a) => account[a] \in accounts

SchemaInv == MigratedOnce /\ InOrder /\ Exclusive /\ RunsOnSchema
BootInv == BootTypeOK /\ SchemaInv /\ Owned

LEMMA Initially == BootInit => BootInv
<1> SUFFICES ASSUME BootInit PROVE BootInv
  OBVIOUS
<1>1. BootTypeOK
  <2>1. proc \in [Processes -> Ended] /\ file \in [Processes -> 1 .. Files + 1]
    BY DEF BootInit, Ended
  <2>2. applied \in [Migrations -> Nat] /\ recorded \subseteq Migrations
    BY DEF BootInit
  <2>3. account \in [Admins -> Admins \cup {NoAdmin}]
        /\ project \in [Slugs -> Admins \cup {NoAdmin}]
    BY DEF BootInit
  <2>4. faults \in 0 .. MaxFaults
    BY DEF BootInit
  <2>5. slug \in [Admins -> Slugs] /\ accounts \subseteq Admins /\ cdks \subseteq Admins
    BY DEF BootInit
  <2> QED
    BY <2>1, <2>2, <2>3, <2>4, <2>5 DEF BootTypeOK
<1>2. SchemaInv
  BY DEF BootInit, SchemaInv, MigratedOnce, InOrder, Exclusive, RunsOnSchema, Processes,
         Migrations, Migrating, InTransaction, Initialising
<1>3. Owned
  BY DEF BootInit, Owned, Owns, Created, Processes
<1> QED
  BY <1>1, <1>2, <1>3 DEF BootInv

-----------------------------------------------------------------------------
(* Types. *)

Places == {"connect", "check", "execute", "record", "commit", "serving"}
             \cup Initialising \cup Ended

(* Most steps move one process and touch no file. *)
LEMMA Moved ==
    ASSUME BootTypeOK, NEW p \in Processes, NEW w \in Places, Goto(p, w)
    PROVE  proc' \in [Processes -> Places]
BY DEF BootTypeOK, Goto, Places

LEMMA Exited ==
    ASSUME BootTypeOK, NEW p \in Processes, Exit(p)
    PROVE  /\ proc' \in [Processes -> Places]
           /\ proc'[p] \in {"off", "failed"}
           /\ \A q \in Processes : q # p => proc'[q] = proc[q]
BY DEF BootTypeOK, Exit, Goto, Places, Ended

LEMMA TypesMigrating ==
    ASSUME BootInv, NEW p \in Processes, Start(p) \/ Fail(p) \/ Migrate(p)
    PROVE  BootTypeOK'
<1> USE DEF BootInv, schema, rows
<1>0. \A w \in {"connect", "check", "execute", "record", "commit", "serving", "account"} :
         w \in Places
  BY DEF Places, Initialising
<1>1. CASE Start(p) \/ Connect(p)
  <2>1. proc' \in [Processes -> Places]
    BY <1>0, <1>1, Moved DEF Start, Connect
  <2> QED
    BY <1>1, <2>1 DEF Start, Connect, BootTypeOK, Places
<1>2. CASE Fail(p)
  <2>1. proc' \in [Processes -> Places]
    BY <1>2, Exited DEF Fail
  <2> QED
    BY <1>2, <2>1 DEF Fail, Fault, BootTypeOK, Places
<1>3. CASE Check(p)
  <2>1. proc' \in [Processes -> Places]
    BY <1>0, <1>3, Moved DEF Check, AfterMigrate, BootTypeOK, Places
  <2>2. file' \in [Processes -> 1 .. Files + 1]
    BY <1>3 DEF Check, NextFile, BootTypeOK, Migrations
  <2> QED
    BY <1>3, <2>1, <2>2 DEF Check, BootTypeOK, Places
<1>4. CASE Execute(p) \/ Record(p)
  <2>1. proc' \in [Processes -> Places]
    BY <1>0, <1>4, Moved, Exited DEF Execute, Record
  <2> QED
    BY <1>4, <2>1 DEF Execute, Record, BootTypeOK, Places
<1>5. CASE Commit(p)
  <2>1. file[p] \in Migrations
    BY <1>5 DEF Commit, SchemaInv, Exclusive, InTransaction
  <2>2. proc' \in [Processes -> Places]
    BY <1>0, <1>5, Moved DEF Commit
  <2>3. file' \in [Processes -> 1 .. Files + 1]
    BY <1>5, <2>1 DEF Commit, NextFile, BootTypeOK, Migrations
  <2>4. applied' \in [Migrations -> Nat]
    BY <1>5, <2>1 DEF Commit, BootTypeOK
  <2>5. recorded' \subseteq Migrations
    BY <1>5, <2>1 DEF Commit, BootTypeOK
  <2> QED
    BY <1>5, <2>2, <2>3, <2>4, <2>5 DEF Commit, BootTypeOK, Places
<1> QED
  BY <1>1, <1>2, <1>3, <1>4, <1>5 DEF Migrate

LEMMA TypesInitialising ==
    ASSUME BootInv, NEW a \in Admins, InitProject(a)
    PROVE  BootTypeOK'
<1> USE DEF BootInv, schema, rows
<1>0. a \in Processes /\ Initialising \subseteq Places
  BY DEF Processes, Places
<1>1. proc' \in [Processes -> Places]
  BY <1>0, Moved, Exited DEF InitProject, FindAccount, InsertAccount, CreateProject,
                             CreateCDK, PrintCDK, Initialising
<1>2. CASE FindAccount(a)
  <2>1. account' \in [Admins -> Admins \cup {NoAdmin}]
    BY <1>2 DEF FindAccount, BootTypeOK
  <2>2. faults' \in 0 .. MaxFaults
    BY <1>2 DEF FindAccount, Fault, BootTypeOK
  <2> QED
    BY <1>1, <1>2, <2>1, <2>2 DEF FindAccount, BootTypeOK, Places
<1>3. CASE InsertAccount(a)
  BY <1>1, <1>3 DEF InsertAccount, BootTypeOK, Places
<1>4. CASE CreateProject(a) \/ CreateCDK(a) \/ PrintCDK(a)
  BY <1>1, <1>4 DEF CreateProject, CreateCDK, PrintCDK, BootTypeOK, Places
<1> QED
  BY <1>2, <1>3, <1>4 DEF InitProject

-----------------------------------------------------------------------------
(* Migrations. *)

(* A process that moves outside a transaction, its file in order.          *)
LEMMA SchemaUntouched ==
    ASSUME BootInv, NEW p \in Processes, UNCHANGED schema,
           \A q \in Processes \ {p} : proc'[q] = proc[q] /\ file'[q] = file[q],
           proc'[p] \in Migrating => 1 .. file'[p] - 1 \subseteq recorded,
           proc'[p] \in {"execute"} \cup InTransaction => file'[p] \in Migrations,
           proc'[p] \in InTransaction =>
              /\ file'[p] \notin recorded
              /\ \A q \in Processes \ {p} : proc[q] \in InTransaction => file[q] # file'[p],
           proc'[p] \in Initialising \cup {"serving"} => recorded = Migrations
    PROVE  SchemaInv'
<1>1. MigratedOnce'
  BY DEF BootInv, SchemaInv, MigratedOnce, schema
<1>2. InOrder'
  BY DEF BootInv, SchemaInv, InOrder, schema
<1>3. Exclusive'
  BY DEF BootInv, SchemaInv, Exclusive, schema
<1>4. RunsOnSchema'
  BY DEF BootInv, SchemaInv, RunsOnSchema, schema
<1> QED
  BY <1>1, <1>2, <1>3, <1>4 DEF SchemaInv

LEMMA SchemaMigrating ==
    ASSUME BootInv, NEW p \in Processes, Start(p) \/ Fail(p) \/ Migrate(p)
    PROVE  SchemaInv'
<1> USE DEF BootInv, BootTypeOK
<1>1. ASSUME Start(p) \/ Connect(p) \/ Fail(p) PROVE SchemaInv'
  <2>1. proc'[p] \in {"connect", "check", "off", "failed"}
        /\ (proc'[p] = "check" => file'[p] = 1)
    BY <1>1 DEF Start, Connect, Fail, Exit, Goto
  <2>2. /\ UNCHANGED schema
        /\ \A q \in Processes \ {p} : proc'[q] = proc[q] /\ file'[q] = file[q]
    BY <1>1 DEF Start, Connect, Fail, Exit, Goto
  <2>3. proc'[p] = "check" => 1 .. file'[p] - 1 \subseteq recorded
    BY <2>1
  <2> QED
    BY <2>1, <2>2, <2>3, SchemaUntouched
       DEF Migrating, InTransaction, Initialising
<1>2. ASSUME Check(p) PROVE SchemaInv'
  <2>1. 1 .. file[p] - 1 \subseteq recorded /\ file[p] \in 1 .. Files + 1
    BY <1>2 DEF Check, SchemaInv, InOrder, Migrating
  <2>2. /\ UNCHANGED schema
        /\ \A q \in Processes \ {p} : proc'[q] = proc[q] /\ file'[q] = file[q]
    BY <1>2 DEF Check, Goto, NextFile
  <2>3. CASE file[p] > Files /\ Goto(p, AfterMigrate(p))
    <3>1. proc'[p] \in {"serving", "account"}
      BY <2>3 DEF Goto, AfterMigrate
    <3>2. file[p] - 1 = Files
      BY <2>1, <2>3
    <3>3. recorded = Migrations
      BY <2>1, <3>2 DEF Migrations
    <3> QED
      BY <2>2, <3>1, <3>3, SchemaUntouched DEF Migrating, InTransaction, Initialising
  <2>4. CASE file[p] \in recorded /\ NextFile(p) /\ UNCHANGED proc
    <3>1. proc'[p] = "check" /\ 1 .. file'[p] - 1 \subseteq recorded
      BY <1>2, <2>1, <2>4 DEF Check, NextFile, Migrations
    <3> QED
      BY <2>2, <3>1, SchemaUntouched DEF Migrating, InTransaction, Initialising
  <2>5. CASE file[p] \in Migrations \ recorded /\ Goto(p, "execute") /\ UNCHANGED file
    <3>1. proc'[p] = "execute"
      BY <2>5 DEF Goto
    <3> QED
      BY <2>1, <2>2, <2>5, <3>1, SchemaUntouched
         DEF Migrating, InTransaction, Initialising
  <2> QED
    BY <1>2, <2>3, <2>4, <2>5 DEF Check
<1>3. ASSUME Execute(p) \/ Record(p) PROVE SchemaInv'
  <2>1. 1 .. file[p] - 1 \subseteq recorded /\ file[p] \in Migrations
    BY <1>3 DEF Execute, Record, SchemaInv, InOrder, Exclusive, Migrating, InTransaction
  <2>2. /\ UNCHANGED schema /\ file' = file
        /\ \A q \in Processes \ {p} : proc'[q] = proc[q]
        /\ proc'[p] \in InTransaction \cup {"off", "failed"}
    BY <1>3 DEF Execute, Record, Exit, Goto, InTransaction
  <2>3. proc'[p] \in InTransaction =>
           /\ file[p] \notin recorded
           /\ \A q \in Processes \ {p} : proc[q] \in InTransaction => file[q] # file[p]
    <3>1. CASE Execute(p)
      BY <2>1, <3>1 DEF Execute, Exit, Goto, InTransaction, Blocked,
                        SchemaInv, MigratedOnce
    <3>2. CASE Record(p)
      BY <3>2 DEF Record, SchemaInv, Exclusive, InTransaction
    <3> QED
      BY <1>3, <3>1, <3>2
  <2> QED
    BY <2>1, <2>2, <2>3, SchemaUntouched
       DEF Migrating, InTransaction, Initialising
<1>4. ASSUME Commit(p) PROVE SchemaInv'
  <2> DEFINE m == file[p]
  <2>1. /\ m \in Migrations /\ m \notin recorded
        /\ \A q \in Processes \ {p} : proc[q] \in InTransaction => file[q] # m
        /\ 1 .. m - 1 \subseteq recorded
    BY <1>4 DEF Commit, SchemaInv, Exclusive, InOrder, Migrating, InTransaction
  <2>2. /\ applied' = [applied EXCEPT ![m] = @ + 1]
        /\ recorded' = recorded \cup {m}
        /\ file'[p] = m + 1 /\ proc'[p] = "check"
        /\ \A q \in Processes \ {p} : proc'[q] = proc[q] /\ file'[q] = file[q]
    BY <1>4 DEF Commit, NextFile, Goto
  <2> HIDE DEF m
  <2>3. MigratedOnce'
    <3>1. \A n \in Migrations : applied'[n] = (IF n \in recorded' THEN 1 ELSE 0)
      BY <2>1, <2>2 DEF SchemaInv, MigratedOnce
    <3>2. 1 .. m \subseteq recorded'
      BY <2>1, <2>2 DEF Migrations
    <3> QED
      BY <2>2, <3>1, <3>2 DEF SchemaInv, MigratedOnce
  <2>4. InOrder'
    <3>1. 1 .. file'[p] - 1 \subseteq recorded'
      BY <2>1, <2>2 DEF Migrations
    <3> QED
      BY <2>2, <3>1 DEF SchemaInv, InOrder
  <2>5. Exclusive'
    BY <2>1, <2>2 DEF SchemaInv, Exclusive, InTransaction
  <2>6. RunsOnSchema'
    BY <2>1, <2>2 DEF SchemaInv, RunsOnSchema, Initialising
  <2> QED
    BY <2>3, <2>4, <2>5, <2>6 DEF SchemaInv
<1> QED
  BY <1>1, <1>2, <1>3, <1>4 DEF Migrate

LEMMA SchemaInitialising ==
    ASSUME BootInv, NEW a \in Admins, InitProject(a)
    PROVE  SchemaInv'
<1> USE DEF BootInv, BootTypeOK
<1>1. /\ a \in Processes /\ proc[a] \in Initialising
      /\ UNCHANGED <<schema, file>>
      /\ \A q \in Processes \ {a} : proc'[q] = proc[q]
      /\ proc'[a] \in Initialising \cup {"failed"}
  BY DEF InitProject, FindAccount, InsertAccount, CreateProject, CreateCDK, PrintCDK,
         Exit, Goto, Processes, Initialising
<1>2. recorded = Migrations
  BY <1>1 DEF SchemaInv, RunsOnSchema
<1> QED
  BY <1>1, <1>2, SchemaUntouched DEF Migrating, InTransaction, Initialising

-----------------------------------------------------------------------------
(* The project of a CDK. *)

(* A step that leaves the rows alone moves no run past CreateProject.      *)
LEMMA RowsUntouched ==
    ASSUME BootInv, UNCHANGED <<slug, rows>>,
           \A a \in Admins :
               \/ proc'[a] = proc[a]
               \/ proc'[a] \in Created /\ proc[a] \in Created
               \/ proc'[a] = "failed"
               \/ ~ Owns(a) /\ proc'[a] \notin Created \cup {"project"}
    PROVE  Owned'
BY DEF BootInv, Owned, Owns, Created, rows

LEMMA OwnedMigrating ==
    ASSUME BootInv, NEW p \in Processes, Start(p) \/ Fail(p) \/ Migrate(p)
    PROVE  Owned'
<1> USE DEF BootInv, BootTypeOK
<1>1. UNCHANGED <<slug, rows>>
  BY DEF Start, Fail, Migrate, Connect, Check, Execute, Record, Commit
<1>2. \A q \in Processes \ {p} : proc'[q] = proc[q]
  BY DEF Start, Fail, Migrate, Connect, Check, Execute, Record, Commit, Exit, Goto
<1>3. CASE Fail(p)
  <2>1. p \in Admins => proc'[p] = "failed"
    BY <1>3 DEF Fail, Exit, Goto
  <2> QED
    BY <1>1, <1>2, <2>1, RowsUntouched DEF Processes
<1>4. CASE Start(p) \/ Migrate(p)
  <2>1. proc[p] \in {"off", "connect"} \cup Migrating
    BY <1>4 DEF Start, Migrate, Connect, Check, Execute, Record, Commit, Migrating
  <2>2. p \in Admins => ~ Owns(p)
    BY <2>1 DEF Owned, Created, Migrating
  <2>3. p \in Admins =>
           proc'[p] \in {"connect", "account", "failed"} \cup Migrating
    BY <1>4 DEF Start, Migrate, Connect, Check, Execute, Record, Commit, Migrating,
                AfterMigrate, Exit, Goto
  <2>4. p \in Admins => proc'[p] = "failed" \/ proc'[p] \notin Created \cup {"project"}
    BY <2>3 DEF Migrating, Created
  <2>5. \A a \in Admins :
            \/ proc'[a] = proc[a]
            \/ proc'[a] = "failed"
            \/ ~ Owns(a) /\ proc'[a] \notin Created \cup {"project"}
    BY <1>2, <2>2, <2>4 DEF Processes
  <2> QED
    BY <1>1, <2>5, RowsUntouched
<1> QED
  BY <1>3, <1>4

LEMMA OwnedInitialising ==
    ASSUME BootInv, NEW a \in Admins, InitProject(a)
    PROVE  Owned'
<1> USE DEF BootInv, BootTypeOK, Owned, Owns, Created
<1>1. a \in Processes /\ \A b \in Admins \ {a} : b \in Processes /\ proc'[b] = proc[b]
  BY DEF InitProject, FindAccount, InsertAccount, CreateProject, CreateCDK, PrintCDK,
         Exit, Goto, Processes
<1>2. CASE FindAccount(a)
  <2>1. /\ proc[a] = "account" /\ UNCHANGED <<slug, accounts, project, cdks>>
        /\ \/ /\ proc'[a] = "project" /\ account'[a] \in accounts
           \/ proc'[a] = "insert"
        /\ \A b \in Admins \ {a} : account'[b] = account[b]
    BY <1>1, <1>2 DEF FindAccount, Goto
  <2> QED
    BY <1>1, <2>1
<1>3. CASE InsertAccount(a)
  <2>1. /\ proc[a] = "insert" /\ UNCHANGED <<slug, project, cdks>>
        /\ proc'[a] = "project"
        /\ accounts' = accounts \cup {a} /\ account'[a] = a
        /\ \A b \in Admins \ {a} : account'[b] = account[b]
    BY <1>1, <1>3 DEF InsertAccount, Goto
  <2> QED
    BY <1>1, <2>1
<1>4. CASE CreateProject(a)
  <2>1. /\ proc[a] = "project"
        /\ UNCHANGED <<slug, account, accounts, cdks>>
    BY <1>4 DEF CreateProject
  <2>2. CASE project[slug[a]] = NoAdmin
    <3>1. project' = [project EXCEPT ![slug[a]] = a] /\ proc'[a] = "cdk"
      BY <1>1, <1>4, <2>2 DEF CreateProject, Goto
    <3>2. project'[slug[a]] = a
          /\ \A b \in Admins \ {a} : project'[slug[b]] = b <=> project[slug[b]] = b
      BY <2>2, <3>1
    <3> QED
      BY <1>1, <2>1, <3>1, <3>2
  <2>3. CASE project[slug[a]] # NoAdmin
    <3>1. UNCHANGED project /\ proc'[a] = "failed"
      BY <1>1, <1>4, <2>3 DEF CreateProject, Exit, Goto
    <3> QED
      BY <1>1, <2>1, <3>1
  <2> QED
    BY <2>2, <2>3
<1>5. CASE CreateCDK(a) \/ PrintCDK(a)
  <2>1. /\ proc[a] \in {"cdk", "print"} /\ proc'[a] \in {"print", "done"}
        /\ UNCHANGED <<slug, account, accounts, project>>
        /\ cdks' \subseteq cdks \cup {a}
    BY <1>1, <1>5 DEF CreateCDK, PrintCDK, Goto, rows
  <2> QED
    BY <1>1, <2>1
<1> QED
  BY <1>2, <1>3, <1>4, <1>5 DEF InitProject

-----------------------------------------------------------------------------
LEMMA Inductive == BootInv /\ [BootNext]_bootVars => BootInv'
<1> SUFFICES ASSUME BootInv, [BootNext]_bootVars
             PROVE  BootTypeOK' /\ SchemaInv' /\ Owned'
  BY DEF BootInv
<1>1. CASE UNCHANGED bootVars
  BY <1>1 DEF BootInv, BootTypeOK, SchemaInv, MigratedOnce, InOrder, Exclusive,
              RunsOnSchema, Owned, Owns, bootVars, schema, rows
<1>2. CASE BootNext
  BY <1>2, TypesMigrating, TypesInitialising, SchemaMigrating, SchemaInitialising,
     OwnedMigrating, OwnedInitialising DEF BootNext
<1> QED
  BY <1>1, <1>2

-----------------------------------------------------------------------------
LEMMA Always == BootSpec => []BootInv
BY Initially, Inductive, PTL DEF BootSpec

(* Types, for any number of processes that migrate and are killed.         *)
THEOREM BootTypeCorrect == BootSpec => []BootTypeOK
<1>1. BootInv => BootTypeOK
  BY DEF BootInv
<1> QED
  BY <1>1, Always, PTL

(* Migrate executes every file once and in order, however many programs    *)
(* call it at once and wherever they are killed.                           *)
THEOREM OnceEach == BootSpec => []MigratedOnce
<1>1. BootInv => MigratedOnce
  BY DEF BootInv, SchemaInv
<1> QED
  BY <1>1, Always, PTL

(* Nothing that needs the schema runs before all of it is committed.       *)
THEOREM SchemaFirst == BootSpec => []RunsOnSchema
<1>1. BootInv => RunsOnSchema
  BY DEF BootInv, SchemaInv
<1> QED
  BY <1>1, Always, PTL

(* A CDK is only ever printed for the project its run created.             *)
THEOREM OwnProject == BootSpec => []CdkOpensProject
<1>1. BootInv => CdkOpensProject
  BY DEF BootInv, BootTypeOK, Owned, Owns, CdkOpensProject
<1> QED
  BY <1>1, Always, PTL
=============================================================================
