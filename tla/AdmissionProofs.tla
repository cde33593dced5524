-------------------------- MODULE AdmissionProofs --------------------------
(***************************************************************************)
(* Proofs about Admission, for any number of clients and any lifetimes.    *)
(* What BootstrapProofs shows of an installation that is set up holds of   *)
(* one that serves clients as well.                                        *)
(***************************************************************************)
EXTENDS Admission, BootstrapProofs, WellFoundedInduction

USE BootstrapAssumption, AdmissionAssumption

-----------------------------------------------------------------------------
(* The installation. *)

Elsewhere == <<proc, file, schema, slug, rows>>

LEMMA InitiallySetUp == Init => BootInv
<1> SUFFICES ASSUME Provisioned PROVE BootInv
  BY Initially DEF Init, Fresh
<1>1. BootTypeOK
  <2>1. proc \in [Processes -> Places] /\ file \in [Processes -> 1 .. Files + 1]
    BY DEF Provisioned, Places, Initialising
  <2>2. /\ applied \in [Migrations -> Nat] /\ recorded \subseteq Migrations
        /\ slug \in [Admins -> Slugs] /\ accounts \subseteq Admins /\ cdks \subseteq Admins
    BY DEF Provisioned
  <2>3. account \in [Admins -> Admins \cup {NoAdmin}]
    BY DEF Provisioned
  <2>4. project \in [Slugs -> Admins \cup {NoAdmin}]
    BY DEF Provisioned
  <2>5. faults \in 0 .. MaxFaults
    BY DEF Provisioned
  <2> QED
    BY <2>1, <2>2, <2>3, <2>4, <2>5 DEF BootTypeOK, Places
<1>2. \A p \in Processes : proc[p] \in {"serving", "done"}
  BY DEF Provisioned
<1>3. SchemaInv
  <2>1. MigratedOnce
    BY DEF Provisioned, MigratedOnce, Migrations
  <2>2. InOrder /\ Exclusive
    BY <1>2 DEF InOrder, Exclusive, Migrating, InTransaction
  <2>3. RunsOnSchema
    BY DEF Provisioned, RunsOnSchema
  <2> QED
    BY <2>1, <2>2, <2>3 DEF SchemaInv
<1>4. Owned
  <2>1. /\ slug \in [Admins -> Slugs] /\ Distinct(slug)
        /\ cdks = Admins /\ \A a \in Admins : account[a] \in accounts
        /\ \A a \in Admins : proc[a] = "done"
    BY DEF Provisioned, Processes
  <2>2. ASSUME NEW a \in Admins PROVE project[slug[a]] = a
    <3> DEFINE s == slug[a]
    <3>1. s \in Slugs /\ slug[a] = s /\ \A b \in Admins : slug[b] = s => b = a
      BY <2>1 DEF Distinct
    <3>2. project[s] = CHOOSE b \in Admins : slug[b] = s
      <4> HIDE DEF s
      <4> QED
        BY <3>1 DEF Provisioned
    <3> QED
      BY <3>1, <3>2
  <2> QED
    BY <2>1, <2>2 DEF Owned, Owns, Created
<1> QED
  BY <1>1, <1>3, <1>4 DEF BootInv

(* Clients only use up faults. *)
LEMMA ClientsElsewhere ==
    ASSUME [Next]_vars
    PROVE  \/ [BootNext]_bootVars
           \/ UNCHANGED Elsewhere /\ Fault
<1> DEFINE Aside == UNCHANGED Elsewhere /\ (Fault \/ UNCHANGED faults)
<1>1. ASSUME UNCHANGED bootVars PROVE Aside
  BY <1>1 DEF bootVars, Elsewhere
<1>2. ASSUME NEW c \in Clients, Round(c) \/ ExchangeFails(c) \/ Launch(c) \/ Quit(c)
      PROVE  Aside
  <2>1. ASSUME UNCHANGED World PROVE Aside
    BY <1>1, <2>1 DEF World
  <2>2. CASE ExchangeServed(c) \/ ExchangeLimited(c)
    BY <2>1, <2>2 DEF ExchangeServed, ExchangeLimited
  <2>3. CASE ExchangeUnreachable(c) \/ ConnectionServed(c)
    <3>1. UNCHANGED World
      BY <2>3 DEF ExchangeUnreachable, ConnectionServed
    <3> QED
      BY <2>1, <3>1
  <2>4. CASE EndRound(c) \/ Quit(c)
    <3>1. UNCHANGED World
      BY <2>4 DEF EndRound, Quit
    <3> QED
      BY <2>1, <3>1
  <2>5. CASE Wake(c) \/ Launch(c)
    BY <1>1, <2>5 DEF Wake, Launch
  <2>6. CASE ExchangeFails(c)
    BY <2>6 DEF ExchangeFails, Elsewhere
  <2>7. CASE ConnectionFails(c)
    <3>1. UNCHANGED Elsewhere
      BY <2>7 DEF ConnectionFails, Elsewhere
    <3>2. Fault \/ UNCHANGED faults
      BY <2>7 DEF ConnectionFails
    <3> QED
      BY <3>1, <3>2
  <2>8. CASE Dial(c)
    <3>1. UNCHANGED Elsewhere
      BY <2>8 DEF Dial, Elsewhere
    <3>2. Fault \/ UNCHANGED faults
      BY <2>8 DEF Dial
    <3> QED
      BY <3>1, <3>2
  <2> QED
    BY <1>2, <2>2, <2>3, <2>4, <2>5, <2>6, <2>7, <2>8 DEF Round
<1>3. ASSUME NEW a \in Admins, Disable(a) PROVE Aside
  BY <1>3 DEF Disable, Elsewhere
<1>4. Aside => UNCHANGED bootVars \/ (UNCHANGED Elsewhere /\ Fault)
  <2>1. UNCHANGED Elsewhere /\ UNCHANGED faults => UNCHANGED bootVars
    BY DEF bootVars, Elsewhere
  <2> QED
    BY <2>1
<1> HIDE DEF Aside
<1> QED
  BY <1>2, <1>3, <1>4 DEF Next, Installation, Tick, vars

LEMMA StaysSetUp == BootInv /\ [Next]_vars => BootInv'
<1> SUFFICES ASSUME BootInv, UNCHANGED Elsewhere, Fault PROVE BootInv'
  BY ClientsElsewhere, Inductive
<1>1. faults' \in 0 .. MaxFaults
  BY DEF BootInv, BootTypeOK, Fault
<1> QED
  BY <1>1 DEF Elsewhere, schema, rows, BootInv, BootTypeOK, SchemaInv, MigratedOnce,
              InOrder, Exclusive, RunsOnSchema, Owned, Owns

LEMMA SetUp == Spec => []BootInv
BY InitiallySetUp, StaysSetUp, PTL DEF Spec

(* Migrations are executed once while clients use the installation, too.   *)
THEOREM MigratedUnderLoad == Spec => []MigratedOnce
<1>1. BootInv => MigratedOnce
  BY DEF BootInv, SchemaInv
<1> QED
  BY <1>1, SetUp, PTL

(* control-api answers no client on half a schema.                         *)
THEOREM SchemaUnderLoad == Spec => []RunsOnSchema
<1>1. BootInv => RunsOnSchema
  BY DEF BootInv, SchemaInv
<1> QED
  BY <1>1, SetUp, PTL

(* A CDK opens the project its run created as long as clients use it.      *)
THEOREM OwnProjectUnderLoad == Spec => []CdkOpensProject
<1>1. BootInv => CdkOpensProject
  BY DEF BootInv, BootTypeOK, Owned, Owns, CdkOpensProject
<1> QED
  BY <1>1, SetUp, PTL

-----------------------------------------------------------------------------
(* Lifetimes. *)

Where == {"off", "slept", "dial", "syncing", "idle"} \cup Exchanging \cup Connecting

Client ==
    /\ cli \in [Clients -> Where]
    /\ tries \in [Clients -> Nat]
    /\ session \in [Clients -> 0 .. SessionTTL]
    /\ token \in [Clients -> 0 .. ConnTTL]
    /\ revoked \in [Admins -> Nat]
    /\ \A c \in Clients : tries[c] > 0 => cli[c] \in Exchanging

(* How long the tokens of a revoked CDK have left: a session token was     *)
(* minted before, a sync token while the session token was valid.          *)
Bounded(c) ==
    /\ session[c] > 0 => revoked[CdkOf[c]] + session[c] <= SessionTTL + 1
    /\ token[c] > 0 => revoked[CdkOf[c]] + token[c] <= SessionTTL + ConnTTL
Lifetimes == Client /\ \A c \in Clients : Bounded(c)

LEMMA FreshLifetimes == Init => Lifetimes
BY DEF Init, Lifetimes, Client, Bounded, Where

(* A client's step leaves the other clients and the CDKs alone.            *)
LEMMA OneClient ==
    ASSUME Lifetimes, NEW c \in Clients, UNCHANGED revoked,
           NEW w \in Where, cli' = [cli EXCEPT ![c] = w],
           tries' \in [Clients -> Nat],
           session' \in [Clients -> 0 .. SessionTTL], token' \in [Clients -> 0 .. ConnTTL],
           \A d \in Clients \ {c} :
               tries'[d] = tries[d] /\ session'[d] = session[d] /\ token'[d] = token[d],
           tries'[c] > 0 => w \in Exchanging,
           Bounded(c)'
    PROVE  Lifetimes'
<1>1. Client'
  BY DEF Lifetimes, Client
<1>2. \A d \in Clients : Bounded(d)'
  <2> SUFFICES ASSUME NEW d \in Clients, d # c PROVE Bounded(d)'
    OBVIOUS
  <2>1. cli'[d] = cli[d]
    BY DEF Lifetimes, Client
  <2> QED
    BY <2>1 DEF Lifetimes, Bounded
<1> QED
  BY <1>1, <1>2 DEF Lifetimes

LEMMA Answered ==
    ASSUME Lifetimes, NEW c \in Clients, cli[c] \in Exchanging, UNCHANGED revoked,
           \/ Resolves(CdkOf[c]) /\ Granted(c)
           \/ Denied(c)
           \/ NoAnswer(c)
    PROVE  Lifetimes'
<1> USE DEF Lifetimes, Client
<1>0. CdkOf[c] \in Admins /\ {SessionTTL, ConnTTL, Tries} \subseteq Nat \ {0}
  OBVIOUS
<1>1. CASE Resolves(CdkOf[c]) /\ Granted(c)
  <2>1. PICK w \in Where : Move(c, w)
    BY <1>1 DEF Granted, Where, Exchanging, Connecting
  <2>2. cli' = [cli EXCEPT ![c] = w]
    BY <2>1 DEF Move
  <2>3. /\ revoked[CdkOf[c]] = 0
        /\ session' = [session EXCEPT ![c] = SessionTTL]
        /\ tries' = [tries EXCEPT ![c] = 0] /\ token' = token
    BY <1>1 DEF Resolves, Granted
  <2>4. Bounded(c)'
    BY <1>0, <2>1, <2>2, <2>3 DEF Bounded
  <2>5. /\ tries' \in [Clients -> Nat]
        /\ session' \in [Clients -> 0 .. SessionTTL]
        /\ token' \in [Clients -> 0 .. ConnTTL]
        /\ \A d \in Clients \ {c} :
               tries'[d] = tries[d] /\ session'[d] = session[d] /\ token'[d] = token[d]
        /\ (tries'[c] > 0 => w \in Exchanging)
    BY <1>0, <2>3
  <2> QED
    BY <2>2, <2>4, <2>5, OneClient
<1>2. ASSUME Denied(c) PROVE Lifetimes'
  <2>1. PICK w \in Where : Move(c, w)
    BY <1>2 DEF Denied, Where, Exchanging
  <2>2. cli' = [cli EXCEPT ![c] = w]
    BY <2>1 DEF Move
  <2>3. /\ session' \in {session, [session EXCEPT ![c] = 0]}
        /\ tries' = [tries EXCEPT ![c] = 0] /\ token' = token
    BY <1>2 DEF Denied
  <2>4. Bounded(c)'
    BY <1>0, <2>1, <2>2, <2>3 DEF Bounded
  <2>5. /\ tries' \in [Clients -> Nat]
        /\ session' \in [Clients -> 0 .. SessionTTL]
        /\ token' \in [Clients -> 0 .. ConnTTL]
        /\ \A d \in Clients \ {c} :
               tries'[d] = tries[d] /\ session'[d] = session[d] /\ token'[d] = token[d]
        /\ (tries'[c] > 0 => w \in Exchanging)
    BY <1>0, <2>3
  <2> QED
    BY <2>2, <2>4, <2>5, OneClient
<1>3. CASE NoAnswer(c)
  <2>1. CASE ~ Denied(c)
    <3>1. tries' = [tries EXCEPT ![c] = @ + 1] /\ UNCHANGED <<cli, session, token>>
      BY <1>3, <2>1 DEF NoAnswer
    <3>2. \A d \in Clients : Bounded(d)'
      BY <3>1 DEF Bounded
    <3> QED
      BY <3>1, <3>2
  <2> QED
    BY <1>2, <2>1
<1> QED
  BY <1>1, <1>2, <1>3

LEMMA RoundLifetimes ==
    ASSUME Lifetimes, NEW c \in Clients, Round(c) \/ ExchangeFails(c)
    PROVE  Lifetimes'
<1> USE DEF Lifetimes, Client
<1>0. CdkOf[c] \in Admins /\ {SessionTTL, ConnTTL, Tries} \subseteq Nat \ {0}
  OBVIOUS
<1>1. CASE ExchangeServed(c) \/ ExchangeLimited(c) \/ ExchangeUnreachable(c)
           \/ ExchangeFails(c)
  BY <1>1, Answered
     DEF ExchangeServed, ExchangeLimited, ExchangeUnreachable, ExchangeFails, World
<1>2. CASE ConnectionServed(c)
  <2>1. PICK w \in {"dial", "idle"} : cli' = [cli EXCEPT ![c] = w]
    BY <1>2 DEF ConnectionServed, Move
  <2>2. /\ session[c] > 0 /\ cli[c] \notin Exchanging
        /\ token' = [token EXCEPT ![c] = ConnTTL]
        /\ UNCHANGED <<tries, session, revoked>>
    BY <1>2 DEF ConnectionServed, World, Authed, Connecting, Exchanging
  <2>3. Bounded(c)'
    BY <1>0, <2>1, <2>2 DEF Bounded
  <2>4. w \in Where
    BY DEF Where
  <2>5. /\ tries' \in [Clients -> Nat]
        /\ session' \in [Clients -> 0 .. SessionTTL]
        /\ token' \in [Clients -> 0 .. ConnTTL]
        /\ \A d \in Clients \ {c} :
               tries'[d] = tries[d] /\ session'[d] = session[d] /\ token'[d] = token[d]
    BY <1>0, <2>2
  <2> QED
    BY <1>0, <2>1, <2>2, <2>3, <2>4, <2>5, OneClient
<1>3. CASE ConnectionFails(c)
  <2>1. PICK w \in {"renew", "reexchange", "idle"} : cli' = [cli EXCEPT ![c] = w]
    BY <1>3 DEF ConnectionFails, Move, Connecting
  <2>2. UNCHANGED <<tries, session, token, revoked>> /\ cli[c] \notin Exchanging
    BY <1>3 DEF ConnectionFails, Connecting, Exchanging
  <2>3. Bounded(c)'
    BY <1>0, <2>1, <2>2 DEF Bounded
  <2>4. w \in Where
    BY DEF Where, Exchanging
  <2> QED
    BY <1>0, <2>1, <2>2, <2>3, <2>4, OneClient
<1>4. CASE Dial(c)
  <2>1. PICK w \in {"syncing", "refresh"} :
           cli' = [cli EXCEPT ![c] = w]
    BY <1>4 DEF Dial, Move
  <2>2. UNCHANGED <<tries, session, token, revoked>> /\ cli[c] \notin Exchanging
    BY <1>4 DEF Dial, Exchanging
  <2>3. Bounded(c)'
    BY <1>0, <2>1, <2>2 DEF Bounded
  <2>4. w \in Where
    BY DEF Where, Connecting
  <2> QED
    BY <1>0, <2>1, <2>2, <2>3, <2>4, OneClient
<1>5. CASE EndRound(c) \/ Wake(c)
  <2>1. PICK w \in {"idle", "dial", "ask"} : cli' = [cli EXCEPT ![c] = w]
    BY <1>5 DEF EndRound, Wake, Move
  <2>2. UNCHANGED <<tries, session, token, revoked>> /\ cli[c] \notin Exchanging
    BY <1>5 DEF EndRound, Wake, World, Exchanging
  <2>3. Bounded(c)'
    BY <1>0, <2>1, <2>2 DEF Bounded
  <2>4. w \in Where
    BY DEF Where, Connecting
  <2> QED
    BY <1>0, <2>1, <2>2, <2>3, <2>4, OneClient
<1> QED
  BY <1>1, <1>2, <1>3, <1>4, <1>5 DEF Round

LEMMA LifetimesKept == Lifetimes /\ [Next]_vars => Lifetimes'
<1> SUFFICES ASSUME Lifetimes, [Next]_vars PROVE Lifetimes'
  OBVIOUS
<1> USE DEF Lifetimes, Client
<1>0. SessionTTL \in Nat \ {0} /\ ConnTTL \in Nat \ {0} /\ CdkOf \in [Clients -> Admins]
  OBVIOUS
<1>1. ASSUME NEW c \in Clients, Launch(c) \/ Quit(c) PROVE Lifetimes'
  <2>1. PICK w \in {"login", "off"} : cli' = [cli EXCEPT ![c] = w]
    BY <1>1 DEF Launch, Quit, Move
  <2>2. UNCHANGED revoked /\ (UNCHANGED <<tries, session, token>>
                              \/ /\ tries' = [tries EXCEPT ![c] = 0]
                                 /\ session' = [session EXCEPT ![c] = 0]
                                 /\ token' = [token EXCEPT ![c] = 0])
    BY <1>1 DEF Launch, Quit, World
  <2>3. Bounded(c)' /\ (tries'[c] > 0 => w \in Exchanging)
    BY <1>1, <2>1, <2>2 DEF Bounded, Launch, Quit, Exchanging
  <2>4. w \in Where
    BY DEF Where, Exchanging
  <2>5. /\ tries' \in [Clients -> Nat]
        /\ session' \in [Clients -> 0 .. SessionTTL]
        /\ token' \in [Clients -> 0 .. ConnTTL]
        /\ \A d \in Clients \ {c} :
               tries'[d] = tries[d] /\ session'[d] = session[d] /\ token'[d] = token[d]
    BY <1>0, <2>2
  <2> QED
    BY <1>0, <2>1, <2>2, <2>3, <2>4, <2>5, OneClient
<1>2. ASSUME NEW a \in Admins, Disable(a) PROVE Lifetimes'
  <2>1. /\ UNCHANGED <<cli, tries, session, token>>
        /\ revoked' = [revoked EXCEPT ![a] = 1] /\ revoked[a] = 0
    BY <1>2 DEF Disable, clientVars
  <2>2. \A c \in Clients : Bounded(c)'
    BY <1>0, <2>1 DEF Bounded
  <2> QED
    BY <2>1, <2>2
<1>3. ASSUME Tick PROVE Lifetimes'
  <2>1. /\ UNCHANGED <<cli, tries>>
        /\ session' = [c \in Clients |-> Down(session[c])]
        /\ token' = [c \in Clients |-> Down(token[c])]
    BY <1>3 DEF Tick, Exchanging
  <2>2. /\ revoked' \in [Admins -> Nat]
        /\ \A a \in Admins : revoked'[a] <= revoked[a] + 1
    BY <1>3 DEF Tick
  <2>3. \A n, m \in Nat : n <= m => Down(n) \in 0 .. m /\ (Down(n) > 0 => Down(n) = n - 1)
    BY DEF Down
  <2>4. session' \in [Clients -> 0 .. SessionTTL] /\ token' \in [Clients -> 0 .. ConnTTL]
    BY <1>0, <2>1, <2>3
  <2>5. ASSUME NEW c \in Clients PROVE Bounded(c)'
    <3> DEFINE r == revoked[CdkOf[c]]
    <3>1. r \in Nat /\ revoked'[CdkOf[c]] \in Nat /\ revoked'[CdkOf[c]] <= r + 1
      BY <1>0, <2>2
    <3>2. session'[c] > 0 => session[c] > 0 /\ session'[c] = session[c] - 1
      BY <1>0, <2>1 DEF Down
    <3>3. token'[c] > 0 => token[c] > 0 /\ token'[c] = token[c] - 1
      BY <1>0, <2>1 DEF Down
    <3> QED
      BY <1>0, <2>1, <2>4, <3>1, <3>2, <3>3 DEF Bounded
  <2> QED
    BY <2>1, <2>2, <2>4, <2>5
<1>4. CASE Installation \/ UNCHANGED vars
  <2>1. UNCHANGED <<cli, tries, session, token, revoked>>
    BY <1>4 DEF Installation, vars, clientVars
  <2> QED
    BY <2>1 DEF Bounded
<1> QED
  BY <1>1, <1>2, <1>3, <1>4, RoundLifetimes DEF Next

(* No dial of a revoked CDK succeeds when the tokens it was given have     *)
(* run out, however often they were traded for new ones before.            *)
THEOREM Revoked == Spec => RevocationHolds
<1>1. ASSUME Lifetimes, [Next]_vars, NEW c \in Clients,
             cli[c] = "dial", cli'[c] = "syncing"
      PROVE  revoked[CdkOf[c]] < SessionTTL + ConnTTL
  <2>1. token[c] > 0
    <3>1. ASSUME NEW d \in Clients, NEW w, Move(d, w), w # "syncing" PROVE FALSE
      BY <1>1, <3>1 DEF Move, Lifetimes, Client
    <3>2. cli' # cli
      BY <1>1
    <3>3. PICK d \in Clients : Round(d) \/ ExchangeFails(d) \/ Launch(d) \/ Quit(d)
      BY <1>1, <3>2 DEF Next, Installation, Disable, Tick, clientVars, vars
    <3>4. cli[d] \in Exchanging => ~ Granted(d) /\ ~ Denied(d)
      BY <3>1 DEF Granted, Denied, Exchanging
    <3>5. cli[d] \in Exchanging => ~ NoAnswer(d)
      BY <3>2, <3>4 DEF NoAnswer
    <3>6. Dial(d)
      <4>1. ~ (ExchangeServed(d) \/ ExchangeLimited(d) \/ ExchangeUnreachable(d)
               \/ ExchangeFails(d))
        BY <3>4, <3>5
           DEF ExchangeServed, ExchangeLimited, ExchangeUnreachable, ExchangeFails
      <4>2. ~ (ConnectionServed(d) \/ ConnectionFails(d))
        BY <3>1 DEF ConnectionServed, ConnectionFails, Connecting
      <4>3. ~ (EndRound(d) \/ Wake(d) \/ Launch(d) \/ Quit(d))
        BY <3>1 DEF EndRound, Wake, Launch, Quit
      <4> QED
        BY <3>3, <4>1, <4>2, <4>3 DEF Round
    <3>7. d = c /\ Move(d, "syncing")
      BY <1>1, <3>1, <3>6 DEF Dial, Move, Lifetimes, Client
    <3>8. ~ Move(d, "refresh")
      BY <3>1
    <3> QED
      BY <3>6, <3>7, <3>8 DEF Dial
  <2>2. CdkOf[c] \in Admins /\ SessionTTL \in Nat /\ ConnTTL \in Nat
    OBVIOUS
  <2> QED
    BY <1>1, <2>1, <2>2 DEF Lifetimes, Client, Bounded
<1>2. Lifetimes /\ [Next]_vars =>
          [\A c \in Clients :
              cli[c] = "dial" /\ cli'[c] = "syncing" =>
                  revoked[CdkOf[c]] < SessionTTL + ConnTTL]_vars
  BY <1>1
<1> QED
  BY <1>2, FreshLifetimes, LifetimesKept, PTL DEF Spec, RevocationHolds

-----------------------------------------------------------------------------
(* The limiter.  What a window holds is computed by a loop over the        *)
(* attempts; it is known by what it makes of <<>> and of one more attempt. *)

LEMMA UpFrom0 ==
    ASSUME NEW S \in SUBSET Nat, 0 \in S, \A n \in S : n + 1 \in S
    PROVE  S = Nat
<1> DEFINE Less == OpToRel(<, Nat)
<1>1. SUFFICES ASSUME Nat \ S # {} PROVE FALSE
  OBVIOUS
<1>2. PICK m \in Nat \ S : \A n \in Nat \ S : ~ (<<n, m>> \in Less)
  BY <1>1, WFMin, NatLessThanWellFounded
<1>3. m \in Nat /\ m \notin S
  BY <1>2
<1>4. m - 1 \in S
  <2>1. m # 0 /\ m - 1 \in Nat /\ m - 1 < m
    BY <1>3
  <2>2. <<m - 1, m>> \in Nat \X Nat /\ <<m - 1, m>>[1] < <<m - 1, m>>[2]
    BY <2>1
  <2>3. <<m - 1, m>> \in Less
    BY <2>2, Zenon DEF OpToRel
  <2> QED
    BY <1>2, <2>1, <2>3
<1>5. (m - 1) + 1 = m
  BY <1>3
<1> QED
  BY <1>3, <1>4, <1>5

Loop(ages, n, kept) ==
    kept = [i \in 0 .. n |->
              IF i = 0 THEN <<>>
              ELSE IF ages[i] < Window THEN Append(kept[i - 1], ages[i])
                                       ELSE kept[i - 1]]

LEMMA LoopEnds ==
    ASSUME NEW ages, NEW n \in Nat
    PROVE  \E kept : Loop(ages, n, kept)
<1> DEFINE S == {m \in Nat : \E kept : Loop(ages, m, kept)}
<1>1. 0 \in S
  <2>1. Loop(ages, 0, [i \in 0 .. 0 |-> <<>>])
    BY DEF Loop
  <2> QED
    BY <2>1
<1>2. ASSUME NEW m \in S PROVE m + 1 \in S
  <2>1. PICK kept : Loop(ages, m, kept)
    OBVIOUS
  <2> DEFINE next == [i \in 0 .. m + 1 |->
                        IF i = 0 THEN <<>>
                        ELSE IF ages[i] < Window THEN Append(kept[i - 1], ages[i])
                                                 ELSE kept[i - 1]]
  <2>2. ASSUME NEW i \in 0 .. m PROVE next[i] = kept[i]
    <3>1. i \in 0 .. m + 1
      OBVIOUS
    <3> QED
      BY <2>1, <3>1, Zenon DEF Loop
  <2>3. ASSUME NEW i \in 0 .. m + 1, i # 0 PROVE next[i - 1] = kept[i - 1]
    <3>1. i - 1 \in 0 .. m
      BY <2>3
    <3> QED
      BY <2>2, <3>1, Zenon
  <2>4. \A i \in 0 .. m + 1 : next[i] =
              IF i = 0 THEN <<>>
              ELSE IF ages[i] < Window THEN Append(next[i - 1], ages[i])
                                       ELSE next[i - 1]
    BY <2>3, Zenon
  <2> HIDE DEF next
  <2>5. DOMAIN next = 0 .. m + 1 /\ next = [i \in 0 .. m + 1 |-> next[i]]
    BY Zenon DEF next
  <2>6. Loop(ages, m + 1, next)
    BY <2>4, <2>5, Zenon DEF Loop
  <2> QED
    BY <2>6
<1>3. S = Nat
  BY <1>1, <1>2, UpFrom0
<1> QED
  BY <1>3

LEMMA LoopOf ==
    ASSUME NEW ages, Len(ages) \in Nat
    PROVE  \E kept : Loop(ages, Len(ages), kept) /\ Recent(ages) = kept[Len(ages)]
<1> DEFINE kept == CHOOSE f : Loop(ages, Len(ages), f)
<1>1. Loop(ages, Len(ages), kept)
  BY LoopEnds
<1>2. Recent(ages) = kept[Len(ages)]
  BY DEF Recent, Loop
<1> QED
  BY <1>1, <1>2

LEMMA RecentOfNone == Recent(<<>>) = <<>>
<1>1. PICK f : Loop(<<>>, 0, f) /\ Recent(<<>>) = f[0]
  BY LoopOf
<1> QED
  BY <1>1 DEF Loop

LEMMA RecentAndOne ==
    ASSUME NEW ages \in Seq(Nat), NEW age \in Nat
    PROVE  Recent(Append(ages, age)) =
               IF age < Window THEN Append(Recent(ages), age) ELSE Recent(ages)
<1> DEFINE n == Len(ages)
           more == Append(ages, age)
<1>1. n \in Nat /\ Len(more) = n + 1 /\ more[n + 1] = age
      /\ \A i \in 1 .. n : ages[i] = more[i]
  OBVIOUS
<1>2. PICK f : Loop(ages, n, f) /\ Recent(ages) = f[n]
  BY LoopOf
<1> HIDE DEF n, more
<1>3. PICK g : Loop(more, n + 1, g) /\ Recent(more) = g[n + 1]
  <2>1. Len(more) \in Nat
    BY <1>1
  <2> QED
    BY <1>1, <2>1, LoopOf
<1>4. f[n] = g[n]  \* two loops agree as long as the sequences do
  <2> DEFINE S == {i \in Nat : i <= n => f[i] = g[i]}
  <2>1. 0 \in S
    BY <1>1, <1>2, <1>3 DEF Loop
  <2>2. ASSUME NEW i \in S PROVE i + 1 \in S
    <3> SUFFICES ASSUME i + 1 <= n PROVE f[i + 1] = g[i + 1]
      OBVIOUS
    <3>1. f[i] = g[i] /\ ages[i + 1] = more[i + 1]
      BY <1>1
    <3>2. i + 1 \in 0 .. n /\ i + 1 \in 0 .. n + 1 /\ (i + 1) - 1 = i /\ i + 1 # 0
      BY <1>1
    <3>3. f[i + 1] = IF ages[i + 1] < Window THEN Append(f[i], ages[i + 1]) ELSE f[i]
      BY <1>2, <3>2 DEF Loop
    <3>4. g[i + 1] = IF more[i + 1] < Window THEN Append(g[i], more[i + 1]) ELSE g[i]
      BY <1>3, <3>2 DEF Loop
    <3> QED
      BY <3>1, <3>3, <3>4
  <2>3. S = Nat
    BY <2>1, <2>2, UpFrom0
  <2>4. n \in Nat /\ n <= n
    BY <1>1
  <2> QED
    BY <2>3, <2>4
<1>5. g[n + 1] = IF age < Window THEN Append(g[n], age) ELSE g[n]
  <2>1. n + 1 \in 0 .. n + 1 /\ n + 1 # 0 /\ (n + 1) - 1 = n
    BY <1>1
  <2>2. g[n + 1] = IF more[n + 1] < Window THEN Append(g[n], more[n + 1]) ELSE g[n]
    BY <1>3, <2>1 DEF Loop
  <2> QED
    BY <1>1, <2>2
<1> QED
  BY <1>2, <1>3, <1>4, <1>5 DEF more

(* So a fact about all sequences of attempts needs two steps.              *)
LEMMA OneByOne ==
    ASSUME NEW A, NEW S \in SUBSET Seq(A), <<>> \in S,
           \A s \in S, a \in A : Append(s, a) \in S
    PROVE  S = Seq(A)
<1> DEFINE Ns == {n \in Nat : \A s \in Seq(A) : Len(s) = n => s \in S}
<1>1. 0 \in Ns
  OBVIOUS
<1>2. ASSUME NEW n \in Ns PROVE n + 1 \in Ns
  <2> SUFFICES ASSUME NEW s \in Seq(A), Len(s) = n + 1 PROVE s \in S
    OBVIOUS
  <2> DEFINE front == [i \in 1 .. n |-> s[i]]
  <2>1. front \in Seq(A) /\ Len(front) = n /\ s[n + 1] \in A
    OBVIOUS
  <2>2. s = Append(front, s[n + 1])
    BY <2>1
  <2> QED
    BY <2>1, <2>2
<1>3. Ns = Nat
  BY <1>1, <1>2, UpFrom0
<1>4. \A s \in Seq(A) : Len(s) \in Nat
  OBVIOUS
<1> QED
  BY <1>3, <1>4

(* What a window holds is in it, is no more than there was, and stays if   *)
(* it is looked at again.                                                  *)
LEMMA RecentIs ==
    ASSUME NEW ages \in Seq(Nat)
    PROVE  /\ Recent(ages) \in Seq(0 .. Window - 1)
           /\ Len(Recent(ages)) <= Len(ages)
           /\ Recent(Recent(ages)) = Recent(ages)
<1> DEFINE Is(s) == /\ Recent(s) \in Seq(0 .. Window - 1)
                    /\ Len(Recent(s)) <= Len(s)
                    /\ Recent(Recent(s)) = Recent(s)
           S == {s \in Seq(Nat) : Is(s)}
<1>1. <<>> \in S
  <2>1. <<>> \in Seq(Nat) /\ <<>> \in Seq(0 .. Window - 1) /\ Len(<<>>) <= Len(<<>>)
    OBVIOUS
  <2> QED
    BY <2>1, RecentOfNone, Zenon
<1>2. ASSUME NEW s \in S, NEW a \in Nat PROVE Append(s, a) \in S
  <2>1. Append(s, a) \in Seq(Nat) /\ Len(Append(s, a)) = Len(s) + 1 /\ Len(s) \in Nat
    OBVIOUS
  <2>2. Recent(s) \in Seq(0 .. Window - 1) /\ Recent(s) \in Seq(Nat)
        /\ Len(Recent(s)) \in Nat
    OBVIOUS
  <2>3. CASE a < Window
    <3>1. Recent(Append(s, a)) = Append(Recent(s), a)
      BY <2>3, RecentAndOne
    <3>2. Recent(Append(Recent(s), a)) = Append(Recent(Recent(s)), a)
      BY <2>2, <2>3, RecentAndOne
    <3>3. /\ Append(Recent(s), a) \in Seq(0 .. Window - 1)
          /\ Len(Append(Recent(s), a)) = Len(Recent(s)) + 1
      BY <2>2, <2>3
    <3>4. Recent(Append(s, a)) \in Seq(0 .. Window - 1)
      BY <3>1, <3>3
    <3>5. Len(Recent(Append(s, a))) <= Len(Append(s, a))
      <4>1. Len(Recent(s)) <= Len(s)
        OBVIOUS
      <4> QED
        BY <2>1, <2>2, <3>1, <3>3, <4>1
    <3>6. Recent(Recent(Append(s, a))) = Recent(Append(s, a))
      BY <3>1, <3>2, Zenon
    <3> QED
      BY <2>1, <3>4, <3>5, <3>6
  <2>4. CASE ~ (a < Window)
    <3>1. Recent(Append(s, a)) = Recent(s)
      BY <2>4, RecentAndOne
    <3> QED
      BY <2>1, <2>2, <3>1
  <2> QED
    BY <2>3, <2>4
<1> HIDE DEF S
<1>3. S = Seq(Nat)
  <2>1. S \in SUBSET Seq(Nat)
    BY DEF S
  <2> QED
    BY <1>1, <1>2, <2>1, OneByOne
<1> QED
  BY <1>3 DEF S

(* Nothing comes back into the window: what a tick lets in is what it      *)
(* would let in without what was out already.                              *)
Aged(age) == IF age < Window THEN age + 1 ELSE age

LEMMA AppendIs ==
    ASSUME NEW s \in Seq(Nat), NEW n \in Nat, Len(s) = n, NEW a \in Nat
    PROVE  /\ Append(s, a) \in Seq(Nat) /\ Len(Append(s, a)) = n + 1
           /\ Append(s, a)[n + 1] = a
           /\ \A i \in 1 .. n : Append(s, a)[i] = s[i]
OBVIOUS

LEMMA SameSequence ==
    ASSUME NEW s \in Seq(Nat), NEW t \in Seq(Nat), NEW n \in Nat,
           Len(s) = n, Len(t) = n, \A i \in 1 .. n : s[i] = t[i]
    PROVE  s = t
OBVIOUS

LEMMA OlderAndOne ==
    ASSUME NEW ages \in Seq(Nat), NEW age \in Nat
    PROVE  /\ Older(ages) \in Seq(Nat) /\ Len(Older(ages)) = Len(ages)
           /\ Aged(age) \in Nat
           /\ Older(Append(ages, age)) = Append(Older(ages), Aged(age))
<1>1. ASSUME NEW s \in Seq(Nat)
      PROVE  /\ Older(s) \in Seq(Nat) /\ Len(Older(s)) = Len(s)
             /\ \A i \in 1 .. Len(s) : Older(s)[i] = Aged(s[i])
  <2>1. Older(s) = [i \in 1 .. Len(s) |-> Aged(s[i])]
    BY DEF Older, Aged
  <2>2. \A i \in 1 .. Len(s) : Aged(s[i]) \in Nat
    BY DEF Aged
  <2> HIDE DEF Aged
  <2> QED
    BY <2>1, <2>2
<1>2. Aged(age) \in Nat
  BY DEF Aged
<1> DEFINE more == Append(ages, age)
<1>3. /\ more \in Seq(Nat) /\ Len(more) = Len(ages) + 1
      /\ more[Len(ages) + 1] = age /\ \A i \in 1 .. Len(ages) : more[i] = ages[i]
  OBVIOUS
<1> HIDE DEF more
<1>4. Older(more) = Append(Older(ages), Aged(age))
  <2>1. /\ Older(more) \in Seq(Nat) /\ Len(Older(more)) = Len(ages) + 1
        /\ \A i \in 1 .. Len(ages) + 1 : Older(more)[i] = Aged(more[i])
    BY <1>1, <1>3
  <2>2. /\ Older(ages) \in Seq(Nat) /\ Len(Older(ages)) = Len(ages)
        /\ \A i \in 1 .. Len(ages) : Older(ages)[i] = Aged(ages[i])
    BY <1>1
  <2> DEFINE a == Aged(age)
             n == Len(ages)
             older == Older(ages)
  <2>3. /\ Append(older, a) \in Seq(Nat) /\ Len(Append(older, a)) = n + 1
        /\ Append(older, a)[n + 1] = a
        /\ \A i \in 1 .. n : Append(older, a)[i] = older[i]
    BY <1>2, <2>2, AppendIs
  <2>4. n \in Nat /\ n + 1 \in 1 .. n + 1
        /\ \A i \in 1 .. n + 1 : i = n + 1 \/ i \in 1 .. n
    OBVIOUS
  <2>5. ASSUME NEW i \in 1 .. n + 1 PROVE Older(more)[i] = Append(older, a)[i]
    <3>1. CASE i = n + 1
      BY <1>3, <2>1, <2>3, <2>4, <3>1, Zenon
    <3>2. CASE i \in 1 .. n
      <4>1. more[i] = ages[i] /\ Append(older, a)[i] = older[i]
        BY <1>3, <2>3, <3>2, Zenon
      <4>2. Older(more)[i] = Aged(more[i]) /\ older[i] = Aged(ages[i])
        BY <2>1, <2>2, <3>2, Zenon
      <4> QED
        BY <4>1, <4>2, Zenon
    <3> QED
      BY <2>4, <3>1, <3>2
  <2> QED
    <3>1. n + 1 \in Nat
      BY <2>4
    <3>2. Len(Older(more)) = n + 1 /\ Older(more) \in Seq(Nat)
      BY <2>1
    <3>3. Older(more) = Append(older, a)
      <4> HIDE DEF a, n, older
      <4> QED
        BY <2>3, <2>5, <3>1, <3>2, SameSequence
    <3> QED
      BY <3>3
<1> QED
  BY <1>1, <1>2, <1>4 DEF more

LEMMA RecentOfOlder ==
    ASSUME NEW ages \in Seq(Nat)
    PROVE  Recent(Older(Recent(ages))) = Recent(Older(ages))
<1> DEFINE S == {s \in Seq(Nat) : Recent(Older(Recent(s))) = Recent(Older(s))}
<1>1. <<>> \in S
  BY RecentOfNone
<1>2. ASSUME NEW s \in S, NEW a \in Nat PROVE Append(s, a) \in S
  <2>1. Append(s, a) \in Seq(Nat)
    OBVIOUS
  <2>2. Older(s) \in Seq(Nat) /\ Aged(a) \in Nat
        /\ Older(Append(s, a)) = Append(Older(s), Aged(a))
    BY OlderAndOne
  <2>3. Recent(s) \in Seq(Nat)
    BY RecentIs
  <2>4. Recent(Older(Append(s, a))) =
            IF Aged(a) < Window THEN Append(Recent(Older(s)), Aged(a))
                                ELSE Recent(Older(s))
    BY <2>2, RecentAndOne
  <2>5. CASE a < Window
    <3>1. Recent(Append(s, a)) = Append(Recent(s), a)
      BY <2>5, RecentAndOne
    <3>2. /\ Older(Append(Recent(s), a)) = Append(Older(Recent(s)), Aged(a))
          /\ Older(Recent(s)) \in Seq(Nat)
      BY <2>3, OlderAndOne
    <3>3. Recent(Older(Append(Recent(s), a))) =
              IF Aged(a) < Window THEN Append(Recent(Older(Recent(s))), Aged(a))
                                  ELSE Recent(Older(Recent(s)))
      <4>1. Aged(a) \in Nat
        BY <2>2
      <4>2. Older(Recent(s)) \in Seq(Nat)
        BY <3>2
      <4>3. Recent(Append(Older(Recent(s)), Aged(a))) =
                IF Aged(a) < Window THEN Append(Recent(Older(Recent(s))), Aged(a))
                                    ELSE Recent(Older(Recent(s)))
        BY <4>1, <4>2, RecentAndOne
      <4> QED
        BY <3>2, <4>3, Zenon
    <3> QED
      BY <2>1, <2>4, <3>1, <3>3
  <2>6. CASE ~ (a < Window)
    <3>1. Recent(Append(s, a)) = Recent(s) /\ Aged(a) = a
      BY <2>6, RecentAndOne DEF Aged
    <3> QED
      BY <2>1, <2>4, <2>6, <3>1
  <2> QED
    BY <2>5, <2>6
<1> HIDE DEF S
<1>3. S = Seq(Nat)
  <2>1. S \in SUBSET Seq(Nat)
    BY DEF S
  <2> QED
    BY <1>1, <1>2, <2>1, OneByOne
<1> QED
  BY <1>3 DEF S

(* What the limiter remembers is what it has admitted, as far as the       *)
(* window goes: in this order a rejected attempt is not counted, nothing   *)
(* is forgotten too soon, and nothing is counted that is long past.        *)
Limiter ==
    /\ attempts \in [Keys -> Ages]
    /\ granted \in [Keys -> Ages]
    /\ \A k \in Keys : granted[k] = Kept(k)

LEMMA AgesAre == Ages = {s \in Seq(0 .. Window) : Len(s) <= MaxAttempts}
<1>1. ASSUME NEW s \in Ages PROVE s \in Seq(0 .. Window) /\ Len(s) <= MaxAttempts
  <2>1. PICK n \in 0 .. MaxAttempts : s \in [1 .. n -> 0 .. Window]
    BY DEF Ages
  <2> QED
    BY <2>1
<1>2. ASSUME NEW s \in Seq(0 .. Window), Len(s) <= MaxAttempts PROVE s \in Ages
  <2>1. s \in [1 .. Len(s) -> 0 .. Window] /\ Len(s) \in 0 .. MaxAttempts
    BY <1>2
  <2> QED
    BY <2>1 DEF Ages
<1> QED
  BY <1>1, <1>2

LEMMA KeptIs ==
    ASSUME Limiter, NEW k \in Keys
    PROVE  /\ Kept(k) \in Ages /\ Kept(k) \in Seq(Nat)
           /\ Recent(Kept(k)) = Kept(k)
           /\ attempts[k] \in Seq(Nat) /\ Len(attempts[k]) <= MaxAttempts
           /\ granted[k] = Kept(k)
<1> DEFINE s == attempts[k]
<1>1. s \in Seq(0 .. Window) /\ Len(s) <= MaxAttempts
  BY AgesAre DEF Limiter
<1>2. s \in Seq(Nat)
  BY <1>1
<1>3. /\ Recent(s) \in Seq(0 .. Window - 1) /\ Len(Recent(s)) <= Len(s)
      /\ Recent(Recent(s)) = Recent(s)
  BY <1>2, RecentIs
<1>4. Recent(s) \in Seq(0 .. Window) /\ Recent(s) \in Seq(Nat)
  BY <1>3
<1>5. Len(Recent(s)) \in Nat /\ Len(s) \in Nat
  BY <1>2, <1>4
<1> HIDE DEF s
<1>6. Len(Recent(s)) <= MaxAttempts
  BY <1>1, <1>3, <1>5
<1>7. Recent(s) \in Ages
  BY <1>4, <1>6, AgesAre
<1> QED
  BY <1>1, <1>2, <1>3, <1>4, <1>7 DEF Kept, Limiter, s

LEMMA CountKept ==
    ASSUME Limiter, NEW k \in Keys, Allowed(k), Count(k)
    PROVE  Limiter'
<1> DEFINE s == Append(Kept(k), 0)
<1>1. Kept(k) \in Ages /\ Kept(k) \in Seq(Nat) /\ Recent(Kept(k)) = Kept(k)
      /\ granted[k] = Kept(k)
  BY KeptIs
<1>2. Len(Kept(k)) < MaxAttempts /\ Kept(k) \in Seq(0 .. Window)
  BY <1>1, AgesAre DEF Allowed
<1>3. s \in Seq(0 .. Window) /\ Len(s) = Len(Kept(k)) + 1 /\ Len(Kept(k)) \in Nat
  BY <1>2
<1>4. s \in Ages
  BY <1>2, <1>3, AgesAre
<1>5. Recent(s) = s
  BY <1>1, RecentAndOne
<1>6. attempts' = [attempts EXCEPT ![k] = s] /\ granted' = [granted EXCEPT ![k] = s]
  BY <1>1 DEF Count
<1> HIDE DEF s
<1> QED
  BY <1>4, <1>5, <1>6 DEF Limiter, Kept

LEMMA RejectKept ==
    ASSUME Limiter, NEW k \in Keys, Reject(k)
    PROVE  Limiter'
<1> DEFINE s == Kept(k)
<1>1. s \in Ages /\ Recent(s) = s /\ granted[k] = s
  BY KeptIs
<1>2. attempts' = [attempts EXCEPT ![k] = s] /\ granted' = granted
  BY DEF Reject
<1> HIDE DEF s
<1> QED
  BY <1>1, <1>2 DEF Limiter, Kept

LEMMA TickKept == Limiter /\ Tick => Limiter'
<1> SUFFICES ASSUME Limiter, Tick PROVE Limiter'
  OBVIOUS
<1>1. ASSUME NEW s \in Ages PROVE Older(s) \in Ages
  <2>1. s \in Seq(0 .. Window) /\ Len(s) <= MaxAttempts
    BY AgesAre
  <2>2. Older(s) = [i \in 1 .. Len(s) |-> IF s[i] < Window THEN s[i] + 1 ELSE s[i]]
    BY <2>1 DEF Older
  <2>3. \A i \in 1 .. Len(s) :
            (IF s[i] < Window THEN s[i] + 1 ELSE s[i]) \in 0 .. Window
    BY <2>1
  <2>4. Older(s) \in Seq(0 .. Window) /\ Len(Older(s)) = Len(s)
    BY <2>1, <2>2, <2>3
  <2> QED
    BY <2>1, <2>4, AgesAre
<1>2. /\ attempts' = [k \in Keys |-> Older(attempts[k])]
      /\ granted' = [k \in Keys |-> Recent(Older(granted[k]))]
  BY DEF Tick
<1>3. attempts' \in [Keys -> Ages]
  BY <1>1, <1>2 DEF Limiter
<1>4. ASSUME NEW k \in Keys PROVE granted'[k] = Recent(attempts'[k])
  <2>1. granted[k] = Recent(attempts[k]) /\ attempts[k] \in Seq(Nat)
    BY KeptIs DEF Kept
  <2> QED
    BY <1>2, <2>1, RecentOfOlder
<1>5. ASSUME NEW k \in Keys PROVE Recent(attempts'[k]) \in Ages
  <2> DEFINE s == attempts'[k]
  <2>1. s \in Seq(0 .. Window) /\ Len(s) <= MaxAttempts
    BY <1>3, AgesAre
  <2>2. s \in Seq(Nat)
    BY <2>1
  <2> HIDE DEF s
  <2>3. Recent(s) \in Seq(0 .. Window - 1) /\ Len(Recent(s)) <= Len(s)
    BY <2>2, RecentIs
  <2>4. Recent(s) \in Seq(0 .. Window) /\ Len(Recent(s)) \in Nat /\ Len(s) \in Nat
    BY <2>2, <2>3
  <2> QED
    BY <2>1, <2>3, <2>4, AgesAre DEF s
<1>6. granted' \in [Keys -> Ages]
  <2>1. granted' = [k \in Keys |-> granted'[k]]
    BY <1>2
  <2> QED
    BY <2>1, <1>4, <1>5
<1> QED
  BY <1>3, <1>4, <1>6 DEF Limiter, Kept

LEMMA LimiterKept == Limiter /\ [Next]_vars => Limiter'
<1> SUFFICES ASSUME Limiter, [Next]_vars PROVE Limiter'
  OBVIOUS
<1>1. ASSUME UNCHANGED limiter PROVE Limiter'
  BY <1>1 DEF limiter, Limiter, Kept
<1>2. \A c \in Clients : KeyOf[c] \in Keys
  BY DEF Keys
<1>3. ASSUME NEW c \in Clients, ExchangeServed(c) \/ ExchangeLimited(c) \/ ExchangeFails(c)
      PROVE  Limiter'
  <2>1. \/ Allowed(KeyOf[c]) /\ Count(KeyOf[c])
        \/ Reject(KeyOf[c])
        \/ UNCHANGED limiter
    BY <1>3 DEF ExchangeServed, ExchangeLimited, ExchangeFails
  <2> QED
    BY <1>1, <1>2, <2>1, CountKept, RejectKept
<1>4. ASSUME NEW c \in Clients, ExchangeUnreachable(c) \/ ConnectionServed(c)
                                \/ ConnectionFails(c) \/ Dial(c)
      PROVE  UNCHANGED limiter
  BY <1>4 DEF ExchangeUnreachable, ConnectionServed, ConnectionFails, Dial
<1>5. ASSUME NEW c \in Clients, EndRound(c) \/ Wake(c) \/ Launch(c) \/ Quit(c)
      PROVE  UNCHANGED limiter
  BY <1>5 DEF EndRound, Wake, Launch, Quit
<1>6. ASSUME NEW a \in Admins, Disable(a) PROVE UNCHANGED limiter
  BY <1>6 DEF Disable
<1>7. CASE Installation
  <2>1. CASE attempts' = None /\ granted' = None
    <3>1. <<>> \in Ages
      <4>1. <<>> \in Seq(0 .. Window) /\ Len(<<>>) <= MaxAttempts
        OBVIOUS
      <4> QED
        BY <4>1, AgesAre
    <3> QED
      BY <2>1, <3>1, RecentOfNone DEF None, Limiter, Kept
  <2> QED
    BY <1>1, <1>7, <2>1 DEF Installation
<1>8. CASE UNCHANGED vars
  BY <1>1, <1>8 DEF vars
<1> QED
  BY <1>1, <1>3, <1>4, <1>5, <1>6, <1>7, <1>8, TickKept DEF Next, Round

LEMMA FreshLimiter == Init => Limiter
<1> SUFFICES ASSUME Init PROVE Limiter
  OBVIOUS
<1>1. <<>> \in Ages
  <2>1. <<>> \in Seq(0 .. Window) /\ Len(<<>>) <= MaxAttempts
    OBVIOUS
  <2> QED
    BY <2>1, AgesAre
<1> QED
  BY <1>1, RecentOfNone DEF Init, None, Limiter, Kept

(* No window, wherever it begins, admits more exchanges of a key than      *)
(* allowAuth's maximum, for any number of clients behind it.               *)
THEOREM LimiterHolds == Spec => []LimiterBound
<1>1. Limiter => LimiterBound
  BY AgesAre DEF Limiter, LimiterBound
<1> QED
  BY <1>1, FreshLimiter, LimiterKept, PTL DEF Spec

(* A 429 means that the window is full of exchanges that were admitted:    *)
(* nobody is locked out by attempts that were turned away.                 *)
THEOREM OnlyLimitedForCause == Spec => LimitedForCause
<1>1. ASSUME Limiter, NEW c \in Clients, ExchangeLimited(c)
      PROVE  Len(granted[KeyOf[c]]) >= MaxAttempts
  <2>1. ~ (Len(Kept(KeyOf[c])) < MaxAttempts) /\ KeyOf[c] \in Keys
    BY <1>1 DEF ExchangeLimited, Allowed, Keys
  <2>2. granted[KeyOf[c]] = Kept(KeyOf[c]) /\ Len(Kept(KeyOf[c])) \in Nat
    BY <1>1, <2>1, KeptIs
  <2> QED
    BY <2>1, <2>2
<1>2. Limiter /\ [Next]_vars =>
          [\A c \in Clients : ExchangeLimited(c) =>
               Len(granted[KeyOf[c]]) >= MaxAttempts]_vars
  BY <1>1
<1> QED
  BY <1>2, FreshLimiter, LimiterKept, PTL DEF Spec, LimitedForCause

-----------------------------------------------------------------------------
(* Types: what is left is that nothing counts beyond its bound.            *)

Counters ==
    /\ tries \in [Clients -> 0 .. Tries - 1]
    /\ polled \subseteq Clients
    /\ revoked \in [Admins -> 0 .. Forgotten + 1]
    /\ starts \in 0 .. MaxStarts

LEMMA FreshCounters == Init => Counters
BY DEF Init, Fresh, Provisioned, Counters, Forgotten

LEMMA CountersKept == Counters /\ [Next]_vars => Counters'
<1> SUFFICES ASSUME Counters, [Next]_vars PROVE Counters'
  OBVIOUS
<1> USE DEF Counters
<1>0. {Window, SessionTTL, ConnTTL, Tries} \subseteq Nat \ {0} /\ MaxStarts \in Nat
  OBVIOUS
<1>1. ASSUME NEW c \in Clients, UNCHANGED <<polled, revoked, starts>>,
             Granted(c) \/ Denied(c) \/ NoAnswer(c)
      PROVE  Counters'
  <2>1. CASE tries' = [tries EXCEPT ![c] = 0]
    BY <1>0, <1>1, <2>1
  <2>2. CASE tries[c] + 1 < Tries /\ tries' = [tries EXCEPT ![c] = @ + 1]
    BY <1>0, <1>1, <2>2
  <2>3. \/ tries' = [tries EXCEPT ![c] = 0]
        \/ tries[c] + 1 < Tries /\ tries' = [tries EXCEPT ![c] = @ + 1]
    BY <1>1 DEF Granted, Denied, NoAnswer
  <2> QED
    BY <2>1, <2>2, <2>3
<1>2. ASSUME NEW c \in Clients,
             ExchangeServed(c) \/ ExchangeLimited(c) \/ ExchangeUnreachable(c)
             \/ ExchangeFails(c)
      PROVE  Counters'
  <2>1. UNCHANGED <<polled, revoked, starts>>
    BY <1>2 DEF ExchangeServed, ExchangeLimited, ExchangeUnreachable, ExchangeFails, World
  <2>2. Granted(c) \/ Denied(c) \/ NoAnswer(c)
    BY <1>2 DEF ExchangeServed, ExchangeLimited, ExchangeUnreachable, ExchangeFails
  <2> QED
    BY <1>1, <2>1, <2>2
<1>3. ASSUME NEW c \in Clients,
             ConnectionServed(c) \/ ConnectionFails(c) \/ Dial(c) \/ EndRound(c)
      PROVE  UNCHANGED <<tries, polled, revoked, starts>>
  BY <1>3 DEF ConnectionServed, ConnectionFails, Dial, EndRound, World
<1>4. ASSUME NEW c \in Clients, Wake(c) PROVE Counters'
  BY <1>4 DEF Wake
<1>5. ASSUME NEW c \in Clients, Launch(c) PROVE Counters'
  BY <1>0, <1>5 DEF Launch
<1>6. ASSUME NEW c \in Clients, Quit(c) PROVE Counters'
  BY <1>0, <1>6 DEF Quit, World
<1>7. ASSUME NEW a \in Admins, Disable(a) PROVE Counters'
  <2>1. /\ UNCHANGED <<tries, polled, starts>>
        /\ revoked' = [revoked EXCEPT ![a] = 1]
    BY <1>7 DEF Disable, clientVars
  <2> QED
    BY <1>0, <2>1 DEF Forgotten
<1>8. CASE Tick
  <2>1. /\ UNCHANGED <<tries, starts>> /\ polled' = {}
        /\ revoked' = [a \in Admins |-> IF revoked[a] \in 1 .. Forgotten
                                        THEN revoked[a] + 1 ELSE revoked[a]]
    BY <1>8 DEF Tick
  <2> QED
    BY <1>0, <2>1 DEF Forgotten
<1>9. CASE Installation \/ UNCHANGED vars
  BY <1>9 DEF Installation, vars, clientVars
<1> QED
  BY <1>2, <1>3, <1>4, <1>5, <1>6, <1>7, <1>8, <1>9 DEF Next, Round

(* The variables keep their types: what is remembered and what has a       *)
(* lifetime stays within its bound.                                        *)
THEOREM TypeCorrect == Spec => []TypeOK
<1>1. BootInv /\ Lifetimes /\ Limiter /\ Counters => TypeOK
  BY DEF BootInv, Lifetimes, Client, Where, Limiter, Counters, TypeOK
<1>2. Spec => []Lifetimes
  BY FreshLifetimes, LifetimesKept, PTL DEF Spec
<1>3. Spec => []Limiter
  BY FreshLimiter, LimiterKept, PTL DEF Spec
<1>4. Spec => []Counters
  BY FreshCounters, CountersKept, PTL DEF Spec
<1> QED
  BY <1>1, <1>2, <1>3, <1>4, SetUp, PTL
=============================================================================
