------------------------ MODULE TerminalAccessProofs ------------------------
(***************************************************************************)
(* Proofs about TerminalAccess, for any projects, clients, connections,    *)
(* changes of quota and faults.                                            *)
(***************************************************************************)
EXTENDS TerminalAccess, TLAPS

USE TerminalAssumption

(* What the registry and the loop hold are connections with a client. *)
Owned == \A id \in reg \cup hit : id <= last /\ owner[id] \in Clients

(* A handler is in the registry from Accept to Finish, and it has a PTY    *)
(* only between startPTY and Finish.                                       *)
Running == {"upgrade", "session", "create", "attach", "serving", "ending"}
HandlersRegistered == \A id \in Conns : st[id] \in Running => id \in reg
PtysServed == \A id \in Conns : pty[id] => st[id] \in {"serving", "ending"}

(* The loop closes projects that have been over their quota.               *)
Blamed ==
    /\ \A p \in Projects : quota[p] = "over" => p \in everOver
    /\ proj # NoProject => proj \in everOver
    /\ \A id \in hit : Project(id) \in everOver

IInv == TypeOK /\ Owned /\ HandlersRegistered /\ PtysServed /\ Blamed

LEMMA Initially == Init => IInv
BY DEF Init, IInv, TypeOK, Owned, Running, HandlersRegistered, PtysServed, Blamed,
       HandlerStates, Conns

(* A step of cclaude that opens no connection. *)
LEMMA ClientStep ==
    ASSUME IInv, NEW c \in Clients,
           \/ Start(c) \/ Connection(c) \/ DialFails(c)
           \/ HandshakeFails(c) \/ TerminalReturns(c) \/ Quit(c)
    PROVE  IInv'
<1>1. /\ cli' \in [Clients -> {"off", "ask", "cleanup", "dial", "dialing", "terminal",
                               "waiting"}]
      /\ at' \in [Clients -> 0 .. last]
      /\ starts' \in Nat /\ UNCHANGED <<Rest, faults>>
  BY DEF IInv, TypeOK, Start, Connection, DialFails, HandshakeFails, TerminalReturns,
         Quit, Move, Hangup, bounds
<1>2. TypeOK'
  BY <1>1 DEF IInv, TypeOK, Rest, world, handler, loop
<1>3. UNCHANGED <<world, last, handler, reg, loop>>
  BY <1>1 DEF Rest
<1> QED
  BY <1>2, <1>3 DEF IInv, Owned, HandlersRegistered, PtysServed, Blamed, Project,
                   world, handler, loop

LEMMA AcceptStep ==
    ASSUME IInv, NEW c \in Clients, Accept(c)
    PROVE  IInv'
<1> DEFINE id == last + 1
<1>1. id \in Conns /\ last \in Nat
  BY DEF IInv, TypeOK, Accept, Conns
<1>2. /\ last' = id
      /\ owner' = [owner EXCEPT ![id] = c]
      /\ st' = [st EXCEPT ![id] = "upgrade"]
      /\ reg' = reg \cup {id}
      /\ cli' = [cli EXCEPT ![c] = "dialing"]
      /\ at' = [at EXCEPT ![c] = id]
      /\ UNCHANGED <<world, sock, pty, cancelled, loop, bounds>>
  BY DEF Accept, Goto, Add, Move
<1> HIDE DEF id
<1>3. last < id /\ id <= MaxConns /\ id \in Nat
  BY <1>1 DEF id, Conns
<1>4. TypeOK'
  BY <1>1, <1>2, <1>3 DEF IInv, TypeOK, HandlerStates, world, loop, bounds, Conns
<1>5. Owned'
  <2> SUFFICES ASSUME NEW i \in reg' \cup hit'
               PROVE  i <= last' /\ owner'[i] \in Clients
    BY DEF Owned
  <2>1. CASE i = id
    BY <2>1, <1>1, <1>2, <1>3 DEF IInv, TypeOK
  <2>2. CASE i # id
    <3>1. i \in reg \cup hit /\ i \in Conns
      BY <1>2, <2>2 DEF IInv, TypeOK, loop
    <3> QED
      BY <3>1, <2>2, <1>1, <1>2, <1>3 DEF IInv, TypeOK, Owned, Conns
  <2> QED
    BY <2>1, <2>2
<1>6. HandlersRegistered' /\ PtysServed'
  <2>1. \A i \in Conns : i # id => st'[i] = st[i]
    BY <1>2 DEF IInv, TypeOK
  <2>2. ~ pty[id] \/ st[id] \in Running
    BY <1>1 DEF IInv, PtysServed, Running
  <2>3. st[id] \notin Running
    BY <1>1, <1>3, <2>2 DEF IInv, HandlersRegistered, Owned, Conns
  <2> QED
    BY <1>1, <1>2, <2>1, <2>2, <2>3 DEF IInv, TypeOK, HandlersRegistered, PtysServed
<1>7. Blamed'
  <2>1. \A i \in hit : owner'[i] = owner[i]
    BY <1>1, <1>2, <1>3 DEF IInv, TypeOK, Owned, Conns
  <2> QED
    BY <1>2, <2>1 DEF IInv, Blamed, Project, world, loop
<1> QED
  BY <1>4, <1>5, <1>6, <1>7 DEF IInv

(* A step of a handler before its deferred calls, or of its goroutines.    *)
LEMMA HandlerStep ==
    ASSUME IInv, NEW id \in Conns,
           \/ Upgrade(id) \/ HasSession(id) \/ NewSession(id) \/ Attach(id)
           \/ ReadFails(id) \/ ContextDone(id) \/ PtyEnds(id)
    PROVE  IInv'
<1> DEFINE Where == {"off", "ask", "cleanup", "dial", "dialing", "terminal", "waiting"}
           Frame == UNCHANGED <<quota, everOver, changes, last, owner, loop, bounds,
                                cancelled, reg, at>>
           Typed == /\ tmux' \in [Projects -> BOOLEAN] /\ cli' \in [Clients -> Where]
                    /\ sock' \in [Conns -> {"none", "open", "closed"}]
                    /\ pty' \in [Conns -> BOOLEAN] /\ st' \in [Conns -> HandlerStates]
<1>1. Frame /\ Typed
  <2>1. CASE Upgrade(id)
    BY <2>1 DEF IInv, TypeOK, Upgrade, Goto, Around, world, HandlerStates
  <2>2. CASE HasSession(id)
    BY <2>2 DEF IInv, TypeOK, HasSession, Goto, Around, world, client, HandlerStates
  <2>3. CASE NewSession(id)
    BY <2>3 DEF IInv, TypeOK, NewSession, Goto, client, HandlerStates
  <2>4. CASE Attach(id) \/ ReadFails(id)
    BY <2>4 DEF IInv, TypeOK, Attach, ReadFails, Goto, Around, world, client, HandlerStates
  <2>5. CASE ContextDone(id) \/ PtyEnds(id)
    BY <2>5 DEF IInv, TypeOK, ContextDone, PtyEnds, CloseSock, Around, world, client
  <2> QED
    BY <2>1, <2>2, <2>3, <2>4, <2>5
<1>2. TypeOK'
  BY <1>1 DEF IInv, TypeOK, loop, bounds
<1>3. Owned' /\ Blamed'
  BY <1>1 DEF IInv, Owned, Blamed, Project, loop
<1>4. HandlersRegistered' /\ PtysServed'
  <2>1. CASE UNCHANGED <<st, pty>>
    BY <2>1, <1>1 DEF IInv, HandlersRegistered, PtysServed
  <2>2. CASE /\ st[id] \in Running /\ st'[id] \in Running
             /\ pty'[id] => st'[id] \in {"serving", "ending"}
             /\ \A i \in Conns \ {id} : st'[i] = st[i] /\ pty'[i] = pty[i]
    BY <2>2, <1>1 DEF IInv, HandlersRegistered, PtysServed
  <2>3. CASE Upgrade(id) \/ HasSession(id) \/ NewSession(id)
    BY <2>2, <2>3 DEF IInv, TypeOK, PtysServed, Upgrade, HasSession, NewSession, Goto, Running
  <2>4. CASE Attach(id) \/ ReadFails(id)
    BY <2>2, <2>4 DEF IInv, TypeOK, PtysServed, Attach, ReadFails, Goto, Running
  <2>5. CASE ContextDone(id) \/ PtyEnds(id)
    BY <2>1, <2>5 DEF ContextDone, PtyEnds
  <2> QED
    BY <2>3, <2>4, <2>5
<1> QED
  BY <1>2, <1>3, <1>4 DEF IInv

LEMMA FinishStep ==
    ASSUME IInv, NEW id \in Conns, Finish(id)
    PROVE  IInv'
<1>1. /\ st' = [st EXCEPT ![id] = "done"]
      /\ pty' = [pty EXCEPT ![id] = FALSE]
      /\ sock' \in [Conns -> {"none", "open", "closed"}]
      /\ cancelled' = [cancelled EXCEPT ![id] = TRUE]
      /\ reg' = reg \ {id}
      /\ UNCHANGED <<world, last, owner, loop, bounds, client>>
  BY DEF IInv, TypeOK, Finish, Goto, CloseSock, Unreg, Around
<1>2. TypeOK'
  BY <1>1 DEF IInv, TypeOK, HandlerStates, world, loop, bounds, client
<1>3. Owned' /\ Blamed'
  BY <1>1 DEF IInv, Owned, Blamed, Project, world, loop
<1>4. HandlersRegistered' /\ PtysServed'
  BY <1>1 DEF IInv, TypeOK, HandlersRegistered, PtysServed, Running
<1> QED
  BY <1>2, <1>3, <1>4 DEF IInv

LEMMA EnforceStep ==
    ASSUME IInv, Enforce
    PROVE  IInv'
<1>1. CASE Tick
  <2>1. ActiveProjects \subseteq Projects
    BY DEF IInv, Owned, ActiveProjects, Project
  <2>2. active' = ActiveProjects /\ UNCHANGED <<Others, cancelled, proj, hit, faults>>
    BY <1>1 DEF Tick
  <2> QED
    BY <2>1, <2>2 DEF IInv, TypeOK, Owned, HandlersRegistered, PtysServed, Blamed, Project,
                      Others, world, client
<1>2. ASSUME NEW p \in Projects, CheckQuota(p)
      PROVE  IInv'
  <2>1. /\ active' \subseteq active /\ faults' \in Nat
        /\ proj' = proj \/ (proj' = p /\ quota[p] = "over")
        /\ UNCHANGED <<Others, cancelled, hit>>
    BY <1>2 DEF IInv, TypeOK, CheckQuota, Fault
  <2> QED
    BY <2>1 DEF IInv, TypeOK, Owned, HandlersRegistered, PtysServed, Blamed, Project,
                Others, world, client
<1>3. CASE CloseProject
  <2>1. /\ hit' = {id \in reg : Project(id) = proj}
        /\ proj # NoProject /\ proj' = NoProject
        /\ UNCHANGED <<Others, cancelled, active, faults>>
    BY <1>3 DEF CloseProject, ToClose
  <2> QED
    BY <2>1 DEF IInv, TypeOK, Owned, HandlersRegistered, PtysServed, Blamed, Project,
                Others, world, client
<1>4. ASSUME NEW id \in Conns, Cancel(id)
      PROVE  IInv'
  <2>1. /\ hit' = hit \ {id}
        /\ cancelled' \in [Conns -> BOOLEAN]
        /\ UNCHANGED <<Others, active, proj, faults>>
    BY <1>4 DEF IInv, TypeOK, Cancel
  <2> QED
    BY <2>1 DEF IInv, TypeOK, Owned, HandlersRegistered, PtysServed, Blamed, Project,
                Others, world, client
<1> QED
  BY <1>1, <1>2, <1>3, <1>4 DEF Enforce

LEMMA WorldStep ==
    ASSUME IInv,
           (\E p \in Projects : QuotaChanges(p) \/ SessionEnds(p)) \/ Restart
    PROVE  IInv'
<1>1. ASSUME NEW p \in Projects, QuotaChanges(p)
      PROVE  IInv'
  <2>1. PICK q \in {"ok", "over", "full"} :
            /\ changes' = changes + 1
            /\ quota' = [quota EXCEPT ![p] = q]
            /\ everOver' = IF q = "over" THEN everOver \cup {p} ELSE everOver
            /\ UNCHANGED <<tmux, client, last, handler, reg, loop, bounds>>
    BY <1>1 DEF QuotaChanges
  <2> QED
    BY <2>1 DEF IInv, TypeOK, Owned, HandlersRegistered, PtysServed, Blamed, Project,
                client, handler, loop, bounds
<1>2. ASSUME NEW p \in Projects, SessionEnds(p)
      PROVE  IInv'
  BY <1>2 DEF SessionEnds, Fault, IInv, TypeOK, Owned, HandlersRegistered, PtysServed, Blamed,
              Project, client, handler, loop
<1>3. CASE Restart
  BY <1>3 DEF Restart, Fault, IInv, TypeOK, Owned, HandlersRegistered, PtysServed, Blamed,
              Project, Running, HandlerStates, Conns, world, client
<1> QED
  BY <1>1, <1>2, <1>3

LEMMA Preserved == IInv /\ [Next]_vars => IInv'
<1> SUFFICES ASSUME IInv, [Next]_vars
             PROVE  IInv'
  OBVIOUS
<1>1. CASE \E c \in Clients : Cclaude(c)
  BY <1>1, ClientStep, AcceptStep DEF Cclaude
<1>2. CASE \E id \in Conns : Handler(id) \/ ContextDone(id) \/ PtyEnds(id)
  BY <1>2, HandlerStep, FinishStep DEF Handler
<1>3. CASE UNCHANGED vars
  BY <1>3 DEF vars, world, client, handler, loop, bounds, IInv, TypeOK, Owned,
              HandlersRegistered, PtysServed, Blamed, Project
<1> QED
  BY <1>1, <1>2, <1>3, EnforceStep, WorldStep DEF Next

LEMMA Invariance == Spec => []IInv
BY Initially, Preserved, PTL DEF Spec

(* The types of the variables; in particular the enforcement loop only     *)
(* ever looks at the quota of projects.                                    *)
THEOREM TypeCorrect == Spec => []TypeOK
BY Invariance, PTL DEF IInv

(* No handler of Serve has a PTY that the enforcement loop could not find  *)
(* in the registry, whatever fails and whoever is cancelled when.          *)
THEOREM NoHiddenTerminal == Spec => []TerminalsRegistered
<1>1. IInv => TerminalsRegistered
  BY DEF IInv, HandlersRegistered, PtysServed, TerminalsRegistered, Running
<1> QED
  BY <1>1, Invariance, PTL

(* CloseProject, working on a copy of the registry, cancels no running     *)
(* handler of a project that has never been over its quota.                *)
THEOREM OnlyOverQuota == Spec => OthersUnharmed
<1> DEFINE A == \A id \in Conns :
                    cancelled'[id] /\ ~ cancelled[id] /\ st'[id] # "done"
                        => Project(id) \in everOver
<1>1. IInv /\ [Next]_vars => A
  <2> SUFFICES ASSUME IInv, [Next]_vars, NEW id \in Conns,
                      cancelled'[id], ~ cancelled[id], st'[id] # "done"
               PROVE  Project(id) \in everOver
    OBVIOUS
  <2>1. CASE UNCHANGED cancelled
    BY <2>1
  <2>2. ASSUME NEW i \in Conns, Cancel(i)
        PROVE  Project(id) \in everOver
    BY <2>2 DEF Cancel, IInv, TypeOK, Blamed
  <2>3. ASSUME NEW i \in Conns, Finish(i)
        PROVE  FALSE
    BY <2>3 DEF Finish, Goto, IInv, TypeOK
  <2>4. CASE Restart
    BY <2>4 DEF Restart, Conns
  <2>5. ASSUME NEW c \in Clients, Cclaude(c)
        PROVE  UNCHANGED cancelled
    BY <2>5 DEF Cclaude, Start, Connection, DialFails, Accept, HandshakeFails,
                TerminalReturns, Quit, Rest, handler
  <2>6. ASSUME NEW i \in Conns, Handler(i) \/ ContextDone(i) \/ PtyEnds(i), ~ Finish(i)
        PROVE  UNCHANGED cancelled
    BY <2>6 DEF Handler, Upgrade, HasSession, NewSession, Attach, ReadFails, ContextDone,
                PtyEnds
  <2>7. ASSUME Tick \/ CloseProject \/ \E p \in Projects : CheckQuota(p)
        PROVE  UNCHANGED cancelled
    BY <2>7 DEF Tick, CloseProject, CheckQuota
  <2>8. ASSUME NEW p \in Projects, QuotaChanges(p) \/ SessionEnds(p)
        PROVE  UNCHANGED cancelled
    BY <2>8 DEF QuotaChanges, SessionEnds, handler
  <2>9. CASE UNCHANGED vars
    BY <2>1, <2>9 DEF vars, handler
  <2> QED
    BY <2>1, <2>2, <2>3, <2>4, <2>5, <2>6, <2>7, <2>8, <2>9 DEF Next, Enforce
<1> QED
  BY <1>1, Invariance, PTL DEF Spec, OthersUnharmed
=============================================================================
