--------------------------- MODULE TerminalAccess ---------------------------
(***************************************************************************)
(* Who has a terminal, and who loses it: the control API that hands out    *)
(* terminal tokens (internal/control/http.go), the loop of cclaude that    *)
(* uses them, the worker's terminal handlers (internal/terminal), their    *)
(* registry and the loop of cmd/worker-agent that closes the terminals of  *)
(* projects over their usage quota.                                        *)
(*                                                                         *)
(* Every connection has a handler with several goroutines; an action is    *)
(* what one of them does between two points where another can come in.     *)
(* Registry ids are never reused, as in the code.  A terminal token is     *)
(* used once, right after it was handed out, or not at all.  cclaude's     *)
(* syncing is the subject of SyncClient.                                   *)
(***************************************************************************)
EXTENDS Naturals, FiniteSets

CONSTANTS
    Projects, NoProject,
    Clients, NoClient,  \* running copies of cclaude; the owner of no connection
    ProjectOf,          \* the project of each client's CDK
    MaxConns,           \* bound on the connections ever opened
    MaxQuota,           \* bound on the changes of a project's quota state
    MaxFaults,          \* bound on failing quota checks, dying tmux sessions and restarts
    MaxStarts           \* bound on the starts of cclaude

Conns == 1 .. MaxConns

ASSUME TerminalAssumption ==
    /\ NoProject \notin Projects /\ NoClient \notin Clients
    /\ ProjectOf \in [Clients -> Projects]
    /\ MaxConns \in Nat /\ MaxQuota \in Nat /\ MaxFaults \in Nat /\ MaxStarts \in Nat

VARIABLES
    quota,      \* each project: ok, over (its own limits), full (disk or pool)
    tmux,       \* does the project's container run its tmux session?
    cli,        \* where each client is in its loop
    at,         \* the connection its terminal uses, 0 if none
    last,       \* the last registry id
    owner,      \* the client of each connection
    st,         \* where the handler of each connection is
    sock,       \* the worker's end of the websocket
    pty,        \* is docker exec attached?
    cancelled,  \* is the context of the handler cancelled?
    reg,        \* ConnRegistry: the registered connections
    active,     \* the projects the enforcement loop has still to look at
    proj,       \* the project it is about to close
    hit,        \* the cancel functions it has still to call
    everOver,   \* projects that have been over quota (never read by the code)
    changes, faults, starts

client == <<cli, at>>
handler == <<owner, st, sock, pty, cancelled>>
loop == <<active, proj, hit>>
world == <<quota, tmux, everOver, changes>>
bounds == <<faults, starts>>
vars == <<world, client, last, handler, reg, loop, bounds>>

Project(id) == ProjectOf[owner[id]]
Fault == faults < MaxFaults /\ faults' = faults + 1

Init ==
    /\ quota = [p \in Projects |-> "ok"] /\ tmux = [p \in Projects |-> FALSE]
    /\ cli = [c \in Clients |-> "off"] /\ at = [c \in Clients |-> 0]
    /\ last = 0
    /\ owner = [id \in Conns |-> NoClient] /\ st = [id \in Conns |-> "none"]
    /\ sock = [id \in Conns |-> "none"] /\ pty = [id \in Conns |-> FALSE]
    /\ cancelled = [id \in Conns |-> FALSE]
    /\ reg = {}
    /\ active = {} /\ proj = NoProject /\ hit = {}
    /\ everOver = {}
    /\ changes = 0 /\ faults = 0 /\ starts = 0

-----------------------------------------------------------------------------
(* cclaude.  A definition whose name ends in Bug is a mistake the code     *)
(* could have made; no action uses it.                                     *)

Move(c, where) == cli' = [cli EXCEPT ![c] = where]
Hangup(c) == at' = [at EXCEPT ![c] = 0]
Rest == <<world, last, handler, reg, loop>>

Start(c) ==
    /\ cli[c] = "off" /\ starts < MaxStarts
    /\ starts' = starts + 1
    /\ Move(c, "ask")
    /\ UNCHANGED <<Rest, at, faults>>

(* GET /v1/connection: a terminal token only within quota and disk limit.  *)
(* Any error is followed by another attempt.                               *)
Connection(c) ==
    /\ cli[c] = "ask"
    /\ Move(c, IF quota[ProjectOf[c]] = "ok" THEN "dial" ELSE "cleanup")
    /\ UNCHANGED <<Rest, at, bounds>>

(* The dial does not get through, or arrives after the token has expired   *)
(* and is refused; the loop then waits for runSync, which only ends with   *)
(* the program.                                                            *)
DialFails(c) ==
    /\ cli[c] = "dial"
    /\ Move(c, "waiting")
    /\ UNCHANGED <<Rest, at, bounds>>

(* The handshake fails: the handler is gone before there is a websocket.   *)
HandshakeFails(c) ==
    /\ cli[c] = "dialing" /\ st[at[c]] \in {"ending", "done"}
    /\ Move(c, "waiting") /\ Hangup(c)
    /\ UNCHANGED <<Rest, bounds>>

(* runTerminal returns: standard input has ended, or a key was pressed and *)
(* the websocket is closed.                                                *)
TerminalReturns(c) ==
    /\ cli[c] = "terminal"
    /\ Move(c, "waiting") /\ Hangup(c)
    /\ UNCHANGED <<Rest, bounds>>

Quit(c) ==
    /\ cli[c] # "off"
    /\ Move(c, "off") /\ Hangup(c)
    /\ UNCHANGED <<Rest, bounds>>

-----------------------------------------------------------------------------
(* The worker's terminal handlers. *)

Goto(id, where) == st' = [st EXCEPT ![id] = where]
CloseSock(id) == sock' = [sock EXCEPT ![id] = "closed"]
Around == <<world, last, owner, loop, bounds>>

(* ConnRegistry.Add *)
Add(id) == reg' = reg \cup {id}

(* Verify the token and register before there is a websocket. *)
Accept(c) ==
    LET id == last + 1
    IN  /\ cli[c] = "dial" /\ last < MaxConns
        /\ last' = id
        /\ owner' = [owner EXCEPT ![id] = c]
        /\ Goto(id, "upgrade")
        /\ Add(id)
        /\ Move(c, "dialing")
        /\ at' = [at EXCEPT ![c] = id]
        /\ UNCHANGED <<world, sock, pty, cancelled, loop, bounds>>

(* Serve verifies the token again and upgrades. *)
Upgrade(id) ==
    /\ st[id] = "upgrade"
    /\ \/ /\ Goto(id, "session")
          /\ sock' = [sock EXCEPT ![id] = "open"]
          /\ cli' = [c \in Clients |-> IF at[c] = id THEN "terminal" ELSE cli[c]]
       \/ Goto(id, "ending") /\ UNCHANGED <<sock, cli>>
    /\ UNCHANGED <<Around, at, pty, cancelled, reg>>

(* startPTY: has-session ...                                               *)
HasSession(id) ==
    /\ st[id] = "session"
    /\ Goto(id, IF tmux[Project(id)] THEN "attach" ELSE "create")
    /\ UNCHANGED <<Around, client, sock, pty, cancelled, reg>>

(* ... and new-session if it failed; tmux refuses a second one, and docker *)
(* may fail.                                                               *)
NewSession(id) ==
    /\ st[id] = "create"
    /\ \/ /\ ~ tmux[Project(id)]
          /\ tmux' = [tmux EXCEPT ![Project(id)] = TRUE]
          /\ Goto(id, "attach")
       \/ Goto(id, "ending") /\ UNCHANGED tmux
    /\ UNCHANGED <<quota, everOver, changes, last, owner, loop, bounds>>
    /\ UNCHANGED <<client, sock, pty, cancelled, reg>>

Attach(id) ==
    /\ st[id] = "attach"
    /\ \/ /\ Goto(id, "serving")
          /\ pty' = [pty EXCEPT ![id] = TRUE]
       \/ Goto(id, "ending") /\ UNCHANGED pty
    /\ UNCHANGED <<Around, client, sock, cancelled, reg>>

CheckOnceBug(id) ==
    /\ sock[id] = "open" /\ cancelled[id] /\ st[id] = "session"
    /\ CloseSock(id)
    /\ UNCHANGED <<Around, client, st, pty, cancelled, reg>>
(* The goroutine that waits for the context. *)
ContextDone(id) ==
    /\ sock[id] = "open" /\ cancelled[id]
    /\ CloseSock(id)
    /\ UNCHANGED <<Around, client, st, pty, cancelled, reg>>

(* The goroutine that reads the PTY: at its end it closes the websocket.   *)
PtyEnds(id) ==
    /\ pty[id] /\ ~ tmux[Project(id)] /\ sock[id] = "open"
    /\ CloseSock(id)
    /\ UNCHANGED <<Around, client, st, pty, cancelled, reg>>

NoDeadlineBug(id) == FALSE
(* The client is gone: its end is closed, or no pong arrives before the    *)
(* read deadline.                                                          *)
PeerGone(id) == at[owner[id]] # id

(* ReadMessage fails: Serve returns. *)
ReadFails(id) ==
    /\ st[id] = "serving"
    /\ sock[id] = "closed" \/ PeerGone(id)
    /\ Goto(id, "ending")
    /\ UNCHANGED <<Around, client, sock, pty, cancelled, reg>>

(* The handle that ConnRegistry.Add returned. *)
Unreg(id) == reg' = reg \ {id}

LeavePtyBug(id) ==
    /\ st[id] = "ending"
    /\ Goto(id, "done")
    /\ IF sock[id] = "open" THEN CloseSock(id) ELSE UNCHANGED sock
    /\ cancelled' = [cancelled EXCEPT ![id] = TRUE]
    /\ Unreg(id)
    /\ UNCHANGED <<Around, client, pty>>
(* The deferred calls: Serve closes PTY and websocket, then the handler    *)
(* cancels its context and leaves the registry.                            *)
Finish(id) ==
    /\ st[id] = "ending"
    /\ Goto(id, "done")
    /\ pty' = [pty EXCEPT ![id] = FALSE]
    /\ IF sock[id] = "open" THEN CloseSock(id) ELSE UNCHANGED sock
    /\ cancelled' = [cancelled EXCEPT ![id] = TRUE]
    /\ Unreg(id)
    /\ UNCHANGED <<Around, client>>

-----------------------------------------------------------------------------
(* The enforcement loop: every 30 seconds, all projects with a terminal,   *)
(* one after the other.                                                    *)

Others == <<world, client, last, owner, st, sock, pty, reg, starts>>
Idle == proj = NoProject /\ hit = {}

ActiveConnsBug == reg
(* ConnRegistry.ActiveProjects *)
ActiveProjects == {Project(id) : id \in reg}

Tick ==
    /\ Idle /\ active = {}
    /\ active' = ActiveProjects
    /\ UNCHANGED <<Others, cancelled, proj, hit, faults>>

(* The project's own limits only: the disk and the pool are not looked at  *)
(* here.  A project whose state cannot be read is left for the next round. *)
CheckQuota(p) ==
    /\ Idle /\ p \in active
    /\ active' = active \ {p}
    /\ \/ quota[p] = "over" /\ proj' = p /\ UNCHANGED faults
       \/ quota[p] # "over" /\ UNCHANGED <<proj, faults>>
       \/ quota[p] = "over" /\ Fault /\ UNCHANGED proj
    /\ UNCHANGED <<Others, cancelled, hit>>

CloseEverythingBug(p) == reg
(* CloseProject copies the cancel functions under the mutex ...            *)
ToClose(p) == {id \in reg : Project(id) = p}

CloseProject ==
    /\ proj # NoProject
    /\ hit' = ToClose(proj) /\ proj' = NoProject
    /\ UNCHANGED <<Others, cancelled, active, faults>>

(* ... and calls them without it.                                          *)
Cancel(id) ==
    /\ id \in hit
    /\ hit' = hit \ {id}
    /\ cancelled' = [cancelled EXCEPT ![id] = TRUE]
    /\ UNCHANGED <<Others, active, proj, faults>>

-----------------------------------------------------------------------------
(* The world. *)

QuotaChanges(p) ==
    \E q \in {"ok", "over", "full"} \ {quota[p]} :
        /\ changes < MaxQuota /\ changes' = changes + 1
        /\ quota' = [quota EXCEPT ![p] = q]
        /\ everOver' = IF q = "over" THEN everOver \cup {p} ELSE everOver
        /\ UNCHANGED <<tmux, client, last, handler, reg, loop, bounds>>

(* Claude or the container ends, and the tmux session with it. *)
SessionEnds(p) ==
    /\ tmux[p] /\ Fault
    /\ tmux' = [tmux EXCEPT ![p] = FALSE]
    /\ UNCHANGED <<quota, everOver, changes, client, last, handler, reg, loop, starts>>

(* The worker starts anew; tmux sessions live in the containers. *)
Restart ==
    /\ Fault /\ \E id \in Conns : st[id] \notin {"none", "done"}
    /\ st' = [id \in Conns |-> IF id <= last THEN "done" ELSE "none"]
    /\ sock' = [id \in Conns |-> IF sock[id] = "open" THEN "closed" ELSE sock[id]]
    /\ pty' = [id \in Conns |-> FALSE]
    /\ cancelled' = [id \in Conns |-> id <= last]
    /\ reg' = {}
    /\ active' = {} /\ proj' = NoProject /\ hit' = {}
    /\ UNCHANGED <<world, client, last, owner, starts>>

Cclaude(c) ==
    \/ Start(c) \/ Connection(c) \/ DialFails(c) \/ Accept(c)
    \/ HandshakeFails(c) \/ TerminalReturns(c) \/ Quit(c)
Handler(id) ==
    \/ Upgrade(id) \/ HasSession(id) \/ NewSession(id) \/ Attach(id)
    \/ ReadFails(id) \/ Finish(id)
Enforce ==
    \/ Tick \/ CloseProject
    \/ \E p \in Projects : CheckQuota(p)
    \/ \E id \in Conns : Cancel(id)

Next ==
    \/ \E c \in Clients : Cclaude(c)
    \/ \E id \in Conns : Handler(id) \/ ContextDone(id) \/ PtyEnds(id)
    \/ Enforce
    \/ \E p \in Projects : QuotaChanges(p) \/ SessionEnds(p)
    \/ Restart

Spec == Init /\ [][Next]_vars

(* Goroutines run, the ticker of the loop ticks, docker and tmux answer.   *)
(* Nothing is assumed of clients and users.                                *)
Fairness ==
    /\ \A id \in Conns : WF_vars(Handler(id)) /\ WF_vars(ContextDone(id) \/ PtyEnds(id))
    /\ WF_vars(Enforce)

FairSpec == Spec /\ Fairness

-----------------------------------------------------------------------------
(* Properties. *)

HandlerStates == {"none", "upgrade", "session", "create", "attach", "serving",
                  "ending", "done"}

(* Every variable has its type; in particular the loop looks at projects. *)
TypeOK ==
    /\ quota \in [Projects -> {"ok", "over", "full"}]
    /\ tmux \in [Projects -> BOOLEAN]
    /\ cli \in [Clients -> {"off", "ask", "cleanup", "dial", "dialing", "terminal",
                            "waiting"}]
    /\ at \in [Clients -> 0 .. last]
    /\ last \in 0 .. MaxConns
    /\ owner \in [Conns -> Clients \cup {NoClient}]
    /\ st \in [Conns -> HandlerStates]
    /\ sock \in [Conns -> {"none", "open", "closed"}]
    /\ pty \in [Conns -> BOOLEAN] /\ cancelled \in [Conns -> BOOLEAN]
    /\ reg \subseteq Conns
    /\ active \subseteq Projects
    /\ proj \in Projects \cup {NoProject}
    /\ hit \subseteq Conns
    /\ everOver \subseteq Projects
    /\ changes \in Nat /\ faults \in Nat /\ starts \in Nat

(* Whatever can show a terminal is known to the registry: a handler        *)
(* registers before it attaches and leaves after the PTY is closed, also   *)
(* when it fails half way or is cancelled before it has a websocket, so    *)
(* enforcement cannot miss a terminal and no docker exec is left behind.   *)
TerminalsRegistered == \A id \in Conns : pty[id] => id \in reg

(* "关闭某项目的所有活跃终端连接": the loop, which works on copies of the     *)
(* registry taken at different moments, never cancels a running handler of *)
(* a project that was at no time over its quota.                           *)
OthersUnharmed ==
    [][\A id \in Conns : cancelled'[id] /\ ~ cancelled[id] /\ st'[id] # "done"
                            => Project(id) \in everOver]_vars

(* "超额即关闭其全部终端连接": a project that stays over its quota ends up     *)
(* without terminals for good: the loop closes those it finds, those that  *)
(* come in between and those opened with tokens minted before, until no    *)
(* token is left.                                                          *)
OverQuotaClosed ==
    \A p \in Projects :
        <>[](quota[p] = "over") =>
            <>[](\A id \in Conns : pty[id] => Project(id) # p)

(* No handler outlives its client: a terminal that was left, killed or cut *)
(* off does not keep its PTY and its place in the registry.                *)
HandlersEnd ==
    \A id \in Conns :
        []<>(st[id] \notin {"none", "done"} => at[owner[id]] = id)

-----------------------------------------------------------------------------
(* A statement of the documentation that the code does not keep. *)

(* README.md:50, "窗口恢复后自动回到正常模式": a client in cleanup mode leaves  *)
(* it once the project is within its limits again.                         *)
ReturnsToNormal ==
    \A c \in Clients :
        <>[](quota[ProjectOf[c]] = "ok") => []<>(cli[c] # "cleanup")
=============================================================================
