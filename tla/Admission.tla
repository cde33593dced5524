----------------------------- MODULE Admission -----------------------------
(***************************************************************************)
(* How cclaude gets in and stays in: POST /v1/auth/exchange behind its     *)
(* limiter and GET /v1/connection (internal/control/http.go), the client   *)
(* that retries them (internal/control/client.go), and the two places that *)
(* renew what has expired, the loop of main and runSync (cmd/cclaude/      *)
(* main.go), against a control-api that is migrated, killed and restarted  *)
(* as in Bootstrap.                                                        *)
(*                                                                         *)
(* Time passes in ticks of a few seconds, the pause between two rounds of  *)
(* runSync (2 s) and main (5 s); what has a lifetime counts down.  A       *)
(* request takes less than a tick, a sync session any number of them.  The *)
(* loop of main waits for runSync, which ends with the program, so a       *)
(* client has one session token, the one that runSync was given or         *)
(* renewed.                                                                *)
(***************************************************************************)
EXTENDS Bootstrap, Sequences

CONSTANTS
    Clients,      \* running copies of cclaude
    CdkOf,        \* the run of ccwadmin that printed each client's CDK
    KeyOf,        \* the address the limiter knows each client by
    MaxAttempts,  \* exchanges admitted per window and key
    Window,       \* ticks that an attempt counts
    SessionTTL,   \* ticks that a session token is valid
    ConnTTL,      \* ticks that a sync token is valid
    Tries,        \* requests of one Exchange before it gives up
    MaxStarts     \* bound on the starts of cclaude

Keys == {KeyOf[c] : c \in Clients}

ASSUME AdmissionAssumption ==
    /\ CdkOf \in [Clients -> Admins]
    /\ {MaxAttempts, Window, SessionTTL, ConnTTL, Tries} \subseteq Nat \ {0}
    /\ MaxStarts \in Nat

VARIABLES
    cli,       \* where each client is
    tries,     \* the requests its Exchange has made in vain
    session,   \* ticks its session token is still valid, 0 if expired or none
    token,     \* ticks its sync token is still valid
    polled,    \* the clients whose ticker has fired since the last tick
    attempts,  \* the limiter's memory: the ages of the attempts of each key
    granted,   \* the ages of the exchanges admitted in the last window (not code)
    revoked,   \* ticks since each CDK was disabled, 0 if it is not
    starts

clientVars == <<cli, tries, session, token>>
limiter == <<attempts, granted>>
vars == <<bootVars, clientVars, polled, limiter, revoked, starts>>

None == [k \in Keys |-> <<>>]
Forgotten == SessionTTL + ConnTTL  \* the longest anything lives on

-----------------------------------------------------------------------------
(* Two kinds of installation: an empty one, and one whose projects were    *)
(* created one after the other, to which clients come.                     *)

Fresh == BootInit /\ starts = MaxStarts

Distinct(f) == \A a, b \in Admins : f[a] = f[b] => a = b
OwnSlug == CHOOSE f \in [Admins -> Slugs] : Distinct(f)
First == CHOOSE a \in Admins : TRUE

Provisioned ==
    /\ OwnSlug \in [Admins -> Slugs] /\ Distinct(OwnSlug) /\ First \in Admins
    /\ proc = [p \in Processes |-> IF p = ControlApi THEN "serving" ELSE "done"]
    /\ file = [p \in Processes |-> Files + 1]
    /\ applied = [m \in Migrations |-> 1]
    /\ recorded = Migrations
    /\ slug = OwnSlug
    /\ account = [a \in Admins |-> First]
    /\ accounts = {First}
    /\ project = [s \in Slugs |-> IF \E a \in Admins : slug[a] = s
                                  THEN CHOOSE a \in Admins : slug[a] = s
                                  ELSE NoAdmin]
    /\ cdks = Admins
    /\ faults = IF MaxFaults = 0 THEN 0 ELSE MaxFaults - 1  \* one is left
    /\ starts = 0

Init ==
    /\ Fresh \/ Provisioned
    /\ cli = [c \in Clients |-> "off"]
    /\ tries = [c \in Clients |-> 0]
    /\ session = [c \in Clients |-> 0] /\ token = [c \in Clients |-> 0]
    /\ polled = {}
    /\ attempts = None /\ granted = None
    /\ revoked = [a \in Admins |-> 0]

-----------------------------------------------------------------------------
(* The control API. *)

(* Those of a sequence of attempts that the window still holds. *)
Recent(ages) ==
    LET kept[i \in 0 .. Len(ages)] ==
            IF i = 0 THEN <<>>
            ELSE IF ages[i] < Window THEN Append(kept[i - 1], ages[i])
                                     ELSE kept[i - 1]
    IN  kept[Len(ages)]

NeverForgetsBug(k) == attempts[k]
(* allowAuth drops what has left the window, ... *)
Kept(k) == Recent(attempts[k])

OneMoreBug(k) == Len(Kept(k)) <= MaxAttempts
(* ... and lets in another attempt if there is room. *)
Allowed(k) == Len(Kept(k)) < MaxAttempts

Count(k) ==
    /\ attempts' = [attempts EXCEPT ![k] = Append(Kept(k), 0)]
    /\ granted' = [granted EXCEPT ![k] = Append(@, 0)]

CountRejectedBug(k) ==
    attempts' = [attempts EXCEPT ![k] = Append(Kept(k), 0)] /\ UNCHANGED granted
(* A rejected attempt is not counted. *)
Reject(k) == attempts' = [attempts EXCEPT ![k] = Kept(k)] /\ UNCHANGED granted

IgnoreDisabledBug(a) == a \in cdks
(* ResolveCDK: the row exists and is neither disabled nor expired. *)
Resolves(a) == a \in cdks /\ revoked[a] = 0

(* authed and the quota check of GET /v1/connection: the session token is  *)
(* verified by its signature and lifetime alone.                           *)
Authed(c) == session[c] > 0

-----------------------------------------------------------------------------
(* cclaude.  Where an exchange is made, and what follows it. *)

Exchanging == {"login", "renew", "reexchange"}
Connecting == {"ask", "refresh", "reconnect"}

Move(c, where) == cli' = [cli EXCEPT ![c] = where]
World == <<bootVars, polled, revoked, starts>>

KeepOldSessionBug(c) ==
    /\ Move(c, IF cli[c] = "reexchange" THEN "reconnect" ELSE "ask")
    /\ IF cli[c] = "reexchange"
       THEN UNCHANGED session ELSE session' = [session EXCEPT ![c] = SessionTTL]
    /\ tries' = [tries EXCEPT ![c] = 0]
    /\ UNCHANGED token
(* Exchange returns a session token: main and runSync go on to Connection. *)
Granted(c) ==
    /\ Move(c, IF cli[c] = "reexchange" THEN "reconnect" ELSE "ask")
    /\ session' = [session EXCEPT ![c] = SessionTTL]
    /\ tries' = [tries EXCEPT ![c] = 0]
    /\ UNCHANGED token

(* It returns an error: the program ends if it was the first one, main     *)
(* loses the old token and sleeps, runSync keeps it for the next round.    *)
Denied(c) ==
    /\ Move(c, CASE cli[c] = "login" -> "off"
                 [] cli[c] = "renew" -> "slept"
                 [] cli[c] = "reexchange" -> "idle")
    /\ IF cli[c] = "renew"
       THEN session' = [session EXCEPT ![c] = 0] ELSE UNCHANGED session
    /\ tries' = [tries EXCEPT ![c] = 0]
    /\ UNCHANGED token

(* The network or the proxy fails (a 502): doJSON tries again. *)
NoAnswer(c) ==
    IF tries[c] + 1 < Tries
    THEN tries' = [tries EXCEPT ![c] = @ + 1] /\ UNCHANGED <<cli, session, token>>
    ELSE Denied(c)

(* One request of Exchange. *)
ExchangeServed(c) ==
    /\ cli[c] \in Exchanging /\ Serving /\ Allowed(KeyOf[c])
    /\ Count(KeyOf[c])
    /\ IF Resolves(CdkOf[c]) THEN Granted(c) ELSE Denied(c)
    /\ UNCHANGED World

(* 429; a 4xx is final. *)
ExchangeLimited(c) ==
    /\ cli[c] \in Exchanging /\ Serving /\ ~ Allowed(KeyOf[c])
    /\ Reject(KeyOf[c])
    /\ Denied(c)
    /\ UNCHANGED World

ExchangeUnreachable(c) ==
    /\ cli[c] \in Exchanging /\ ~ Serving
    /\ NoAnswer(c)
    /\ UNCHANGED <<World, limiter>>

(* The request or its answer is lost, the attempt counted or not; or the   *)
(* database fails, which is answered like an invalid CDK.                  *)
ExchangeFails(c) ==
    /\ cli[c] \in Exchanging /\ Serving /\ Fault
    /\ \/ NoAnswer(c) /\ UNCHANGED limiter
       \/ Allowed(KeyOf[c]) /\ Count(KeyOf[c]) /\ (NoAnswer(c) \/ Denied(c))
    /\ UNCHANGED <<proc, file, schema, slug, rows, polled, revoked, starts>>

(* Connection: a sync token, whatever the quota; main starts runSync,      *)
(* which dials at once, runSync waits for its ticker.                      *)
ConnectionServed(c) ==
    /\ cli[c] \in Connecting /\ Serving /\ Authed(c)
    /\ token' = [token EXCEPT ![c] = ConnTTL]
    /\ Move(c, IF cli[c] = "ask" THEN "dial" ELSE "idle")
    /\ UNCHANGED <<World, limiter, tries, session>>

(* Any error: main and runSync exchange anew, the second time runSync      *)
(* leaves it at that.                                                      *)
ConnectionFails(c) ==
    /\ cli[c] \in Connecting
    /\ IF Serving /\ Authed(c) THEN Fault ELSE UNCHANGED faults
    /\ Move(c, CASE cli[c] = "ask" -> "renew"
                 [] cli[c] = "refresh" -> "reexchange"
                 [] cli[c] = "reconnect" -> "idle")
    /\ UNCHANGED <<proc, file, schema, slug, rows, polled, revoked, starts>>
    /\ UNCHANGED <<limiter, tries, session, token>>

(* DialSync: the worker verifies the token.  A failing dial is answered by *)
(* a refresh, whatever the reason.                                         *)
Dial(c) ==
    /\ cli[c] = "dial"
    /\ \/ token[c] > 0 /\ Move(c, "syncing") /\ UNCHANGED faults
       \/ token[c] = 0 /\ Move(c, "refresh") /\ UNCHANGED faults
       \/ token[c] > 0 /\ Fault /\ Move(c, "refresh")
    /\ UNCHANGED <<proc, file, schema, slug, rows, polled, revoked, starts>>
    /\ UNCHANGED <<limiter, tries, session, token>>

(* SyncOnce returns. *)
EndRound(c) ==
    /\ cli[c] = "syncing"
    /\ Move(c, "idle")
    /\ UNCHANGED <<World, limiter, tries, session, token>>

(* runSync's ticker fires, or main has slept. *)
Wake(c) ==
    /\ c \notin polled
    /\ \/ cli[c] = "idle" /\ Move(c, "dial")
       \/ cli[c] = "slept" /\ Move(c, "ask")
    /\ polled' = polled \cup {c}
    /\ UNCHANGED <<bootVars, limiter, tries, session, token, revoked, starts>>

Round(c) ==
    \/ ExchangeServed(c) \/ ExchangeLimited(c) \/ ExchangeUnreachable(c)
    \/ ConnectionServed(c) \/ ConnectionFails(c) \/ Dial(c) \/ EndRound(c) \/ Wake(c)

-----------------------------------------------------------------------------
(* A user starts cclaude with a CDK that was printed, and ends it. *)

Launch(c) ==
    /\ cli[c] = "off" /\ proc[CdkOf[c]] = "done" /\ starts < MaxStarts
    /\ starts' = starts + 1
    /\ Move(c, "login")
    /\ polled' = polled \cup {c}
    /\ UNCHANGED <<bootVars, limiter, tries, session, token, revoked>>

Quit(c) ==
    /\ cli[c] # "off"
    /\ Move(c, "off")
    /\ tries' = [tries EXCEPT ![c] = 0]
    /\ session' = [session EXCEPT ![c] = 0]
    /\ token' = [token EXCEPT ![c] = 0]
    /\ UNCHANGED <<World, limiter>>

(* disabled_at is set, by hand: there is no command for it. *)
Disable(a) ==
    /\ a \in cdks /\ revoked[a] = 0 /\ Fault
    /\ revoked' = [revoked EXCEPT ![a] = 1]
    /\ UNCHANGED <<proc, file, schema, slug, rows, clientVars, polled, limiter, starts>>

(* A token is minted with its lifetime and verified until that has passed; *)
(* its signature and audience are taken to be perfect.                     *)
Down(n) == IF n = 0 THEN 0 ELSE n - 1
Older(ages) == [i \in DOMAIN ages |-> IF ages[i] < Window THEN ages[i] + 1 ELSE ages[i]]

(* A tick.  Each client that is not backing off between two requests has   *)
(* finished a round since the last one or is still in it: SyncOnce takes   *)
(* as long as its files take, and its session is not cut when a token      *)
(* expires, as the worker verifies it at the dial only and pongs renew the *)
(* read deadline.                                                          *)
Tick ==
    /\ \A c \in Clients : \/ cli[c] \in {"off", "syncing"} \/ tries[c] > 0
                          \/ cli[c] \in {"idle", "slept"} /\ c \in polled
    /\ polled' = {}
    /\ session' = [c \in Clients |-> Down(session[c])]
    /\ token' = [c \in Clients |-> Down(token[c])]
    /\ attempts' = [k \in Keys |-> Older(attempts[k])]
    /\ granted' = [k \in Keys |-> Recent(Older(granted[k]))]
    /\ revoked' = [a \in Admins |-> IF revoked[a] \in 1 .. Forgotten
                                    THEN revoked[a] + 1 ELSE revoked[a]]
    /\ UNCHANGED <<bootVars, cli, tries, starts>>

(* The database's processes; with control-api the limiter's memory goes.   *)
Installation ==
    /\ BootNext
    /\ IF Serving /\ ~ Serving' THEN attempts' = None /\ granted' = None
                                ELSE UNCHANGED limiter
    /\ UNCHANGED <<clientVars, polled, revoked, starts>>

Next ==
    \/ Installation
    \/ \E c \in Clients : Round(c) \/ ExchangeFails(c) \/ Launch(c) \/ Quit(c)
    \/ \E a \in Admins : Disable(a)
    \/ Tick

Spec == Init /\ [][Next]_vars

(* Time passes, and a client that runs does its rounds: its requests are   *)
(* answered or fail, and its tickers fire.                                 *)
Fairness ==
    /\ BootFairness
    /\ \A c \in Clients : WF_vars(Round(c))
    /\ WF_vars(Tick)

FairSpec == Spec /\ Fairness

-----------------------------------------------------------------------------
(* Properties. *)

Ages == UNION {[1 .. n -> 0 .. Window] : n \in 0 .. MaxAttempts}

TypeOK ==
    /\ BootTypeOK
    /\ cli \in [Clients -> {"off", "slept", "dial", "syncing", "idle"}
                              \cup Exchanging \cup Connecting]
    /\ tries \in [Clients -> 0 .. Tries - 1]
    /\ session \in [Clients -> 0 .. SessionTTL]
    /\ token \in [Clients -> 0 .. ConnTTL]
    /\ polled \subseteq Clients
    /\ attempts \in [Keys -> Ages]
    /\ granted \in [Keys -> Ages]
    /\ revoked \in [Admins -> 0 .. Forgotten + 1]
    /\ starts \in 0 .. MaxStarts

(* "每分钟每客户端的exchange尝试上限": in every window, wherever it begins,   *)
(* one run of control-api admits at most MaxAttempts exchanges of a key.   *)
LimiterBound == \A k \in Keys : Len(granted[k]) <= MaxAttempts

(* A client is turned away only if that many were admitted in the window:  *)
(* attempts that were turned away or are long past do not count.           *)
LimitedForCause ==
    [][\A c \in Clients : ExchangeLimited(c) =>
          Len(granted[KeyOf[c]]) >= MaxAttempts]_vars

(* A CDK that was disabled opens no sync session once the tokens that were *)
(* minted before have run out: no renewal prolongs them ("短期连接令牌").     *)
(* A session that is open by then goes on until its SyncOnce returns.      *)
RevocationHolds ==
    [][\A c \in Clients :
          cli[c] = "dial" /\ cli'[c] = "syncing" =>
              revoked[CdkOf[c]] < SessionTTL + ConnTTL]_vars

(* "断网会自动重连；session过期会用内存中的CDK自动重新换取": a client that      *)
(* keeps running syncs again and again, through expired tokens, lost       *)
(* requests, restarts of control-api and other clients behind the same     *)
(* address, as long as none of these has a disabled CDK: such a client     *)
(* asks for ever and can use up the attempts of its key.                   *)
SyncRecovers ==
    \A c \in Clients :
        (/\ <>[](cli[c] # "off")
         /\ \A d \in Clients : KeyOf[d] = KeyOf[c] => [](revoked[CdkOf[d]] = 0))
            => []<>(cli[c] = "syncing")
=============================================================================
