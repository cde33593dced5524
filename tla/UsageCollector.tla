--------------------------- MODULE UsageCollector ---------------------------
(***************************************************************************)
(* The usage collector of one project (internal/usage/collector.go): it    *)
(* walks over the session logs that Claude appends to, parses each         *)
(* complete line, hands usage events to a sink and persists, per file, how *)
(* far it has read and the half line it saw at the end.  Sink and offset   *)
(* store are interfaces; the repository has no production implementation   *)
(* of them yet and nothing calls Scan, so no fairness is assumed here.     *)
(*                                                                         *)
(* A line is two units long, so that a scan can meet it half written; the  *)
(* second unit carries the newline.  The counters of an event are          *)
(* represented by one number.                                              *)
(***************************************************************************)
EXTENDS SequencesExt

CONSTANTS
    Files,       \* the .jsonl files that may turn up under Dir
    Lines,       \* what Claude writes
    Ids,         \* request ids
    Parse,       \* what half a line and another half parse as, together
    MaxLen,      \* bound on the length of a file
    MaxRotate,   \* bound on truncations
    MaxFaults    \* bound on failing calls and crashes

ASSUME FilesAssumption == Files # {}

LineRecords == [kind : {"usage", "other", "bad"}, id : Ids, units : Nat \ {0}]
ASSUME LinesAssumption == Lines \subseteq LineRecords

(* The halves of a line make the line; those of different lines as a rule  *)
(* no JSON, but similar lines cut at one byte may well make a third line.  *)
ASSUME ParseAssumption ==
    /\ Parse \in [Lines -> [Lines -> LineRecords]]
    /\ \A l \in Lines : Parse[l][l] = l
ASSUME BoundsAssumption == MaxLen \in Nat /\ MaxRotate \in Nat /\ MaxFaults \in Nat

VARIABLES
    log,      \* the content of each file, a sequence of units
    gen,      \* how often each file has been truncated (never read by the code)
    written,  \* the lines ever completed (never read by the code)
    cursor,   \* what the offset store holds for each file
    counted,  \* what the sink holds for each request, 0 if nothing
    bad,      \* BadLines
    pc,       \* idle, walk, read, save
    todo,     \* the files the running scan has still to visit
    at,       \* the file being read and its gen when it was opened
    cur,      \* the cursor being advanced
    faults

logs == <<log, gen, written>>
scanner == <<pc, todo, at, cur>>
vars == <<logs, cursor, counted, bad, scanner, faults>>

Unit(l, half) == [line |-> l, half |-> half]
Units == [line : Lines, half : {1, 2}]

(* offset: the end of the last complete line; partial: what came after it. *)
(* The field gen notes in which content the offset was measured.           *)
Cursor(n, s, g) == [offset |-> n, partial |-> s, gen |-> g]
Position(c) == c.offset + Len(c.partial)

Nowhere == [file |-> CHOOSE f \in Files : TRUE, gen |-> 0]

Init ==
    /\ log = [f \in Files |-> <<>>]
    /\ gen = [f \in Files |-> 0]
    /\ written = {}
    /\ cursor = [f \in Files |-> Cursor(0, <<>>, 0)]
    /\ counted = [i \in Ids |-> 0]
    /\ bad = 0
    /\ pc = "idle" /\ todo = {} /\ at = Nowhere /\ cur = Cursor(0, <<>>, 0)
    /\ faults = 0

-----------------------------------------------------------------------------
(* Claude. *)

HalfWritten(f) == log[f] # <<>> /\ Last(log[f]).half = 1

Write(f) ==
    /\ Len(log[f]) < MaxLen
    /\ \/ /\ ~ HalfWritten(f)
          /\ \E l \in Lines : log' = [log EXCEPT ![f] = Append(@, Unit(l, 1))]
          /\ UNCHANGED written
       \/ /\ HalfWritten(f)
          /\ log' = [log EXCEPT ![f] = Append(@, Unit(Last(@).line, 2))]
          /\ written' = written \cup {Last(log[f]).line}
    /\ UNCHANGED <<gen, cursor, counted, bad, scanner, faults>>

Rotate(f) ==
    /\ log[f] # <<>> /\ gen[f] < MaxRotate
    /\ log' = [log EXCEPT ![f] = <<>>]
    /\ gen' = [gen EXCEPT ![f] = @ + 1]
    /\ UNCHANGED <<written, cursor, counted, bad, scanner, faults>>

-----------------------------------------------------------------------------
(* Scan.  A definition whose name ends in Bug is a mistake the code could  *)
(* have made; no action uses it.                                           *)

Fault == faults < MaxFaults /\ faults' = faults + 1

(* The scan is over, or has failed: its locals are gone. *)
Leave ==
    /\ pc' = "idle" /\ todo' = {} /\ at' = Nowhere /\ cur' = Cursor(0, <<>>, 0)

(* The file is done, or cannot be read this time. *)
NextFile(f) ==
    /\ pc' = "walk" /\ todo' = todo \ {f}
    /\ at' = Nowhere /\ cur' = Cursor(0, <<>>, 0)

StartScan ==
    /\ pc = "idle" /\ pc' = "walk" /\ todo' = Files
    /\ UNCHANGED <<logs, cursor, counted, bad, at, cur, faults>>

NoRescanBug(f) == cursor[f]
RewindBug(f) ==
    IF Len(log[f]) < Position(cursor[f])
    THEN Cursor(cursor[f].offset + Len(log[f]) - Position(cursor[f]), <<>>, gen[f])
    ELSE cursor[f]
(* A file shorter than what was read of it is read again from the start.   *)
Resume(f) ==
    IF Len(log[f]) < Position(cursor[f]) THEN Cursor(0, <<>>, gen[f]) ELSE cursor[f]

Open(f) ==
    /\ pc = "walk" /\ f \in todo
    /\ \/ Fault /\ NextFile(f)
       \/ /\ pc' = "read"
          /\ at' = [file |-> f, gen |-> gen[f]]
          /\ cur' = Resume(f)
          /\ UNCHANGED <<todo, faults>>
    /\ UNCHANGED <<logs, cursor, counted, bad>>

Unread == SubSeq(log[at.file], Position(cur) + 1, Len(log[at.file]))
Newline(s) == {i \in 1 .. Len(s) : s[i].half = 2}

(* parseLine takes whatever parses for a line, also a first half kept from *)
(* a line that is gone with the second half of the one written over it.    *)
Whole(s) == Len(s) = 2 /\ s[1].half = 1 /\ s[2].half = 2
Parsed(s) == Parse[s[1].line][s[2].line]
IsEvent(s) == Whole(s) /\ Parsed(s).kind = "usage"
IsBad(s) == ~ Whole(s) \/ Parsed(s).kind = "bad"

AccumulateBug(l) == counted' = [counted EXCEPT ![l.id] = @ + l.units]
(* Sink.Insert, idempotent by request id: the greatest value is kept.      *)
Insert(l) == counted' = [counted EXCEPT ![l.id] = Max({@, l.units})]

(* Read up to the next newline; the half line of the last scan comes first. *)
ReadLine ==
    /\ pc = "read" /\ Newline(Unread) # {}
    /\ UNCHANGED <<logs, cursor>>
    /\ LET line == cur.partial \o SubSeq(Unread, 1, Min(Newline(Unread)))
       IN  \/ /\ IF IsEvent(line) THEN Insert(Parsed(line)) ELSE UNCHANGED counted
              /\ bad' = IF IsBad(line) THEN bad + 1 ELSE bad
              /\ cur' = Cursor(cur.offset + Len(line), <<>>, cur.gen)
              /\ UNCHANGED <<pc, todo, at, faults>>
           \/ /\ IsEvent(line) /\ Fault
              /\ Insert(Parsed(line)) \/ UNCHANGED counted
              /\ Leave
              /\ UNCHANGED bad

CommitHalfLineBug ==
    /\ pc = "read" /\ Newline(Unread) = {}
    /\ cur' = Cursor(Position(cur) + Len(Unread), <<>>, cur.gen)
    /\ pc' = "save"
    /\ UNCHANGED <<logs, cursor, counted, bad, todo, at, faults>>
(* At the end of the file the half line is kept; a read error keeps none.  *)
ReadEnd ==
    /\ pc = "read"
    /\ pc' = "save"
    /\ \/ /\ Newline(Unread) = {}
          /\ cur' = [cur EXCEPT !.partial = @ \o Unread]
          /\ UNCHANGED <<bad, faults>>
       \/ Fault /\ bad' = bad + 1 /\ UNCHANGED cur
    /\ UNCHANGED <<logs, cursor, counted, todo, at>>

(* The cursor is persisted; if that fails the scan ends.                   *)
SaveCursor ==
    /\ pc = "save"
    /\ \/ /\ cursor' = [cursor EXCEPT ![at.file] = cur]
          /\ NextFile(at.file)
          /\ UNCHANGED faults
       \/ /\ cursor' \in {cursor, [cursor EXCEPT ![at.file] = cur]}
          /\ Fault
          /\ Leave
    /\ UNCHANGED <<logs, counted, bad>>

EndScan ==
    /\ pc = "walk" /\ todo = {}
    /\ Leave
    /\ UNCHANGED <<logs, cursor, counted, bad, faults>>

(* The process ends between two steps and starts again. *)
Crash ==
    /\ pc # "idle" /\ Fault
    /\ Leave
    /\ bad' = 0
    /\ UNCHANGED <<logs, cursor, counted>>

Next ==
    \/ \E f \in Files : Write(f) \/ Rotate(f) \/ Open(f)
    \/ StartScan \/ ReadLine \/ ReadEnd \/ SaveCursor \/ EndScan \/ Crash

Spec == Init /\ [][Next]_vars

-----------------------------------------------------------------------------
(* Properties. *)

Cursors == [offset : Nat, partial : Seq(Units), gen : Nat]

TypeOK ==
    /\ log \in [Files -> Seq(Units)]
    /\ gen \in [Files -> Nat]
    /\ written \subseteq Lines
    /\ cursor \in [Files -> Cursors]
    /\ counted \in [Ids -> Nat]
    /\ bad \in Nat /\ faults \in Nat
    /\ pc \in {"idle", "walk", "read", "save"}
    /\ todo \subseteq Files
    /\ at \in [file : Files, gen : Nat]
    /\ cur \in Cursors

(* Every usage line of f that ends at or before unit n is counted. *)
CountedUpTo(f, n) ==
    \A i \in 1 .. Len(log[f]) :
        LET u == log[f][i]
        IN  i <= n /\ u.half = 2 /\ u.line.kind = "usage" => counted[u.line.id] >= u.line.units

(* "游标不保存，下轮重试": a persisted cursor never stands behind a usage line  *)
(* that is not counted, whichever call failed and wherever a crash hit.    *)
NothingSkipped ==
    \A f \in Files : cursor[f].gen = gen[f] => CountedUpTo(f, cursor[f].offset)

(* The file was truncated and has grown past the cursor before the         *)
(* collector looked: it cannot tell, and reads on from the old position.   *)
Regrown(f) == cur.gen # gen[f] /\ Position(cur) <= Len(log[f])

(* A count changes only to what one complete line of a log says, however   *)
(* often a line is read again after a failure, a restart or a truncation.  *)
(* The exception is the code's: in a file that grew back unnoticed, one    *)
(* line is read from the half line of the old content and the rest of a    *)
(* new one, and the code counts it if it parses.                           *)
CountedIsWritten ==
    [][\A i \in Ids :
          counted'[i] # counted[i] =>
              \/ \E l \in written : l.kind = "usage" /\ l.id = i /\ l.units = counted'[i]
              \/ cur.partial # <<>> /\ Regrown(at.file)]_vars

(* A scan that reaches the end of a file has counted every complete usage  *)
(* line in it, also when the file was truncated since the last scan, but   *)
(* for one that grew back unnoticed or is truncated while it is read.      *)
ScanCatchesUp ==
    [][pc = "read" /\ pc' = "save" /\ faults' = faults /\ at.gen = gen[at.file]
          => Regrown(at.file) \/ CountedUpTo(at.file, Len(log[at.file]))]_vars
=============================================================================
