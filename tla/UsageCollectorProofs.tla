------------------------ MODULE UsageCollectorProofs ------------------------
(***************************************************************************)
(* Proofs about UsageCollector, for any files, lines and request ids, with *)
(* Claude writing and truncating logs, failing calls and crashes.          *)
(***************************************************************************)
EXTENDS UsageCollector, SequenceTheorems, WellFoundedInduction, TLAPS

USE LinesAssumption, BoundsAssumption

(* A log is lines of two units, perhaps without the last one's newline. *)
LogOK(f) ==
    \A i \in 1 .. Len(log[f]) :
        /\ log[f][i].half = 2 => /\ i # 1 /\ log[f][i - 1] = Unit(log[f][i].line, 1)
                                 /\ log[f][i].line \in written
        /\ log[f][i].half = 1 => i = 1 \/ log[f][i - 1].half = 2

(* A half line of the log of f starts after unit n, or a line does. *)
Boundary(f, n) == n = 0 \/ log[f][n].half = 2

HalfLine(s) == \A i \in 1 .. Len(s) : s[i].half = 1

(* What is known of a cursor of f: it keeps no newline back, and if it was *)
(* measured in what f still holds, it splits f in lines that are counted,  *)
(* the half line it keeps, and the unread rest.                            *)
CursorOK(f, c) ==
    /\ c.gen <= gen[f]
    /\ HalfLine(c.partial)
    /\ c.gen = gen[f] =>
          /\ Position(c) <= Len(log[f])
          /\ Boundary(f, c.offset)
          /\ \A i \in 1 .. Len(c.partial) : c.partial[i] = log[f][c.offset + i]
          /\ CountedUpTo(f, c.offset)

(* The scan is inside the file it has open, unless that was truncated.     *)
ReaderOK ==
    pc \in {"read", "save"} =>
        /\ CursorOK(at.file, cur)
        /\ at.gen <= gen[at.file]
        /\ at.gen = gen[at.file] => Position(cur) <= Len(log[at.file])

IInv ==
    /\ TypeOK
    /\ \A f \in Files : LogOK(f) /\ CursorOK(f, cursor[f])
    /\ ReaderOK

-----------------------------------------------------------------------------
(* Numbers. *)

LEMMA MinOf ==
    ASSUME NEW S \in SUBSET Nat, S # {}
    PROVE  Min(S) \in S /\ \A n \in S : Min(S) <= n
<1>1. \E m \in S : \A n \in S : ~ (<<n, m>> \in OpToRel(<, Nat))
  BY WFMin, NatLessThanWellFounded
<1>2. ASSUME NEW m \in Nat, NEW n \in Nat, n < m
      PROVE  <<n, m>> \in OpToRel(<, Nat)
  <2>1. <<n, m>> \in Nat \X Nat /\ <<n, m>>[1] < <<n, m>>[2]
    BY <1>2
  <2> QED
    BY <2>1, Zenon DEF OpToRel
<1>3. PICK m \in S : \A n \in S : m <= n
  <2>1. PICK m \in S : \A n \in S : ~ (<<n, m>> \in OpToRel(<, Nat))
    BY <1>1
  <2>2. \A n \in S : ~ (n < m)
    BY <1>2, <2>1
  <2>3. \A n \in S : m <= n
    BY <2>2
  <2> QED
    BY <2>3
<1> QED
  BY <1>3 DEF Min

LEMMA MaxOf ==
    ASSUME NEW m \in Nat, NEW n \in Nat
    PROVE  LET x == Max({m, n}) IN x \in {m, n} /\ x >= m /\ x >= n
<1>1. PICK x \in {m, n} : \A y \in {m, n} : x >= y
  OBVIOUS
<1> QED
  BY <1>1 DEF Max

-----------------------------------------------------------------------------
(* Sequences. *)

LEMMA UnreadIs ==
    ASSUME TypeOK
    PROVE  /\ Unread \in Seq(Units)
           /\ Len(Unread) = IF Position(cur) <= Len(log[at.file])
                            THEN Len(log[at.file]) - Position(cur) ELSE 0
           /\ \A i \in 1 .. Len(Unread) : Unread[i] = log[at.file][Position(cur) + i]
           /\ Position(cur) \in Nat /\ Len(log[at.file]) \in Nat
<1>1. log[at.file] \in Seq(Units) /\ Position(cur) \in Nat
  BY DEF TypeOK, Position, Cursors
<1> DEFINE s == log[at.file]
           n == Position(cur)
<1>2. s \in Seq(Units) /\ n \in Nat /\ Len(s) \in Nat
  BY <1>1
<1>3. \A i \in n + 1 .. Len(s) : s[i] \in Units
  BY <1>2
<1> HIDE DEF s, n
<1>4. n + 1 \in Int /\ Len(s) \in Int
  BY <1>2
<1>5. /\ SubSeq(s, n + 1, Len(s)) \in Seq(Units)
      /\ Len(SubSeq(s, n + 1, Len(s))) = IF n + 1 <= Len(s) THEN Len(s) - (n + 1) + 1 ELSE 0
      /\ \A i \in 1 .. Len(s) - (n + 1) + 1 : SubSeq(s, n + 1, Len(s))[i] = s[n + 1 + i - 1]
  BY <1>3, <1>4, SubSeqProperties
<1>6. \A i \in Nat : n + 1 + i - 1 = n + i
  BY <1>2
<1>7. Len(SubSeq(s, n + 1, Len(s))) = IF n <= Len(s) THEN Len(s) - n ELSE 0
  BY <1>2, <1>5
<1>8. \A i \in 1 .. Len(SubSeq(s, n + 1, Len(s))) : SubSeq(s, n + 1, Len(s))[i] = s[n + i]
  BY <1>2, <1>5, <1>6, <1>7
<1> QED
  BY <1>2, <1>5, <1>7, <1>8 DEF Unread, s, n

(* The line that ReadLine hands to parseLine, and where it ends. *)
Newest == Min(Newline(Unread))
Taken == cur.partial \o SubSeq(Unread, 1, Newest)
TakenEnd == Position(cur) + Newest

LEMMA TakenIs ==
    ASSUME TypeOK, Newline(Unread) # {}
    PROVE  /\ Taken \in Seq(Units)
           /\ Newest \in Nat \ {0} /\ TakenEnd <= Len(log[at.file])
           /\ Len(Taken) = Len(cur.partial) + Newest
           /\ cur.offset + Len(Taken) = TakenEnd
           /\ \A i \in 1 .. Len(cur.partial) : Taken[i] = cur.partial[i]
           /\ \A i \in 1 .. Newest : Taken[Len(cur.partial) + i] = log[at.file][Position(cur) + i]
           /\ log[at.file][TakenEnd].half = 2
           /\ \A i \in 1 .. Newest - 1 : log[at.file][Position(cur) + i].half # 2
<1>1. /\ Unread \in Seq(Units)
      /\ Len(Unread) <= Len(log[at.file]) - Position(cur) \/ Len(Unread) = 0
      /\ \A i \in 1 .. Len(Unread) : Unread[i] = log[at.file][Position(cur) + i]
      /\ Position(cur) \in Nat /\ Len(log[at.file]) \in Nat
      /\ Len(Unread) \in Nat
  BY UnreadIs
<1>2. /\ Newest \in 1 .. Len(Unread) /\ Unread[Newest].half = 2
      /\ \A i \in 1 .. Len(Unread) : Unread[i].half = 2 => Newest <= i
  <2>1. Newline(Unread) \in SUBSET Nat
    BY <1>1 DEF Newline
  <2>2. Newest \in Newline(Unread) /\ \A i \in Newline(Unread) : Newest <= i
    BY <2>1, MinOf DEF Newest
  <2> QED
    BY <2>2 DEF Newline
<1>3. PICK s \in Seq(Units) : s = SubSeq(Unread, 1, Newest)
  <2>1. \A i \in 1 .. Newest : Unread[i] \in Units
    BY <1>1, <1>2
  <2>2. SubSeq(Unread, 1, Newest) \in Seq(Units)
    BY <1>2, <2>1, SubSeqProperties
  <2> QED
    BY <2>2
<1>4. Len(s) = Newest /\ \A i \in 1 .. Newest : s[i] = Unread[i]
  BY <1>1, <1>2, <1>3
<1>5. cur.partial \in Seq(Units) /\ cur.offset \in Nat /\ Len(cur.partial) \in Nat
  BY DEF TypeOK, Cursors
<1>6. /\ Taken \in Seq(Units) /\ Len(Taken) = Len(cur.partial) + Len(s)
      /\ \A i \in 1 .. Len(cur.partial) : Taken[i] = cur.partial[i]
      /\ \A i \in 1 .. Len(s) : Taken[Len(cur.partial) + i] = s[i]
  BY <1>3, <1>5 DEF Taken
<1>7. Newest \in Nat \ {0} /\ TakenEnd <= Len(log[at.file]) /\ Position(cur) = cur.offset + Len(cur.partial)
  BY <1>1, <1>2 DEF TakenEnd, Position
<1>8. cur.offset + Len(Taken) = TakenEnd
  BY <1>4, <1>5, <1>6, <1>7 DEF TakenEnd
<1>9. \A i \in 1 .. Newest : Taken[Len(cur.partial) + i] = log[at.file][Position(cur) + i]
  <2>1. ASSUME NEW i \in 1 .. Newest
        PROVE  /\ Taken[Len(cur.partial) + i] = s[i] /\ s[i] = Unread[i]
               /\ Unread[i] = log[at.file][Position(cur) + i]
    BY <1>1, <1>2, <1>4, <1>6
  <2> QED
    BY <2>1
<1>10. log[at.file][TakenEnd].half = 2
  BY <1>1, <1>2 DEF TakenEnd
<1>11. \A i \in 1 .. Newest - 1 : log[at.file][Position(cur) + i].half # 2
  <2>1. ASSUME NEW i \in 1 .. Newest - 1
        PROVE  Unread[i].half # 2 /\ Unread[i] = log[at.file][Position(cur) + i]
    <3>1. i \in 1 .. Len(Unread) /\ i < Newest /\ i \in Nat /\ Newest \in Nat
      BY <1>1, <1>2
    <3>2. Unread[i].half # 2
      BY <1>2, <3>1
    <3> QED
      BY <1>1, <3>1, <3>2
  <2> QED
    BY <2>1
<1> QED
  BY <1>4, <1>6, <1>7, <1>8, <1>9, <1>10, <1>11

(* Whatever parses has the type of a line. *)
LEMMA ParsedTyped ==
    ASSUME TypeOK, Newline(Unread) # {}, Whole(Taken)
    PROVE  /\ Taken[1].line \in Lines /\ Taken[2].line \in Lines
           /\ Parsed(Taken) \in LineRecords
<1>1. Taken \in Seq(Units) /\ Len(Taken) = 2
  BY TakenIs DEF Whole
<1>2. Taken[1] \in Units /\ Taken[2] \in Units
  BY <1>1, ElementOfSeq
<1>3. Taken[1].line \in Lines /\ Taken[2].line \in Lines
  BY <1>2 DEF Units
<1>4. PICK l \in Lines, m \in Lines : l = Taken[1].line /\ m = Taken[2].line
  BY <1>3
<1>5. Parse[l] \in [Lines -> LineRecords]
  BY ParseAssumption
<1>6. Parse[l][m] \in LineRecords
  BY <1>5
<1> QED
  BY <1>4, <1>6 DEF Parsed

-----------------------------------------------------------------------------
(* What a step does to a log: nothing, or it grows, or it is truncated. *)

Grown(f) ==
    \/ /\ gen'[f] = gen[f]
       /\ Len(log[f]) <= Len(log'[f])
       /\ \A i \in 1 .. Len(log[f]) : log'[f][i] = log[f][i]
    \/ gen'[f] > gen[f]

LogsTyped ==
    log \in [Files -> Seq(Units)] /\ gen \in [Files -> Nat] /\ written \subseteq Lines

LogsGrown ==
    /\ LogsTyped'
    /\ written \subseteq written'
    /\ \A f \in Files : Grown(f) /\ LogOK(f)'

LEMMA WriteGrows ==
    ASSUME TypeOK, \A f \in Files : LogOK(f), NEW f \in Files, Write(f)
    PROVE  LogsGrown
<1> DEFINE s == log[f]
           Appended(u) ==
               /\ log' = [log EXCEPT ![f] = Append(@, u)] /\ gen' = gen
               /\ written' \subseteq Lines /\ written \subseteq written'
               /\ u.half = 1 => Len(s) = 0 \/ s[Len(s)].half = 2
               /\ u.half = 2 => Len(s) # 0 /\ s[Len(s)] = Unit(u.line, 1) /\ u.line \in written'
<1>0. s \in Seq(Units) /\ Len(s) \in Nat /\ LogOK(f)
  BY DEF TypeOK
<1>1. PICK u \in Units : Appended(u)
  <2>0. s # <<>> => Len(s) \in 1 .. Len(s) /\ s[Len(s)] \in Units
    BY <1>0
  <2>1. CASE ~ HalfWritten(f) /\ \E l \in Lines : log' = [log EXCEPT ![f] = Append(@, Unit(l, 1))]
    <3>1. PICK l \in Lines : log' = [log EXCEPT ![f] = Append(@, Unit(l, 1))]
      BY <2>1
    <3>2. PICK u \in Units : u = Unit(l, 1) /\ u.half = 1
      <4>1. Unit(l, 1) \in Units /\ Unit(l, 1).half = 1
        BY DEF Unit, Units
      <4> QED
        BY <4>1
    <3>3. Len(s) = 0 \/ s[Len(s)].half = 2
      BY <1>0, <2>0, <2>1 DEF HalfWritten, Last, Units
    <3>4. UNCHANGED <<gen, written>> /\ written \subseteq Lines
      BY <2>1 DEF Write, TypeOK
    <3>5. Appended(u)
      BY <3>1, <3>2, <3>3, <3>4
    <3> QED
      BY <3>5
  <2>2. CASE HalfWritten(f) /\ written' = written \cup {Last(s).line}
              /\ log' = [log EXCEPT ![f] = Append(@, Unit(Last(@).line, 2))]
    <3>1. s # <<>> /\ Len(s) # 0 /\ Last(s) \in Units /\ Last(s).half = 1 /\ Last(s) = s[Len(s)]
      BY <1>0, <2>0, <2>2 DEF HalfWritten, Last
    <3>2. PICK u \in Units : u = Unit(Last(s).line, 2)
      BY <3>1 DEF Unit, Units
    <3>3. u.half = 2 /\ u.line = Last(s).line /\ u.line \in Lines /\ s[Len(s)] = Unit(u.line, 1)
      BY <3>1, <3>2 DEF Unit, Units
    <3>4. log' = [log EXCEPT ![f] = Append(@, u)] /\ gen' = gen
      BY <2>2, <3>2 DEF Write
    <3>5. written \subseteq Lines
      BY DEF TypeOK
    <3>6. Appended(u)
      BY <2>2, <3>1, <3>3, <3>4, <3>5
    <3> QED
      BY <3>6
  <2> QED
    BY <2>1, <2>2 DEF Write
<1>2. /\ log'[f] = Append(s, u) /\ \A g \in Files : g # f => log'[g] = log[g]
      /\ log' \in [Files -> Seq(Units)]
  BY <1>0, <1>1 DEF TypeOK
<1>3. /\ Len(log'[f]) = Len(s) + 1 /\ log'[f][Len(s) + 1] = u
      /\ \A i \in 1 .. Len(s) : log'[f][i] = s[i]
  BY <1>0, <1>2
<1>4. ASSUME NEW g \in Files
      PROVE  Grown(g) /\ LogOK(g)'
  <2>1. CASE g # f
    BY <1>1, <1>2, <2>1 DEF Grown, LogOK, TypeOK
  <2>2. CASE g = f
    <3>1. Grown(f)
      BY <1>0, <1>1, <1>3 DEF Grown
    <3>2. ASSUME NEW i \in 1 .. Len(log'[f])
          PROVE  /\ log'[f][i].half = 2 => /\ i # 1 /\ log'[f][i - 1] = Unit(log'[f][i].line, 1)
                                           /\ log'[f][i].line \in written'
                 /\ log'[f][i].half = 1 => i = 1 \/ log'[f][i - 1].half = 2
      <4>1. CASE i <= Len(s)
        <5>1. i \in 1 .. Len(s) /\ (i # 1 => i - 1 \in 1 .. Len(s))
          <6>1. \A n, j \in Nat :
                    1 <= j /\ j <= n => j \in 1 .. n /\ (j # 1 => j - 1 \in 1 .. n)
            OBVIOUS
          <6> QED
            BY <1>0, <1>3, <4>1, <6>1
        <5>2. log'[f][i] = s[i] /\ (i # 1 => log'[f][i - 1] = s[i - 1])
          BY <1>3, <5>1
        <5> QED
          BY <1>0, <1>1, <5>1, <5>2 DEF LogOK
      <4>2. CASE i = Len(s) + 1
        <5>1. log'[f][i] = u /\ (Len(s) # 0 => log'[f][i - 1] = s[Len(s)]) /\ (i = 1 <=> Len(s) = 0)
          BY <1>0, <1>3, <4>2
        <5> QED
          BY <1>1, <5>1
      <4> QED
        BY <1>0, <1>3, <4>1, <4>2
    <3> QED
      BY <2>2, <3>1, <3>2 DEF LogOK
  <2> QED
    BY <2>1, <2>2
<1> QED
  BY <1>1, <1>2, <1>4 DEF LogsGrown, LogsTyped, TypeOK

LEMMA LogsStep ==
    ASSUME TypeOK, \A f \in Files : LogOK(f), [Next]_vars
    PROVE  LogsGrown
<1>1. ASSUME NEW f \in Files, Rotate(f)
      PROVE  LogsGrown
  <2>1. /\ log' = [log EXCEPT ![f] = <<>>] /\ gen' = [gen EXCEPT ![f] = @ + 1]
        /\ UNCHANGED written
    BY <1>1 DEF Rotate
  <2>2. LogsTyped'
    BY <2>1 DEF TypeOK, LogsTyped
  <2>3. ASSUME NEW g \in Files
        PROVE  Grown(g) /\ LogOK(g)'
    <3>1. CASE g # f
      BY <2>1, <3>1 DEF Grown, LogOK, TypeOK
    <3>2. CASE g = f
      <4>1. log'[f] = <<>> /\ gen'[f] = gen[f] + 1 /\ gen[f] \in Nat
        BY <2>1 DEF TypeOK
      <4> QED
        BY <3>2, <4>1 DEF Grown, LogOK
    <3> QED
      BY <3>1, <3>2
  <2> QED
    BY <2>1, <2>2, <2>3 DEF LogsGrown
<1>2. CASE UNCHANGED logs
  <2>1. log' = log /\ gen' = gen /\ written' = written
    BY <1>2 DEF logs
  <2>2. LogsTyped'
    BY <2>1 DEF LogsTyped, TypeOK
  <2>3. \A f \in Files : Grown(f) /\ LogOK(f)'
    BY <2>1 DEF Grown, LogOK, TypeOK
  <2> QED
    BY <2>1, <2>2, <2>3 DEF LogsGrown
<1>3. (\E f \in Files : Write(f) \/ Rotate(f)) \/ UNCHANGED logs
  BY DEF Next, vars, Open, StartScan, ReadLine, ReadEnd, SaveCursor, EndScan, Crash
<1> QED
  BY <1>1, <1>2, <1>3, WriteGrows

-----------------------------------------------------------------------------
(* What a step does to the counts: what is counted stays counted. *)

CountsGrown ==
    /\ counted' \in [Ids -> Nat]
    /\ \A i \in Ids : counted[i] <= counted'[i]

LEMMA InsertCounts ==
    ASSUME TypeOK, NEW l \in LineRecords, Insert(l)
    PROVE  /\ CountsGrown
           /\ counted'[l.id] >= l.units
           /\ \A i \in Ids : counted'[i] # counted[i] => i = l.id /\ counted'[i] = l.units
<1>1. l.id \in Ids /\ l.units \in Nat /\ counted[l.id] \in Nat
  BY DEF TypeOK, LineRecords
<1>2. PICK n \in {counted[l.id], l.units} :
         /\ counted' = [counted EXCEPT ![l.id] = n]
         /\ n >= counted[l.id] /\ n >= l.units
  <2>1. LET x == Max({counted[l.id], l.units})
        IN  x \in {counted[l.id], l.units} /\ x >= counted[l.id] /\ x >= l.units
    BY <1>1, MaxOf
  <2> QED
    BY <2>1 DEF Insert
<1>3. n \in Nat /\ counted'[l.id] = n /\ \A i \in Ids : i # l.id => counted'[i] = counted[i]
  BY <1>1, <1>2 DEF TypeOK
<1>4. CountsGrown
  BY <1>1, <1>2, <1>3 DEF CountsGrown, TypeOK
<1> QED
  BY <1>2, <1>3, <1>4

(* ReadLine in terms of what it takes. *)
LEMMA ReadLineForm ==
    ASSUME ReadLine
    PROVE  /\ pc = "read" /\ Newline(Unread) # {} /\ UNCHANGED <<logs, cursor>>
           /\ \/ /\ IF IsEvent(Taken) THEN Insert(Parsed(Taken)) ELSE UNCHANGED counted
                 /\ bad' = IF IsBad(Taken) THEN bad + 1 ELSE bad
                 /\ cur' = Cursor(cur.offset + Len(Taken), <<>>, cur.gen)
                 /\ UNCHANGED <<pc, todo, at, faults>>
              \/ /\ IsEvent(Taken) /\ Fault
                 /\ Insert(Parsed(Taken)) \/ UNCHANGED counted
                 /\ Leave
                 /\ UNCHANGED bad
BY DEF ReadLine, Taken, Newest

(* Only a line that was read and parsed changes a count. *)
LEMMA CountsStep ==
    ASSUME TypeOK, [Next]_vars
    PROVE  /\ CountsGrown
           /\ \/ UNCHANGED counted
              \/ /\ pc = "read" /\ Newline(Unread) # {} /\ IsEvent(Taken)
                 /\ Insert(Parsed(Taken)) /\ UNCHANGED logs
<1>1. CASE ReadLine
  <2>1. /\ pc = "read" /\ Newline(Unread) # {} /\ UNCHANGED logs
        /\ (IsEvent(Taken) /\ Insert(Parsed(Taken))) \/ UNCHANGED counted
    BY <1>1, ReadLineForm
  <2>2. CASE IsEvent(Taken) /\ Insert(Parsed(Taken))
    <3>1. PICK l \in LineRecords : l = Parsed(Taken)
      BY <2>1, <2>2, ParsedTyped DEF IsEvent
    <3> QED
      BY <2>1, <2>2, <3>1, InsertCounts
  <2>3. CASE UNCHANGED counted
    BY <2>3 DEF TypeOK, CountsGrown
  <2> QED
    BY <2>1, <2>2, <2>3
<1>2. CASE UNCHANGED counted
  BY <1>2 DEF TypeOK, CountsGrown
<1>3. ReadLine \/ UNCHANGED counted
  BY DEF Next, vars, Write, Rotate, Open, StartScan, ReadEnd, SaveCursor, EndScan, Crash
<1> QED
  BY <1>1, <1>2, <1>3

(* A cursor stays good, whatever is written, truncated and counted.        *)
LEMMA CursorKept ==
    ASSUME TypeOK, LogsGrown, CountsGrown, NEW f \in Files, NEW c \in Cursors, CursorOK(f, c)
    PROVE  CursorOK(f, c)'
<1>1. /\ c.gen \in Nat /\ c.offset \in Nat /\ c.partial \in Seq(Units) /\ Len(c.partial) \in Nat
      /\ gen[f] \in Nat /\ gen'[f] \in Nat /\ Len(log[f]) \in Nat /\ Len(log'[f]) \in Nat
      /\ log[f] \in Seq(Units) /\ log'[f] \in Seq(Units)
  <2>1. /\ c.gen \in Nat /\ c.offset \in Nat /\ c.partial \in Seq(Units)
        /\ gen[f] \in Nat /\ log[f] \in Seq(Units)
    BY DEF Cursors, TypeOK
  <2>2. gen'[f] \in Nat /\ log'[f] \in Seq(Units)
    BY DEF LogsGrown, LogsTyped
  <2> QED
    BY <2>1, <2>2
<1>2. CASE gen'[f] > gen[f]
  BY <1>1, <1>2 DEF CursorOK
<1>3. CASE /\ gen'[f] = gen[f]
           /\ Len(log[f]) <= Len(log'[f])
           /\ \A i \in 1 .. Len(log[f]) : log'[f][i] = log[f][i]
  <2>1. SUFFICES ASSUME c.gen = gen[f]
                 PROVE  /\ Position(c) <= Len(log'[f])
                        /\ Boundary(f, c.offset)'
                        /\ \A i \in 1 .. Len(c.partial) : c.partial[i] = log'[f][c.offset + i]
                        /\ CountedUpTo(f, c.offset)'
    BY <1>3 DEF CursorOK, Position
  <2>2. /\ Position(c) <= Len(log[f]) /\ Boundary(f, c.offset)
        /\ \A i \in 1 .. Len(c.partial) : c.partial[i] = log[f][c.offset + i]
        /\ CountedUpTo(f, c.offset)
        /\ Position(c) = c.offset + Len(c.partial)
    BY <2>1 DEF CursorOK, Position
  <2>3. Position(c) <= Len(log'[f])
    BY <1>1, <1>3, <2>2
  <2>4. Boundary(f, c.offset)'
    <3>1. c.offset # 0 => c.offset \in 1 .. Len(log[f])
      BY <1>1, <2>2
    <3> QED
      BY <1>3, <2>2, <3>1 DEF Boundary
  <2>5. ASSUME NEW i \in 1 .. Len(c.partial)
        PROVE  c.partial[i] = log'[f][c.offset + i]
    <3>1. c.offset + i \in 1 .. Len(log[f])
      BY <1>1, <2>2
    <3> QED
      BY <1>3, <2>2, <3>1
  <2>6. ASSUME NEW i \in 1 .. Len(log'[f]), i <= c.offset,
               log'[f][i].half = 2, log'[f][i].line.kind = "usage"
        PROVE  counted'[log'[f][i].line.id] >= log'[f][i].line.units
    <3>1. i \in 1 .. Len(log[f]) /\ log'[f][i] = log[f][i]
      BY <1>1, <1>3, <2>2, <2>6
    <3>2. PICK l \in Lines : l = log[f][i].line
      <4>1. log[f][i] \in Units
        BY <1>1, <3>1
      <4> QED
        BY <4>1 DEF Units
    <3>3. counted[l.id] >= l.units
      BY <2>2, <2>6, <3>1, <3>2 DEF CountedUpTo
    <3>4. /\ l.id \in Ids /\ l.units \in Nat /\ counted[l.id] \in Nat /\ counted'[l.id] \in Nat
          /\ counted[l.id] <= counted'[l.id]
      BY <3>2 DEF TypeOK, CountsGrown, LineRecords
    <3> QED
      BY <3>1, <3>2, <3>3, <3>4
  <2> QED
    BY <2>3, <2>4, <2>5, <2>6 DEF CountedUpTo
<1> QED
  BY <1>2, <1>3 DEF LogsGrown, Grown

-----------------------------------------------------------------------------
(* What the reader does. *)

LEMMA OpenOK ==
    ASSUME IInv, NEW f \in Files
    PROVE  /\ Resume(f) \in Cursors /\ CursorOK(f, Resume(f))
           /\ Position(Resume(f)) <= Len(log[f])
<1>1. /\ cursor[f] \in Cursors /\ CursorOK(f, cursor[f])
      /\ gen[f] \in Nat /\ log[f] \in Seq(Units) /\ Len(log[f]) \in Nat
  BY DEF IInv, TypeOK
<1>2. Position(cursor[f]) \in Nat
  BY <1>1 DEF Position, Cursors
<1>3. CASE Len(log[f]) < Position(cursor[f])
  <2>1. Resume(f) = Cursor(0, <<>>, gen[f])
    BY <1>3 DEF Resume
  <2>2. /\ Cursor(0, <<>>, gen[f]) \in Cursors
        /\ Position(Cursor(0, <<>>, gen[f])) = 0
    BY <1>1 DEF Cursor, Cursors, Position
  <2>3. CountedUpTo(f, 0)
    BY <1>1 DEF CountedUpTo
  <2>4. CursorOK(f, Cursor(0, <<>>, gen[f]))
    BY <1>1, <2>2, <2>3 DEF CursorOK, Cursor, HalfLine, Boundary
  <2> QED
    BY <1>1, <2>1, <2>2, <2>4
<1>4. CASE ~ (Len(log[f]) < Position(cursor[f]))
  BY <1>1, <1>2, <1>4 DEF Resume
<1> QED
  BY <1>3, <1>4

(* In a file that was not truncated, the first newline after the cursor    *)
(* ends the line that the cursor stands at.                                *)
LEMMA TakenIsLine ==
    ASSUME IInv, pc = "read", Newline(Unread) # {}, cur.gen = gen[at.file]
    PROVE  /\ Len(Taken) = 2 /\ TakenEnd = cur.offset + 2
           /\ Taken[1] = log[at.file][cur.offset + 1]
           /\ Taken[2] = log[at.file][cur.offset + 2]
           /\ Whole(Taken) /\ Taken[1].line = Taken[2].line
<1>1. TypeOK /\ at.file \in Files /\ LogOK(at.file) /\ CursorOK(at.file, cur)
  BY DEF IInv, ReaderOK, TypeOK
<1>2. PICK s \in Seq(Units), h \in Seq(Units), o \in Nat, n \in Nat \ {0} :
          s = log[at.file] /\ h = cur.partial /\ o = cur.offset /\ n = Newest
  BY <1>1, TakenIs DEF TypeOK, Cursors
<1>3. PICK l \in Nat, z \in Nat : l = Len(h) /\ z = Len(s)
  BY <1>2
<1>4. PICK e \in Nat : e = o + l + n
  BY <1>2, <1>3
<1>n. l \in Nat /\ n \in Nat /\ n >= 1 /\ o \in Nat /\ z \in Nat /\ e = o + l + n
  BY <1>2, <1>3, <1>4
<1>5. Position(cur) = o + l /\ TakenEnd = e
  BY <1>2, <1>3, <1>4 DEF Position, TakenEnd
<1>6. /\ e <= z /\ s[e].half = 2 /\ Len(Taken) = l + n
      /\ \A i \in 1 .. l : Taken[i] = h[i]
      /\ \A i \in 1 .. n : Taken[l + i] = s[o + l + i]
      /\ \A i \in 1 .. n - 1 : s[o + l + i].half # 2
  BY <1>1, <1>2, <1>3, <1>5, TakenIs
<1>7. \A i \in 1 .. l : h[i] = s[o + i] /\ h[i].half = 1
  BY <1>1, <1>2, <1>3 DEF CursorOK, HalfLine
<1>8. \A i \in 1 .. z :
          /\ s[i] \in Units
          /\ s[i].half = 2 => i # 1 /\ s[i - 1] = Unit(s[i].line, 1)
          /\ s[i].half = 1 => i = 1 \/ s[i - 1].half = 2
  BY <1>1, <1>2, <1>3 DEF LogOK
<1>9. ASSUME NEW i \in 1 .. l + n
      PROVE  Taken[i] = s[o + i] /\ (i # l + n => s[o + i].half # 2)
  <2>1. CASE i <= l
    <3>1. i \in 1 .. l /\ i # l + n
      BY <1>n, <2>1
    <3>2. Taken[i] = h[i]
      BY <1>6, <3>1
    <3>3. h[i] = s[o + i] /\ h[i].half = 1
      BY <1>7, <3>1
    <3> QED
      BY <3>2, <3>3
  <2>2. CASE i > l
    <3>1. /\ i - l \in 1 .. n /\ l + (i - l) = i /\ o + l + (i - l) = o + i
          /\ i # l + n => i - l \in 1 .. n - 1
      BY <1>n, <2>2
    <3>2. Taken[l + (i - l)] = s[o + l + (i - l)] /\ (i # l + n => s[o + l + (i - l)].half # 2)
      BY <1>6, <3>1
    <3> QED
      BY <3>1, <3>2
  <2> QED
    BY <1>n, <2>1, <2>2
<1>10. e \in 1 .. z /\ e - 1 \in Nat /\ e # 1 /\ s[e - 1] = Unit(s[e].line, 1) /\ s[e - 1].half = 1
  <2>1. e \in 1 .. z
    BY <1>2, <1>3, <1>4, <1>6
  <2>2. e # 1 /\ s[e - 1] = Unit(s[e].line, 1)
    BY <1>6, <1>8, <2>1
  <2> QED
    BY <2>1, <2>2 DEF Unit
<1>11. e - 1 # o
  BY <1>1, <1>2, <1>10 DEF CursorOK, Boundary
<1>12. l + n = 2
  <2>1. CASE l + n > 2
    <3>1. /\ l + n - 2 \in 1 .. l + n /\ l + n - 2 # l + n /\ o + (l + n - 2) = e - 2
          /\ e - 1 \in 1 .. z /\ e - 1 # 1 /\ (e - 1) - 1 = e - 2
      BY <1>n, <1>10, <2>1
    <3>2. s[e - 2].half = 2
      BY <1>8, <1>10, <3>1
    <3> QED
      BY <1>9, <3>1, <3>2
  <2>2. l + n # 1
    BY <1>n, <1>11
  <2> QED
    BY <1>n, <2>1, <2>2
<1>13. Taken[1] = s[o + 1] /\ Taken[2] = s[o + 2] /\ e = o + 2 /\ e - 1 = o + 1
  <2>1. 1 \in 1 .. l + n /\ 2 \in 1 .. l + n
    BY <1>12
  <2> QED
    BY <1>n, <1>9, <1>12, <2>1
<1>14. Whole(Taken) /\ Taken[1].line = Taken[2].line
  <2>1. Taken[2] \in Units /\ Taken[2].half = 2 /\ Taken[1] = Unit(Taken[2].line, 1)
    BY <1>6, <1>8, <1>10, <1>13
  <2>2. Len(Taken) = 2
    BY <1>6, <1>12
  <2> QED
    BY <2>1, <2>2 DEF Whole, Unit
<1> QED
  BY <1>2, <1>5, <1>6, <1>12, <1>13, <1>14

LEMMA TakenOK ==
    ASSUME IInv, LogsGrown, CountsGrown, UNCHANGED logs, pc = "read", Newline(Unread) # {},
           IsEvent(Taken) => counted'[Parsed(Taken).id] >= Parsed(Taken).units,
           NEW f, f = at.file, NEW c, c = Cursor(cur.offset + Len(Taken), <<>>, cur.gen)
    PROVE  c \in Cursors /\ CursorOK(f, c)' /\ Position(c) <= Len(log[f])
<1>1. /\ TypeOK /\ f \in Files /\ CursorOK(f, cur) /\ cur \in Cursors
      /\ log[f] \in Seq(Units) /\ Len(log[f]) \in Nat /\ gen[f] \in Nat
      /\ cur.offset \in Nat /\ cur.gen \in Nat /\ log' = log /\ gen' = gen
  <2>1. TypeOK /\ f \in Files /\ CursorOK(f, cur)
    BY DEF IInv, ReaderOK, TypeOK
  <2>2. log[f] \in Seq(Units) /\ gen[f] \in Nat /\ cur \in Cursors
    BY <2>1 DEF TypeOK
  <2>3. cur.offset \in Nat /\ cur.gen \in Nat
    BY <2>2 DEF Cursors
  <2> QED
    BY <2>1, <2>2, <2>3 DEF logs
<1>2. /\ Len(Taken) \in Nat /\ cur.offset + Len(Taken) = TakenEnd
      /\ TakenEnd \in Nat /\ TakenEnd <= Len(log[f]) /\ log[f][TakenEnd].half = 2
  <2>1. /\ Taken \in Seq(Units) /\ cur.offset + Len(Taken) = TakenEnd
        /\ TakenEnd <= Len(log[f]) /\ log[f][TakenEnd].half = 2
    BY <1>1, TakenIs
  <2>2. Len(Taken) \in Nat
    BY <2>1
  <2> QED
    BY <1>1, <2>1, <2>2
<1>3. PICK b \in Cursors, n \in Nat, o \in Nat : b = cur /\ n = TakenEnd /\ o = b.offset
  BY <1>1, <1>2
<1>4. /\ c = [offset |-> n, partial |-> <<>>, gen |-> b.gen]
      /\ c \in Cursors /\ Position(c) = n /\ HalfLine(c.partial)
  BY <1>1, <1>2, <1>3 DEF Cursor, Cursors, Position, HalfLine
<1>5. CursorOK(f, b) /\ CursorOK(f, b)'
  <2>1. CursorOK(f, b)
    BY <1>1, <1>3
  <2> QED
    BY <1>1, <2>1, CursorKept
<1>6. ASSUME b.gen = gen[f]
      PROVE  CountedUpTo(f, n)'
  <2>1. /\ n = o + 2 /\ Whole(Taken) /\ Taken[1].line = Taken[2].line
        /\ Taken[1] = log[f][o + 1] /\ Taken[2] = log[f][o + 2]
    BY <1>3, <1>6, TakenIsLine
  <2>2. PICK t : t = Taken[1]
    OBVIOUS
  <2>3. /\ t.half = 1 /\ log'[f][o + 1] = t
        /\ log'[f][o + 2].line = t.line /\ Parsed(Taken) = t.line
    BY <1>1, <2>1, <2>2, ParsedTyped, ParseAssumption DEF Whole, Parsed
  <2>4. CountedUpTo(f, o)'
    BY <1>1, <1>3, <1>5, <1>6 DEF CursorOK
  <2>5. t.line.kind = "usage" => counted'[t.line.id] >= t.line.units
    BY <2>1, <2>3 DEF IsEvent
  <2>6. ASSUME NEW i \in 1 .. Len(log'[f]), i <= n,
               log'[f][i].half = 2, log'[f][i].line.kind = "usage"
        PROVE  counted'[log'[f][i].line.id] >= log'[f][i].line.units
    <3>1. i \in Nat
      BY <1>1
    <3>2. i <= o \/ i = o + 1 \/ i = o + 2
      BY <2>1, <2>6, <3>1
    <3>3. CASE i <= o
      BY <2>4, <2>6, <3>3 DEF CountedUpTo
    <3>4. CASE i = o + 2
      BY <2>3, <2>5, <2>6, <3>4
    <3>5. CASE i = o + 1
      BY <2>3, <2>6, <3>5
    <3> QED
      BY <3>2, <3>3, <3>4, <3>5
  <2> QED
    BY <2>6 DEF CountedUpTo
<1>7. c.gen = gen'[f] => CountedUpTo(f, c.offset)'
  BY <1>1, <1>4, <1>6
<1>8. CursorOK(f, c)'
  <2>1. c.gen <= gen'[f]
    BY <1>1, <1>4, <1>5 DEF CursorOK
  <2>2. Position(c) <= Len(log'[f]) /\ Boundary(f, c.offset)' /\ Len(c.partial) = 0
    BY <1>1, <1>2, <1>3, <1>4 DEF Boundary
  <2> QED
    BY <1>4, <1>7, <2>1, <2>2 DEF CursorOK, HalfLine, Position
<1> QED
  BY <1>2, <1>3, <1>4, <1>8

(* At the end of the file the cursor keeps what follows the last newline.  *)
LEMMA EndOK ==
    ASSUME IInv, pc = "read", Newline(Unread) = {},
           NEW f, f = at.file, NEW c, c = [cur EXCEPT !.partial = @ \o Unread]
    PROVE  /\ c \in Cursors /\ CursorOK(f, c)
           /\ at.gen = gen[f] => Position(c) <= Len(log[f])
<1>1. TypeOK /\ f \in Files /\ CursorOK(f, cur)
  BY DEF IInv, ReaderOK, TypeOK
<1>2. PICK o \in Nat, h \in Seq(Units), g \in Nat :
          cur = [offset |-> o, partial |-> h, gen |-> g]
  BY <1>1 DEF TypeOK, Cursors
<1>3. PICK s \in Seq(Units) : s = log[f]
  BY <1>1 DEF TypeOK
<1>4. PICK u \in Seq(Units) : u = Unread
  BY <1>1, UnreadIs
<1>5. Len(h) \in Nat /\ Len(s) \in Nat /\ Len(u) \in Nat /\ Position(cur) = o + Len(h)
  BY <1>2 DEF Position
<1>6. /\ Len(u) = IF o + Len(h) <= Len(s) THEN Len(s) - (o + Len(h)) ELSE 0
      /\ \A i \in 1 .. Len(u) : u[i] = s[o + Len(h) + i]
  BY <1>1, <1>3, <1>4, <1>5, UnreadIs
<1>7. HalfLine(u)
  <2>1. \A i \in 1 .. Len(u) : u[i] \in Units /\ u[i].half # 2
    BY <1>4 DEF Newline
  <2> QED
    BY <2>1 DEF HalfLine, Units
<1>8. PICK w \in Seq(Units) : w = h \o u
  <2>1. h \o u \in Seq(Units)
    BY <1>2, <1>4, ConcatProperties
  <2> QED
    BY <2>1
<1>9. /\ Len(w) = Len(h) + Len(u)
      /\ \A i \in 1 .. Len(w) : w[i] = IF i <= Len(h) THEN h[i] ELSE u[i - Len(h)]
  <2>1. /\ Len(h \o u) = Len(h) + Len(u)
        /\ \A i \in 1 .. Len(h) + Len(u) : (h \o u)[i] = IF i <= Len(h) THEN h[i] ELSE u[i - Len(h)]
    BY <1>2, <1>4, ConcatProperties
  <2> QED
    BY <1>8, <2>1
<1>10. c = [offset |-> o, partial |-> w, gen |-> g] /\ c \in Cursors
  BY <1>2, <1>4, <1>8 DEF Cursors
<1>11. Position(c) = o + Len(h) + Len(u)
  <2>1. Position(c) = o + Len(w)
    <3>1. c.offset = o /\ c.partial = w
      BY <1>10
    <3> QED
      BY <3>1, Zenon DEF Position
  <2>2. \A i, j, k \in Nat : i + (j + k) = i + j + k
    OBVIOUS
  <2> QED
    BY <1>2, <1>5, <1>9, <2>1, <2>2
<1>12. o + Len(h) <= Len(s) => Position(c) <= Len(s)
  BY <1>5, <1>6, <1>11
<1>13. \A i \in 1 .. Len(w) : i > Len(h) => i - Len(h) \in 1 .. Len(u)
  BY <1>5, <1>9
<1>14. HalfLine(w)
  <2>1. HalfLine(h)
    BY <1>1, <1>2 DEF CursorOK
  <2>2. ASSUME NEW i \in 1 .. Len(w)
        PROVE  w[i].half = 1
    <3>0. i \in Nat /\ i >= 1
      BY <1>5, <1>9
    <3>1. CASE i <= Len(h)
      <4>1. i \in 1 .. Len(h) /\ w[i] = h[i]
        BY <1>5, <1>9, <3>0, <3>1
      <4> QED
        BY <2>1, <4>1 DEF HalfLine
    <3>2. CASE i > Len(h)
      <4>1. i - Len(h) \in 1 .. Len(u) /\ w[i] = u[i - Len(h)]
        BY <1>5, <1>9, <1>13, <3>0, <3>2
      <4> QED
        BY <1>7, <4>1 DEF HalfLine
    <3> QED
      BY <1>5, <3>0, <3>1, <3>2
  <2> QED
    BY <2>2 DEF HalfLine
<1>15. ASSUME g = gen[f], NEW i \in 1 .. Len(w)
       PROVE  w[i] = s[o + i]
  <2>1. \A j \in 1 .. Len(h) : h[j] = s[o + j]
    BY <1>1, <1>2, <1>3, <1>15 DEF CursorOK
  <2>2. CASE i <= Len(h)
    BY <1>5, <1>9, <2>1, <2>2
  <2>3. CASE i > Len(h)
    <3>1. o + Len(h) + (i - Len(h)) = o + i
      BY <1>2, <1>5
    <3>2. w[i] = u[i - Len(h)] /\ i - Len(h) \in 1 .. Len(u)
      BY <1>5, <1>9, <1>13, <2>3
    <3> QED
      BY <1>6, <3>1, <3>2
  <2> QED
    BY <1>5, <2>2, <2>3
<1>16. CursorOK(f, c)
  <2>1. g <= gen[f]
    BY <1>1, <1>2 DEF CursorOK
  <2>2. ASSUME g = gen[f]
        PROVE  o + Len(h) <= Len(s) /\ Boundary(f, o) /\ CountedUpTo(f, o)
    BY <1>1, <1>2, <1>3, <1>5, <2>2 DEF CursorOK
  <2>3. c.gen = g /\ c.offset = o /\ c.partial = w
    BY <1>10
  <2>4. g = gen[f] => \A i \in 1 .. Len(w) : w[i] = log[f][o + i]
    BY <1>3, <1>15
  <2>5. g = gen[f] => Position(c) <= Len(log[f])
    BY <1>3, <1>12, <2>2
  <2> QED
    BY <1>14, <2>1, <2>2, <2>3, <2>4, <2>5 DEF CursorOK
<1>17. at.gen = gen[f] => o + Len(h) <= Len(s)
  BY <1>3, <1>5 DEF IInv, ReaderOK
<1> QED
  BY <1>3, <1>10, <1>12, <1>16, <1>17

-----------------------------------------------------------------------------
(* The invariant. *)

ScannerTyped ==
    /\ bad \in Nat /\ faults \in Nat
    /\ pc \in {"idle", "walk", "read", "save"}
    /\ todo \subseteq Files
    /\ at \in [file : Files, gen : Nat]
    /\ cur \in Cursors

(* Between two files nothing is open. *)
LEMMA Closed ==
    ASSUME TypeOK, pc' \in {"idle", "walk"}, todo' \subseteq Files,
           at' = Nowhere, cur' = Cursor(0, <<>>, 0), bad' \in Nat, faults' \in Nat
    PROVE  ScannerTyped' /\ ReaderOK'
<1>1. Nowhere \in [file : Files, gen : Nat]
  BY FilesAssumption DEF Nowhere
<1>2. Cursor(0, <<>>, 0) \in Cursors
  BY DEF Cursor, Cursors
<1> QED
  BY <1>1, <1>2 DEF ScannerTyped, ReaderOK

LEMMA ScannerStep ==
    ASSUME IInv, LogsGrown, CountsGrown, [Next]_vars
    PROVE  ScannerTyped' /\ ReaderOK'
<1>0. /\ TypeOK /\ at.file \in Files /\ ReaderOK /\ bad \in Nat /\ faults \in Nat
      /\ Fault => faults' \in Nat
  BY DEF IInv, TypeOK, Fault
<1>k. \A f \in Files, c \in Cursors : CursorOK(f, c) => CursorOK(f, c)'
  BY <1>0, CursorKept
<1>1. CASE UNCHANGED <<scanner, bad, faults>>
  <2>1. UNCHANGED <<pc, todo, at, cur, bad, faults>>
    BY <1>1 DEF scanner
  <2>2. ASSUME pc \in {"read", "save"}
        PROVE  /\ CursorOK(at.file, cur)'
               /\ at.gen <= gen'[at.file]
               /\ at.gen = gen'[at.file] => Position(cur) <= Len(log'[at.file])
    <3>1. PICK f \in Files, c \in Cursors, g \in Nat : f = at.file /\ c = cur /\ g = at.gen
      BY <1>0 DEF TypeOK
    <3>2. CursorOK(f, c) /\ g <= gen[f] /\ (g = gen[f] => Position(c) <= Len(log[f]))
      BY <1>0, <2>2, <3>1 DEF ReaderOK
    <3>3. CursorOK(f, c)'
      BY <1>k, <3>2
    <3>4. gen[f] \in Nat /\ gen'[f] \in Nat /\ Len(log[f]) \in Nat /\ Len(log'[f]) \in Nat
      BY <1>0 DEF TypeOK, LogsGrown, LogsTyped
    <3>5. Position(c) \in Nat
      BY DEF Position, Cursors
    <3>6. g <= gen'[f] /\ (g = gen'[f] => Position(c) <= Len(log'[f]))
      BY <3>2, <3>4, <3>5 DEF LogsGrown, Grown
    <3> QED
      BY <2>1, <3>1, <3>3, <3>6
  <2> QED
    BY <1>0, <2>1, <2>2 DEF TypeOK, ScannerTyped, ReaderOK, Position
<1>2. CASE StartScan
  BY <1>0, <1>2 DEF StartScan, TypeOK, ScannerTyped, ReaderOK
<1>3. ASSUME NEW f \in Files, Open(f)
      PROVE  ScannerTyped' /\ ReaderOK'
  <2>1. CASE NextFile(f) /\ Fault
    BY <1>0, <1>3, <2>1, Closed DEF NextFile, Open, TypeOK
  <2>2. CASE /\ pc' = "read" /\ at' = [file |-> f, gen |-> gen[f]]
             /\ cur' = Resume(f) /\ UNCHANGED <<todo, faults>>
    <3>1. PICK c \in Cursors : c = Resume(f)
      BY OpenOK
    <3>2. CursorOK(f, c) /\ Position(c) <= Len(log[f])
      BY <3>1, OpenOK
    <3>3. CursorOK(f, c)'
      BY <1>k, <3>2
    <3>4. UNCHANGED <<log, gen, bad>> /\ gen[f] \in Nat
      BY <1>0, <1>3 DEF Open, logs, TypeOK
    <3>5. cur' = c /\ at'.file = f /\ at'.gen = gen'[f] /\ at' \in [file : Files, gen : Nat]
      BY <2>2, <3>1, <3>4
    <3>6. ReaderOK'
      BY <3>2, <3>3, <3>4, <3>5 DEF ReaderOK, Position
    <3> QED
      BY <1>0, <2>2, <3>4, <3>5, <3>6 DEF ScannerTyped, TypeOK
  <2> QED
    BY <1>3, <2>1, <2>2 DEF Open
<1>4. CASE ReadLine
  <2>1. CASE Leave /\ Fault /\ UNCHANGED bad
    BY <1>0, <2>1, Closed DEF Leave
  <2>2. CASE /\ IF IsEvent(Taken) THEN Insert(Parsed(Taken)) ELSE UNCHANGED counted
             /\ bad' = IF IsBad(Taken) THEN bad + 1 ELSE bad
             /\ cur' = Cursor(cur.offset + Len(Taken), <<>>, cur.gen)
             /\ UNCHANGED <<pc, todo, at, faults>>
    <3>1. pc = "read" /\ Newline(Unread) # {} /\ UNCHANGED <<log, gen, logs>>
      BY <1>4 DEF ReadLine, logs
    <3>2. IsEvent(Taken) => counted'[Parsed(Taken).id] >= Parsed(Taken).units
      <4>1. ASSUME IsEvent(Taken)
            PROVE  counted'[Parsed(Taken).id] >= Parsed(Taken).units
        <5>1. PICK l \in LineRecords : l = Parsed(Taken)
          BY <1>0, <3>1, <4>1, ParsedTyped DEF IsEvent
        <5>2. counted'[l.id] >= l.units
          BY <1>0, <2>2, <4>1, <5>1, InsertCounts
        <5> QED
          BY <5>1, <5>2
      <4> QED
        BY <4>1
    <3>3. PICK f, c : /\ f \in Files
                      /\ f = at.file
                      /\ c = Cursor(cur.offset + Len(Taken), <<>>, cur.gen)
      BY <1>0
    <3>4. c \in Cursors /\ CursorOK(f, c)' /\ Position(c) <= Len(log[f])
      BY <3>1, <3>2, <3>3, TakenOK
    <3>5. at.gen <= gen[f]
      BY <1>0, <3>1, <3>3 DEF ReaderOK
    <3>6. ReaderOK'
      BY <2>2, <3>1, <3>3, <3>4, <3>5 DEF ReaderOK, Position
    <3> QED
      BY <1>0, <2>2, <3>3, <3>4, <3>6 DEF ScannerTyped, TypeOK
  <2> QED
    BY <1>4, <2>1, <2>2, ReadLineForm
<1>5. CASE ReadEnd
  <2>1. pc = "read" /\ pc' = "save" /\ UNCHANGED <<log, gen, todo, at>>
    BY <1>5 DEF ReadEnd, logs
  <2>2. PICK f \in Files, c \in Cursors :
            /\ f = at.file /\ c = cur'
            /\ CursorOK(f, c) /\ (at.gen = gen[f] => Position(c) <= Len(log[f]))
    <3>1. CASE Newline(Unread) = {} /\ cur' = [cur EXCEPT !.partial = @ \o Unread]
      BY <1>0, <2>1, <3>1, EndOK
    <3>2. CASE UNCHANGED cur
      BY <1>0, <2>1, <3>2 DEF ReaderOK, TypeOK
    <3> QED
      BY <1>5, <3>1, <3>2 DEF ReadEnd
  <2>3. CursorOK(f, c)'
    BY <1>k, <2>2
  <2>4. at.gen <= gen[f]
    BY <1>0, <2>1, <2>2 DEF ReaderOK
  <2>5. ReaderOK'
    BY <2>1, <2>2, <2>3, <2>4 DEF ReaderOK, Position
  <2>6. bad' \in Nat /\ faults' \in Nat
    BY <1>0, <1>5 DEF ReadEnd
  <2> QED
    BY <1>0, <2>1, <2>2, <2>5, <2>6 DEF ScannerTyped, TypeOK
<1>6. CASE SaveCursor
  BY <1>0, <1>6, Closed DEF SaveCursor, NextFile, Leave, TypeOK
<1>7. CASE EndScan
  BY <1>0, <1>7, Closed DEF EndScan, Leave
<1>8. CASE Crash
  BY <1>0, <1>8, Closed DEF Crash, Leave
<1>9. (\E f \in Files : Write(f) \/ Rotate(f)) \/ UNCHANGED vars => UNCHANGED <<scanner, bad, faults>>
  BY DEF Write, Rotate, vars
<1> QED
  BY <1>1, <1>2, <1>3, <1>4, <1>5, <1>6, <1>7, <1>8, <1>9 DEF Next

LEMMA CursorStep ==
    ASSUME IInv, LogsGrown, CountsGrown, [Next]_vars
    PROVE  cursor' \in [Files -> Cursors] /\ \A f \in Files : CursorOK(f, cursor[f])'
<1>0. /\ TypeOK /\ cursor \in [Files -> Cursors] /\ cur \in Cursors /\ at.file \in Files
      /\ \A f \in Files : CursorOK(f, cursor[f])
  BY DEF IInv, TypeOK
<1>1. /\ cursor' \in [Files -> Cursors]
      /\ \A f \in Files : cursor'[f] = cursor[f] \/ (f = at.file /\ cursor'[f] = cur /\ pc = "save")
  <2>1. CASE SaveCursor
    <3>1. cursor' = cursor \/ cursor' = [cursor EXCEPT ![at.file] = cur]
      BY <2>1 DEF SaveCursor
    <3>2. pc = "save"
      BY <2>1 DEF SaveCursor
    <3> QED
      BY <1>0, <3>1, <3>2
  <2>2. CASE UNCHANGED cursor
    BY <1>0, <2>2
  <2>3. SaveCursor \/ UNCHANGED cursor
    BY DEF Next, vars, Write, Rotate, Open, StartScan, ReadLine, ReadEnd, EndScan, Crash
  <2> QED
    BY <2>1, <2>2, <2>3
<1>2. ASSUME NEW f \in Files
      PROVE  CursorOK(f, cursor[f])'
  <2>1. PICK c \in Cursors : c = cursor'[f]
    BY <1>1
  <2>2. CursorOK(f, c)
    BY <1>0, <1>1, <2>1 DEF IInv, ReaderOK
  <2>3. CursorOK(f, c)'
    BY <1>0, <2>2, CursorKept
  <2> QED
    BY <2>1, <2>3 DEF CursorOK, Position, Boundary
<1> QED
  BY <1>1, <1>2

LEMMA Initial == Init => IInv
<1> SUFFICES ASSUME Init PROVE IInv
  OBVIOUS
<1> USE DEF Init
<1>1. Nowhere \in [file : Files, gen : Nat] /\ Cursor(0, <<>>, 0) \in Cursors
  BY FilesAssumption DEF Nowhere, Cursor, Cursors
<1>2. TypeOK
  BY <1>1 DEF TypeOK
<1>3. ASSUME NEW f \in Files
      PROVE  LogOK(f) /\ CursorOK(f, cursor[f])
  <2>1. log[f] = <<>> /\ gen[f] = 0 /\ cursor[f] = Cursor(0, <<>>, 0)
    OBVIOUS
  <2>2. Position(Cursor(0, <<>>, 0)) = 0
    BY DEF Position, Cursor
  <2> QED
    BY <2>1, <2>2 DEF LogOK, CursorOK, HalfLine, Boundary, CountedUpTo, Cursor
<1>4. ReaderOK
  BY DEF ReaderOK
<1> QED
  BY <1>2, <1>3, <1>4 DEF IInv

LEMMA Inductive == IInv /\ [Next]_vars => IInv'
<1> SUFFICES ASSUME IInv, [Next]_vars PROVE IInv'
  OBVIOUS
<1>1. LogsGrown
  BY LogsStep DEF IInv
<1>2. CountsGrown
  BY CountsStep DEF IInv
<1>3. ScannerTyped' /\ ReaderOK'
  BY <1>1, <1>2, ScannerStep
<1>4. cursor' \in [Files -> Cursors] /\ \A f \in Files : CursorOK(f, cursor[f])'
  BY <1>1, <1>2, CursorStep
<1>5. TypeOK'
  BY <1>1, <1>2, <1>3, <1>4 DEF TypeOK, LogsGrown, LogsTyped, CountsGrown, ScannerTyped
<1> QED
  BY <1>1, <1>2, <1>3, <1>4, <1>5 DEF IInv, LogsGrown

LEMMA Invariance == Spec => []IInv
BY Initial, Inductive, PTL DEF Spec

-----------------------------------------------------------------------------
(* Types: every variable keeps its type, whatever is written, truncated,   *)
(* refused and crashes while collector.go scans.                           *)
THEOREM TypeCorrect == Spec => []TypeOK
<1>1. IInv => TypeOK
  BY DEF IInv
<1> QED
  BY <1>1, Invariance, PTL

(* A line that is read and parses is one line of the log, unless its first *)
(* half was kept from content that is gone.                                *)
LEMMA TakenIsWritten ==
    ASSUME IInv, pc = "read", Newline(Unread) # {}, Whole(Taken),
           ~ (cur.partial # <<>> /\ Regrown(at.file))
    PROVE  Parsed(Taken) \in written
<1>1. TypeOK /\ at.file \in Files /\ LogOK(at.file) /\ Len(Taken) = 2
  BY DEF IInv, TypeOK, Whole
<1>2. PICK s \in Seq(Units), o \in Nat, k \in Nat :
         s = log[at.file] /\ o = cur.offset /\ k = Len(s)
  BY <1>1 DEF TypeOK, Cursors
<1>3. /\ Position(cur) \in Nat /\ Position(cur) < k
      /\ cur.offset + Len(Taken) = TakenEnd /\ TakenEnd <= k
      /\ s[TakenEnd].half = 2
  <2>1. Newest \in Nat \ {0} /\ TakenEnd <= k /\ Position(cur) \in Nat
    BY <1>1, <1>2, TakenIs, UnreadIs
  <2>2. Position(cur) < k
    BY <1>2, <2>1 DEF TakenEnd
  <2> QED
    BY <1>1, <1>2, <2>1, <2>2, TakenIs
<1>4. TakenEnd = o + 2 /\ o + 2 \in 1 .. k /\ s[o + 2].half = 2 /\ (o + 2) - 1 = o + 1
  BY <1>1, <1>2, <1>3
<1>5. s[o + 1] = Unit(s[o + 2].line, 1) /\ s[o + 2].line \in written
  BY <1>1, <1>2, <1>4 DEF LogOK
<1>6. Taken[1] = s[o + 1] /\ Taken[2] = s[o + 2]
  <2>1. CASE cur.gen = gen[at.file]
    BY <1>2, <2>1, TakenIsLine
  <2>2. CASE cur.partial = <<>>
    <3>1. Len(cur.partial) = 0 /\ Position(cur) = o
      BY <1>2, <2>2 DEF Position
    <3>2. Newest = 2 /\ Taken[0 + 1] = s[o + 1] /\ Taken[0 + 2] = s[o + 2]
      <4>1. /\ Newest \in Nat /\ Len(Taken) = Len(cur.partial) + Newest
            /\ \A i \in 1 .. Newest :
                  Taken[Len(cur.partial) + i] = log[at.file][Position(cur) + i]
        BY <1>1, TakenIs
      <4>2. Newest = 2
        <5>1. 2 = 0 + Newest
          BY <1>1, <3>1, <4>1
        <5> QED
          BY <4>1, <5>1
      <4>3. 1 \in 1 .. Newest /\ 2 \in 1 .. Newest
        BY <4>2
      <4> QED
        BY <1>2, <3>1, <4>1, <4>2, <4>3
    <3> QED
      BY <3>2
  <2>3. cur.gen # gen[at.file] => cur.partial = <<>>
    BY <1>2, <1>3 DEF Regrown
  <2> QED
    BY <2>1, <2>2, <2>3
<1>7. Taken[1].line = Taken[2].line /\ Taken[2].line \in written
  BY <1>5, <1>6 DEF Unit
<1>8. Parsed(Taken) = Taken[1].line
  BY <1>1, <1>7, ParsedTyped, ParseAssumption DEF Parsed
<1> QED
  BY <1>7, <1>8

(* What Sink.Insert is given for a request is what one complete line says, *)
(* unless a half line was kept over a truncation that went unnoticed.      *)
THEOREM CountedLinesExist == Spec => CountedIsWritten
<1> DEFINE Told ==
      \A i \in Ids :
          counted'[i] # counted[i] =>
              \/ \E l \in written : l.kind = "usage" /\ l.id = i /\ l.units = counted'[i]
              \/ cur.partial # <<>> /\ Regrown(at.file)
<1>1. ASSUME IInv, [Next]_vars, NEW i \in Ids, counted'[i] # counted[i],
             ~ (cur.partial # <<>> /\ Regrown(at.file))
      PROVE  \E l \in written : l.kind = "usage" /\ l.id = i /\ l.units = counted'[i]
  <2>1. TypeOK
    BY <1>1 DEF IInv
  <2>2. /\ pc = "read" /\ Newline(Unread) # {} /\ IsEvent(Taken)
        /\ Insert(Parsed(Taken))
    BY <1>1, <2>1, CountsStep
  <2>3. PICK l \in LineRecords : l = Parsed(Taken)
    BY <2>1, <2>2, ParsedTyped DEF IsEvent
  <2>4. l \in written /\ l.kind = "usage"
    BY <1>1, <2>2, <2>3, TakenIsWritten DEF IsEvent
  <2>5. i = l.id /\ counted'[i] = l.units
    BY <1>1, <2>1, <2>2, <2>3, InsertCounts
  <2> QED
    BY <2>4, <2>5
<1>2. IInv /\ [Next]_vars => [Told]_vars
  BY <1>1
<1> QED
  BY <1>2, Invariance, PTL DEF Spec, CountedIsWritten

(* The persisted offset never stands behind a usage line that the sink     *)
(* does not hold.                                                          *)
THEOREM NothingIsSkipped == Spec => []NothingSkipped
<1>1. IInv => NothingSkipped
  BY DEF IInv, CursorOK, NothingSkipped
<1> QED
  BY <1>1, Invariance, PTL

(* A scan that meets io.EOF has counted every usage line of the file. *)
THEOREM ScanCatchesUpHolds == Spec => ScanCatchesUp
<1> DEFINE Ends == pc = "read" /\ pc' = "save" /\ faults' = faults /\ at.gen = gen[at.file]
           Caught == Regrown(at.file) \/ CountedUpTo(at.file, Len(log[at.file]))
<1>1. ASSUME IInv, [Next]_vars, Ends
      PROVE  Caught
  <2>1. /\ TypeOK /\ at.file \in Files /\ CursorOK(at.file, cur)
        /\ Position(cur) <= Len(log[at.file])
    BY <1>1 DEF IInv, ReaderOK, TypeOK
  <2>2. Newline(Unread) = {}
    <3>1. ReadEnd
      BY <1>1 DEF Next, vars, scanner, Write, Rotate, Open, NextFile, StartScan, ReadLine,
                  SaveCursor, EndScan, Crash, Leave
    <3>2. ~ Fault
      BY <1>1, <2>1 DEF Fault, TypeOK
    <3> QED
      BY <3>1, <3>2 DEF ReadEnd
  <2>3. CASE cur.gen # gen[at.file]
    BY <2>1, <2>3 DEF Regrown
  <2>4. CASE cur.gen = gen[at.file]
    <3>1. PICK f \in Files, s \in Seq(Units), h \in Seq(Units), o \in Nat :
              f = at.file /\ s = log[f] /\ h = cur.partial /\ o = cur.offset
      BY <2>1 DEF TypeOK, Cursors
    <3>2. /\ Len(h) \in Nat /\ Len(s) \in Nat /\ o + Len(h) <= Len(s)
          /\ \A i \in 1 .. Len(h) : h[i] = s[o + i] /\ h[i].half = 1
          /\ CountedUpTo(f, o)
      BY <2>1, <2>4, <3>1 DEF CursorOK, HalfLine, Position
    <3>3. \A j \in 1 .. Len(s) - (o + Len(h)) : s[o + Len(h) + j].half # 2
      <4>1. /\ Position(cur) = o + Len(h)
            /\ Len(Unread) = Len(s) - (o + Len(h))
            /\ \A j \in 1 .. Len(Unread) : Unread[j] = s[o + Len(h) + j]
        BY <2>1, <3>1, <3>2, UnreadIs DEF Position
      <4> QED
        BY <2>2, <4>1 DEF Newline
    <3>4. ASSUME NEW i \in 1 .. Len(s), s[i].half = 2
          PROVE  i <= o
      <4>1. \A a, b, j \in Nat : j > a /\ j <= a + b => j - a \in 1 .. b /\ a + (j - a) = j
        OBVIOUS
      <4>2. ASSUME i > o, i <= o + Len(h)
            PROVE  FALSE
        <5>1. i - o \in 1 .. Len(h) /\ o + (i - o) = i
          BY <3>1, <3>2, <4>1, <4>2
        <5>2. h[i - o] = s[i] /\ h[i - o].half = 1
          BY <3>2, <5>1
        <5> QED
          BY <3>4, <5>2
      <4>3. ASSUME i > o + Len(h)
            PROVE  FALSE
        <5>1. o + Len(h) \in Nat /\ Len(s) - (o + Len(h)) \in Nat
          <6>1. \A a, b \in Nat : a <= b => b - a \in Nat
            OBVIOUS
          <6>2. o + Len(h) \in Nat
            BY <3>1, <3>2
          <6> QED
            BY <3>2, <6>1, <6>2
        <5>2. i <= (o + Len(h)) + (Len(s) - (o + Len(h)))
          BY <3>1, <3>2
        <5>3. /\ i - (o + Len(h)) \in 1 .. Len(s) - (o + Len(h))
              /\ (o + Len(h)) + (i - (o + Len(h))) = i
          BY <3>2, <4>1, <4>3, <5>1, <5>2
        <5> QED
          BY <3>3, <3>4, <5>3
      <4> QED
        BY <3>1, <3>2, <4>2, <4>3
    <3>5. CountedUpTo(f, Len(s))
      BY <3>1, <3>2, <3>4 DEF CountedUpTo
    <3> QED
      BY <3>1, <3>5
  <2> QED
    BY <2>3, <2>4
<1>2. IInv /\ [Next]_vars => [Ends => Caught]_vars
  BY <1>1
<1> QED
  BY <1>2, Invariance, PTL DEF Spec, ScanCatchesUp
=============================================================================
