-------------------------- MODULE SyncClientProofs --------------------------
(***************************************************************************)
(* Proofs about SyncClient, for any number of devices, paths and contents, *)
(* with users, Claude, broken connections, failed calls, restarts and      *)
(* kills.                                                                  *)
(***************************************************************************)
EXTENDS SyncClient, SequenceTheorems, TLAPS

USE ShaAssumption, ContentAssumption, ClientAssumption

(* The row is the newest version, no two versions of a path have one       *)
(* revision, and what the workspace holds is on record under the row.      *)
StoreOK ==
    \A p \in Paths :
        /\ head[p] \in versions[p]
        /\ \A ver \in versions[p] : ver.rev <= head[p].rev
        /\ \A ver, other \in versions[p] : ver.rev = other.rev => ver = other
        /\ Row(head[p].rev, work[p]) \in Served(p)

(* What a user was given under the number the row has now is on record.    *)
ViewOK(s) ==
    /\ s.rev <= head[s.path].rev
    /\ s.rev = head[s.path].rev => Row(s.rev, s.val) \in Served(s.path)
SeenOK == \A d \in Devices \ misled : \A s \in seen[d] : ViewOK(s)

Had(d, p, n) == \E s \in seen[d] : s.path = p /\ s.rev = n

(* An entry of a baseline, saved or being built: the user was given what   *)
(* it stands for, and its digest, if it has one, is the version's.         *)
EntryOK(d, p, b) ==
    /\ b \in Entries
    /\ b.rev = 0 => b = NoEntry
    /\ b.rev <= head[p].rev
    /\ b.rev # 0 => Had(d, p, b.rev)
    /\ b.rev # 0 /\ b.val # NoSha => Row(b.rev, b.val) \in versions[p]

(* The manifest is empty, or was the server's after the baseline; what the *)
(* round is going to write is newer than the baseline, and replaces a file *)
(* only if the scan found it as the baseline says.                         *)
RoundOK(d, p) ==
    /\ remote[d][p].rev # 0 =>
          remote[d][p] \in versions[p] /\ base[d][p].rev <= remote[d][p].rev
    /\ \A n \in got[d][p] : n <= head[p].rev
    /\ plan[d][p] = "download" =>
          /\ base[d][p].rev < head[p].rev
          /\ scan[d][p] \in {Gone, base[d][p].val}
    /\ plan[d][p] = "delete_local" =>
          /\ scan[d][p] = base[d][p].val
          /\ \E ver \in versions[p] : ver.val = Gone /\ ver.rev > base[d][p].rev

DeviceOK(d, p) == EntryOK(d, p, base[d][p]) /\ EntryOK(d, p, next[d][p]) /\ RoundOK(d, p)

(* The change whose row is still to come replaces what its user was given, *)
(* and holds what the scan of its round found, while that round waits.     *)
PutOK ==
    \A r \in putting :
        /\ r.to \notin misled => head[r.path].rev = 0 \/ Given(r.to, r.path)
        /\ plan[r.to][r.path] = "sent" /\ r.val # Gone => scan[r.to][r.path] = r.val

IInv == /\ TypeOK /\ StoreOK /\ SeenOK /\ PutOK
        /\ \A d \in Devices \ misled, p \in Paths : DeviceOK(d, p)

-----------------------------------------------------------------------------
(* What a step does to the server: nothing, or it changes the workspace,   *)
(* or it publishes a next version of some paths.                           *)

Request(d, p) ==
    \/ Upload(d, p) \/ Download(d, p) \/ Conflict(d, p)
    \/ DeleteRemote(d, p) \/ DeleteLocal(d, p) \/ NoConnection(d, p)

(* A round of device d apart from its requests. *)
Turn(d) ==
    \/ Begin(d) \/ List(d) \/ ScanAndDiff(d) \/ Truncate(d) \/ Save(d)
    \/ Disconnect(d) \/ Kill(d)

LEMMA Steps ==
    ASSUME [Next]_vars
    PROVE  \/ \E d \in Devices : Turn(d)
           \/ \E d \in Devices, p \in Paths : Request(d, p)
           \/ Commit
           \/ Restart
           \/ \E d \in Devices, p \in Paths : UserEdit(d, p)
           \/ \E p \in Paths : CloudEdit(p)
           \/ UNCHANGED vars
BY DEF Next, Step, Execute, Turn, Request

Rest == UNCHANGED <<head, versions, work, stood>>
Moves ==
    /\ \/ UNCHANGED <<head, versions>>
       \/ \E S \in SUBSET Paths, v \in [Paths -> Values] : Publish(S, v)
    /\ work' \in [Paths -> Values]
    /\ Stand

LEMMA ServerStep ==
    ASSUME TypeOK, [Next]_vars
    PROVE  Rest \/ Moves
<1> USE DEF TypeOK
<1>0. UNCHANGED server => Rest
  BY DEF server, Rest
<1>1. ASSUME NEW d \in Devices, NEW p \in Paths, NEW v \in Values, Change(d, p, v)
      PROVE  Moves
  BY <1>1 DEF Change, Moves
<1>2. ASSUME NEW d \in Devices, NEW p \in Paths, Request(d, p)
      PROVE  Rest \/ Moves
  <2>1. file[d][p] \in Values /\ Gone \in Values
    BY DEF Values
  <2>2. CASE Upload(d, p)
    BY <1>0, <1>1, <2>1, <2>2 DEF Upload
  <2>3. CASE DeleteRemote(d, p)
    BY <1>0, <1>1, <2>1, <2>3 DEF DeleteRemote
  <2>4. CASE Download(d, p) \/ Conflict(d, p) \/ DeleteLocal(d, p) \/ NoConnection(d, p)
    BY <1>0, <2>4 DEF Download, Conflict, DeleteLocal, NoConnection, Get, Fetch
  <2> QED
    BY <1>2, <2>2, <2>3, <2>4 DEF Request
<1>3. ASSUME NEW d \in Devices, Begin(d)
      PROVE  Moves
  <2> DEFINE differ == {p \in Paths : work[p] # head[p].val}
  <2>1. PICK skipped \in SUBSET differ : Publish(differ \ skipped, work)
    BY <1>3 DEF Begin
  <2>2. differ \ skipped \in SUBSET Paths
    OBVIOUS
  <2> HIDE DEF differ
  <2> QED
    BY <1>3, <2>1, <2>2 DEF Begin, Moves
<1>4. ASSUME NEW d \in Devices, Turn(d), ~ Begin(d)
      PROVE  Rest
  BY <1>0, <1>4 DEF Turn, List, ScanAndDiff, Truncate, Save, Disconnect, Kill
<1>5. ASSUME Commit
      PROVE  Moves
  <2>1. PICK r \in putting :
           /\ UNCHANGED work
           /\ Stand
           /\ \/ UNCHANGED <<head, versions>>
              \/ Publish({r.path}, [p \in Paths |-> r.val])
    BY <1>5 DEF Commit
  <2>2. {r.path} \in SUBSET Paths /\ [p \in Paths |-> r.val] \in [Paths -> Values]
    OBVIOUS
  <2> QED
    BY <2>1, <2>2 DEF Moves
<1>6. ASSUME NEW p \in Paths, CloudEdit(p)
      PROVE  Moves
  <2>1. PICK v \in CloudEdits : work' = [work EXCEPT ![p] = v]
    BY <1>6 DEF CloudEdit
  <2> QED
    BY <1>6, <2>1 DEF CloudEdit, Moves
<1>7. CASE Restart \/ (\E d \in Devices, p \in Paths : UserEdit(d, p)) \/ UNCHANGED vars
  BY <1>0, <1>7 DEF Restart, UserEdit, vars, Rest
<1> QED
  BY <1>2, <1>3, <1>4, <1>5, <1>6, <1>7, Steps

(* The record of the server only grows, and stays in order. *)
Grown ==
    /\ head' \in [Paths -> Rows] /\ versions' \in [Paths -> SUBSET Rows]
    /\ work' \in [Paths -> Values] /\ stood' \in [Paths -> SUBSET Rows]
    /\ StoreOK'
    /\ \A p \in Paths : /\ head[p].rev <= head'[p].rev
                        /\ versions[p] \subseteq versions'[p]
                        /\ stood[p] \subseteq stood'[p]

LEMMA ServerGrows ==
    ASSUME TypeOK, StoreOK, [Next]_vars
    PROVE  Grown
<1> USE DEF TypeOK
<1>1. CASE Rest
  BY <1>1 DEF Rest, StoreOK, Served, Grown
<1>2. CASE Moves
  <2>1. /\ work' \in [Paths -> Values]
        /\ stood' = [p \in Paths |->
              stood[p] \cup ({Row(head'[p].rev, work'[p])} \ versions'[p])]
    BY <1>2 DEF Moves, Stand
  <2>2. /\ head' \in [Paths -> Rows] /\ versions' \in [Paths -> SUBSET Rows]
        /\ \A p \in Paths :
              /\ \/ head'[p] = head[p]
                 \/ \E v \in Values : head'[p] = Row(head[p].rev + 1, v)
              /\ versions'[p] = versions[p] \cup {head'[p]}
    <3>1. CASE UNCHANGED <<head, versions>>
      BY <3>1 DEF StoreOK
    <3>2. ASSUME NEW S \in SUBSET Paths, NEW v \in [Paths -> Values], Publish(S, v)
          PROVE  <2>2
      <4>1. /\ head' = [p \in Paths |-> IF p \in S THEN Row(head[p].rev + 1, v[p]) ELSE head[p]]
            /\ versions' = [p \in Paths |-> versions[p] \cup {head'[p]}]
        BY <3>2 DEF Publish
      <4>2. \A p \in Paths : Row(head[p].rev + 1, v[p]) \in Rows
        BY DEF Row, Rows
      <4>3. \A p \in Paths : head'[p] \in Rows
        BY <4>1, <4>2
      <4>4. head' \in [Paths -> Rows]
        BY <4>1, <4>2
      <4>5. versions' \in [Paths -> SUBSET Rows]
        BY <4>1, <4>3
      <4> QED
        BY <4>1, <4>4, <4>5
    <3> QED
      BY <1>2, <3>1, <3>2 DEF Moves
  <2>3. \A p \in Paths : Row(head'[p].rev, work'[p]) \in Rows
    BY <2>1, <2>2 DEF Row, Rows
  <2>4. stood' \in [Paths -> SUBSET Rows]
    BY <2>1, <2>3
  <2>5. ASSUME NEW p \in Paths
        PROVE  /\ head'[p] \in versions'[p]
               /\ \A ver \in versions'[p] : ver.rev <= head'[p].rev
               /\ \A ver, other \in versions'[p] : ver.rev = other.rev => ver = other
               /\ head[p].rev <= head'[p].rev
    <3>1. /\ head[p] \in Rows /\ head[p].rev \in Nat
          /\ \A ver \in versions[p] : ver.rev \in Nat /\ ver.rev <= head[p].rev
          /\ \A ver, other \in versions[p] : ver.rev = other.rev => ver = other
      BY DEF StoreOK, Rows
    <3>2. versions'[p] = versions[p] \cup {head'[p]}
      BY <2>2
    <3>3. CASE head'[p] = head[p]
      BY <3>1, <3>2, <3>3 DEF StoreOK
    <3>4. CASE \E v \in Values : head'[p] = Row(head[p].rev + 1, v)
      <4>1. head'[p].rev = head[p].rev + 1
        BY <3>4 DEF Row
      <4> QED
        BY <3>1, <3>2, <4>1
    <3> QED
      BY <2>2, <3>3, <3>4
  <2>6. \A p \in Paths : Row(head'[p].rev, work'[p]) \in versions'[p] \cup stood'[p]
    BY <2>1
  <2> QED
    BY <2>1, <2>2, <2>4, <2>5, <2>6 DEF Grown, StoreOK, Served
<1> QED
  BY <1>1, <1>2, ServerStep

LEMMA ServedGrows ==
    ASSUME Grown, NEW p \in Paths
    PROVE  Served(p) \subseteq Served(p)'
BY DEF Grown, Served

-----------------------------------------------------------------------------
(* Types. *)

LEMMA EntryTyped ==
    /\ NoEntry \in Entries /\ NoEntry \in Rows /\ NoEntry.rev = 0 /\ NoEntry.val = Gone
    /\ \A n \in Nat, v \in Values \cup {NoSha} :
          Entry(n, v) \in Entries /\ Entry(n, v).rev = n /\ Entry(n, v).val = v
BY DEF NoEntry, Entry, Entries, Rows, Values

LEMMA AnswerTyped ==
    /\ \A n \in Nat : Ack(n) \in Answers /\ File(n) \in Answers
    /\ \A n \in Nat : Ack(n).op = "ack" /\ Ack(n).rev = n
    /\ \A n \in Nat : File(n).op = "file" /\ File(n).rev = n
    /\ \A reason \in {"reject", "conflict"} :
          Refusal(reason) \in Answers /\ Refusal(reason).op = reason
    /\ \A v \in Values : Bytes(v) \in Answers /\ Bytes(v).val = v
BY DEF Ack, File, Refusal, Bytes, Answers, Values

LEMMA PlanNames ==
    Plans = {"none", "sent", "resolve", "upload", "download", "delete_remote", "delete_local",
             "conflict"}
BY DEF Plans, Order

Decisions == {"none", "upload", "download", "delete_remote", "delete_local", "conflict"}

LEMMA Decided == \A b, v, r : Decide(b, v, r) \in Decisions
BY DEF Decide, Decisions

RoundTyped ==
    /\ pc \in [Devices -> {"idle", "list", "scan", "run", "save"}]
    /\ link \in [Devices -> BOOLEAN]
    /\ wire \in [Devices -> Seq(Answers)]
    /\ remote \in [Devices -> [Paths -> Rows]]
    /\ scan \in [Devices -> [Paths -> Values]]
    /\ plan \in [Devices -> [Paths -> Plans]]
    /\ got \in [Devices -> [Paths -> SUBSET Nat]]
    /\ next \in [Devices -> [Paths -> Entries]]

LEMMA EndTyped ==
    ASSUME TypeOK, NEW d \in Devices, EndRound(d)
    PROVE  RoundTyped'
<1>1. /\ PerPath(NoEntry) \in [Paths -> Rows]
      /\ PerPath(NoEntry) \in [Paths -> Entries]
      /\ PerPath(Gone) \in [Paths -> Values]
      /\ PerPath({}) \in [Paths -> SUBSET Nat]
      /\ Idle \in [Paths -> Plans]
      /\ <<>> \in Seq(Answers)
  BY EntryTyped, PlanNames DEF PerPath, Values, Idle
<1> QED
  BY <1>1 DEF TypeOK, RoundTyped, EndRound

LEMMA FinishTyped ==
    ASSUME TypeOK, NEW d \in Devices, NEW p \in Paths, NEW b \in Entries, Finish(d, p, b)
    PROVE  /\ plan' \in [Devices -> [Paths -> Plans]]
           /\ got' \in [Devices -> [Paths -> SUBSET Nat]]
           /\ next' \in [Devices -> [Paths -> Entries]]
BY PlanNames DEF TypeOK, Finish

(* What users were given, and who was misled, is never forgotten. *)
GhostsGrown ==
    /\ seen' \in [Devices -> SUBSET Views]
    /\ \A d \in Devices : seen[d] \subseteq seen'[d]
    /\ misled' \subseteq Devices /\ misled \subseteq misled'

LEMMA SeeTyped ==
    ASSUME TypeOK, NEW d \in Devices, NEW p \in Paths, NEW n \in Nat, NEW v \in Values,
           NEW how \in {"file", "copy", "kept"}, See(d, p, n, v, how)
    PROVE  /\ seen' \in [Devices -> SUBSET Views]
           /\ \A e \in Devices : seen[e] \subseteq seen'[e]
           /\ \A e \in Devices : \A s \in seen'[e] :
                 s \in seen[e] \/ (e = d /\ s = [path |-> p, rev |-> n, val |-> v, as |-> how])
           /\ Had(d, p, n)'
<1> DEFINE new == [path |-> p, rev |-> n, val |-> v, as |-> how]
<1>1. new \in Views /\ new.path = p /\ new.rev = n
  BY DEF Views
<1>2. seen' = [seen EXCEPT ![d] = @ \cup {new}]
  BY DEF See
<1> HIDE DEF new
<1>3. \A e \in Devices : seen'[e] = IF e = d THEN seen[d] \cup {new} ELSE seen[e]
  BY <1>2 DEF TypeOK
<1>4. seen' \in [Devices -> SUBSET Views]
  BY <1>1, <1>2 DEF TypeOK
<1>5. Had(d, p, n)'
  BY <1>1, <1>3 DEF Had
<1> QED
  BY <1>3, <1>4, <1>5 DEF new

(* What a device takes from its connection is the answer to its request,   *)
(* or the device is misled.                                                *)
LEMMA QueueTyped ==
    ASSUME TypeOK, NEW d \in Devices, NEW answers \in Seq(Answers), answers # <<>>
    PROVE  /\ Queue(d, answers) \in Seq(Answers)
           /\ Len(Queue(d, answers)) >= 1
           /\ Queue(d, answers)[1] \in Answers
           /\ Head(Queue(d, answers)) = Queue(d, answers)[1]
           /\ wire[d] = <<>> => Queue(d, answers) = answers
           /\ wire[d] # <<>> => Len(Queue(d, answers)) >= 2 /\ Queue(d, answers)[2] \in Answers
<1>1. wire[d] \in Seq(Answers)
  BY DEF TypeOK
<1>2. /\ Queue(d, answers) \in Seq(Answers)
      /\ Len(Queue(d, answers)) = Len(wire[d]) + Len(answers)
  BY <1>1, ConcatProperties DEF Queue
<1>3. Len(answers) \in Nat \ {0} /\ Len(wire[d]) \in Nat
  BY <1>1, EmptySeq, LenProperties
<1>4. wire[d] # <<>> => Len(wire[d]) # 0
  BY <1>1, EmptySeq
<1>5. wire[d] = <<>> => Queue(d, answers) = answers
  BY ConcatEmptySeq DEF Queue
<1>6. \A i \in 1 .. Len(Queue(d, answers)) : Queue(d, answers)[i] \in Answers
  BY <1>2, ElementOfSeq
<1>7. Head(Queue(d, answers)) = Queue(d, answers)[1]
  BY <1>2, <1>3
<1> QED
  BY <1>2, <1>3, <1>4, <1>5, <1>6, <1>7

Replied == /\ wire' \in [Devices -> Seq(Answers)]
           /\ misled' \subseteq Devices /\ misled \subseteq misled'

LEMMA TakesTyped ==
    ASSUME TypeOK, NEW d \in Devices, NEW answers \in Seq(Answers), answers # <<>>,
           NEW n \in Nat, n <= Len(Queue(d, answers)), Takes(d, answers, n)
    PROVE  Replied /\ (d \notin misled' => Queue(d, answers) = answers)
<1> DEFINE q == Queue(d, answers)
           left == SubSeq(q, n + 1, Len(q))
<1>1. q \in Seq(Answers) /\ (wire[d] = <<>> => q = answers)
  BY QueueTyped
<1>2. left \in Seq(Answers)
  <2>1. Len(q) \in Nat
    BY <1>1, LenProperties
  <2>2. n + 1 \in 1 .. Len(q) + 1 /\ Len(q) \in (n + 1) - 1 .. Len(q)
    BY <2>1
  <2> QED
    BY <1>1, <2>2, SubSeqProperties
<1>3. wire' = [wire EXCEPT ![d] = left]
  BY DEF Takes
<1> HIDE DEF left, q
<1>4. wire' \in [Devices -> Seq(Answers)]
  BY <1>2, <1>3 DEF TypeOK
<1> QED
  BY <1>1, <1>4 DEF Takes, TypeOK, Replied, q

LEMMA LeavesTyped ==
    ASSUME TypeOK, NEW d \in Devices, NEW answer \in Answers, Leaves(d, answer)
    PROVE  Replied
<1>1. Append(wire[d], answer) \in Seq(Answers)
  BY AppendProperties DEF TypeOK
<1> QED
  BY <1>1 DEF TypeOK, Leaves, Replied

LEMMA SilentTyped ==
    ASSUME TypeOK, Silent
    PROVE  Replied /\ misled' = misled
BY DEF TypeOK, Silent, Replied

(* A request changes only what its device has to do about its path.        *)
Touches(d, p) ==
    /\ plan' \in [Devices -> [Paths -> Plans]]
    /\ got' \in [Devices -> [Paths -> SUBSET Nat]]
    /\ next' \in [Devices -> [Paths -> Entries]]
    /\ \A e \in Devices, q \in Paths : e # d \/ q # p =>
          plan'[e][q] = plan[e][q] /\ got'[e][q] = got[e][q] /\ next'[e][q] = next[e][q]
    /\ plan'[d][p] \in {plan[d][p], "none", "resolve", "sent"}
    /\ got'[d][p] \subseteq got[d][p] \cup {0, head[p].rev}

LEMMA FinishTouches ==
    ASSUME TypeOK, NEW d \in Devices, NEW p \in Paths, NEW b \in Entries, Finish(d, p, b)
    PROVE  Touches(d, p) /\ next'[d][p] = b /\ plan'[d][p] = "none"
<1>1. /\ plan' = [plan EXCEPT ![d][p] = "none"]
      /\ next' = [next EXCEPT ![d][p] = b]
      /\ got' = [got EXCEPT ![d][p] = {}]
  BY DEF Finish
<1>2. /\ plan'[d][p] = "none" /\ next'[d][p] = b /\ got'[d][p] = {}
      /\ \A e \in Devices, q \in Paths : e # d \/ q # p =>
            plan'[e][q] = plan[e][q] /\ got'[e][q] = got[e][q] /\ next'[e][q] = next[e][q]
  BY <1>1 DEF TypeOK
<1> QED
  BY <1>2, FinishTyped DEF Touches

LEMMA SkipTouches ==
    ASSUME TypeOK, NEW d \in Devices, NEW p \in Paths, Skip(d, p)
    PROVE  Touches(d, p) /\ next'[d][p] = next[d][p] /\ plan'[d][p] = "none"
<1>1. next[d][p] \in Entries
  BY DEF TypeOK
<1> QED
  BY <1>1, FinishTouches DEF Skip

LEMMA PlanTouches ==
    ASSUME TypeOK, NEW d \in Devices, NEW p \in Paths, NEW what \in {"resolve", "sent"},
           plan' = [plan EXCEPT ![d][p] = what], UNCHANGED <<next, got>>
    PROVE  Touches(d, p) /\ next'[d][p] = next[d][p] /\ plan'[d][p] = what
BY PlanNames DEF TypeOK, Touches

LEMMA StillTouches ==
    ASSUME TypeOK, NEW d \in Devices, NEW p \in Paths, UNCHANGED <<plan, next, got>>
    PROVE  Touches(d, p) /\ next'[d][p] = next[d][p]
BY DEF TypeOK, Touches

(* An upload's answer: unless the device is misled, the next baseline gets *)
(* an entry only with an acknowledgement, for its revision and the digest  *)
(* of the scan.                                                            *)
LEMMA PutAnsweredTyped ==
    ASSUME TypeOK, NEW d \in Devices, NEW p \in Paths, NEW answer \in Answers,
           PutAnswered(d, p, answer)
    PROVE  /\ Replied /\ Touches(d, p)
           /\ plan'[d][p] # "sent"
           /\ d \notin misled' =>
                 \/ next'[d][p] = next[d][p]
                 \/ answer.op = "file"
                 \/ answer.op = "ack" /\ next'[d][p] = Entry(answer.rev, scan[d][p])
<1> DEFINE q == Queue(d, <<answer>>)
           a == Head(q)
<1>1. <<answer>> \in Seq(Answers) /\ <<answer>> # <<>> /\ Head(<<answer>>) = answer
  OBVIOUS
<1>2. a \in Answers /\ 1 <= Len(q) /\ q \in Seq(Answers)
  BY <1>1, QueueTyped
<1>3. Replied /\ (d \notin misled' => a = answer)
  <2>1. Takes(d, <<answer>>, 1)
    BY DEF PutAnswered
  <2>2. Replied /\ (d \notin misled' => q = <<answer>>)
    BY <1>1, <1>2, <2>1, TakesTyped
  <2> QED
    BY <1>1, <2>2
<1>4. \/ /\ plan' = [plan EXCEPT ![d][p] = "resolve"]
         /\ UNCHANGED <<next, got>>
      \/ Skip(d, p)
      \/ /\ a.op \in {"ack", "file"}
         /\ Finish(d, p, Entry(IF a.op = "ack" THEN a.rev ELSE 0, scan[d][p]))
  BY DEF PutAnswered
<1> HIDE DEF a, q
<1>5. CASE /\ plan' = [plan EXCEPT ![d][p] = "resolve"]
           /\ UNCHANGED <<next, got>>
  BY <1>3, <1>5, PlanTouches
<1>6. CASE Skip(d, p)
  BY <1>3, <1>6, SkipTouches
<1>7. CASE /\ a.op \in {"ack", "file"}
           /\ Finish(d, p, Entry(IF a.op = "ack" THEN a.rev ELSE 0, scan[d][p]))
  <2>1. (IF a.op = "ack" THEN a.rev ELSE 0) \in Nat /\ scan[d][p] \in Values
    BY <1>2 DEF Answers, TypeOK
  <2>2. Entry(IF a.op = "ack" THEN a.rev ELSE 0, scan[d][p]) \in Entries
    BY <2>1, EntryTyped
  <2>3. /\ Touches(d, p) /\ plan'[d][p] = "none"
        /\ next'[d][p] = Entry(IF a.op = "ack" THEN a.rev ELSE 0, scan[d][p])
    BY <1>7, <2>2, FinishTouches
  <2> QED
    BY <1>3, <1>7, <2>3
<1> QED
  BY <1>4, <1>5, <1>6, <1>7

-----------------------------------------------------------------------------
(* What a request or the commit of one leaves for its device: a good entry *)
(* in the next baseline, and things on record given to the user, unless    *)
(* the device is misled.                                                   *)

Puts == [to : Devices, path : Paths, val : Values]

Result(d, p) ==
    /\ Touches(d, p) /\ Replied
    /\ file' \in [Devices -> [Paths -> Values]]
    /\ seen' \in [Devices -> SUBSET Views]
    /\ putting' \subseteq Puts
    /\ faults' \in Nat
    /\ next'[d][p] = next[d][p] \/ d \in misled' \/ EntryOK(d, p, next[d][p])'
    /\ \A e \in Devices :
          /\ seen[e] \subseteq seen'[e]
          /\ \A s \in seen'[e] : s \in seen[e] \/ e \in misled' \/ ViewOK(s)'

(* Most requests give the user nothing. *)
LEMMA PlainResult ==
    ASSUME TypeOK, NEW d \in Devices, NEW p \in Paths,
           Touches(d, p), Replied, UNCHANGED <<file, seen>>,
           putting' = putting \/ putting' \subseteq Puts, UNCHANGED faults \/ Fault,
           next'[d][p] = next[d][p] \/ d \in misled' \/ EntryOK(d, p, next[d][p])'
    PROVE  Result(d, p)
BY DEF TypeOK, Result, Puts, Fault

LEMMA ChangeResult ==
    ASSUME TypeOK, NEW d \in Devices, NEW p \in Paths, NEW v \in Values, Change(d, p, v),
           UNCHANGED <<file, seen>>, UNCHANGED faults
    PROVE  Result(d, p)
<1>1. Touches(d, p) /\ next'[d][p] = next[d][p]
  BY PlanTouches DEF Change
<1>2. Replied
  BY SilentTyped DEF Change
<1>3. putting' \subseteq Puts
  BY DEF Change, Puts
<1> QED
  BY <1>1, <1>2, <1>3, PlainResult

LEMMA SkipResult ==
    ASSUME TypeOK, NEW d \in Devices, NEW p \in Paths, Skip(d, p), Replied,
           UNCHANGED <<file, seen, putting>>, UNCHANGED faults \/ Fault
    PROVE  Result(d, p)
BY SkipTouches, PlainResult

LEMMA RefusedResult ==
    ASSUME TypeOK, NEW d \in Devices, NEW p \in Paths, NEW reason \in {"reject", "conflict"},
           PutAnswered(d, p, Refusal(reason)),
           UNCHANGED <<file, seen>>, putting' = putting \/ putting' \subseteq Puts,
           UNCHANGED faults \/ Fault
    PROVE  Result(d, p)
<1>1. Refusal(reason) \in Answers /\ Refusal(reason).op = reason
  BY AnswerTyped
<1>2. /\ Replied /\ Touches(d, p)
      /\ next'[d][p] = next[d][p] \/ d \in misled'
  BY <1>1, PutAnsweredTyped
<1> QED
  BY <1>2, PlainResult

LEMMA UploadResult ==
    ASSUME TypeOK, NEW d \in Devices, NEW p \in Paths, Upload(d, p)
    PROVE  Result(d, p)
<1> DEFINE reason == IF head[p].rev # base[d][p].rev THEN "conflict" ELSE "reject"
<1>0. /\ UNCHANGED <<file, seen>>
      /\ \/ Skip(d, p) /\ Silent /\ UNCHANGED <<server, faults>>
         \/ Change(d, p, file[d][p]) /\ UNCHANGED faults
         \/ PutAnswered(d, p, Refusal(reason)) /\ UNCHANGED server /\ (UNCHANGED faults \/ Fault)
         \/ Leaves(d, Refusal(reason)) /\ Skip(d, p) /\ UNCHANGED server /\ Fault
  BY DEF Upload
<1>r. reason \in {"reject", "conflict"}
  OBVIOUS
<1> HIDE DEF reason
<1>s. UNCHANGED server => UNCHANGED putting
  BY DEF server
<1>1. CASE Skip(d, p) /\ Silent /\ UNCHANGED <<server, faults>>
  BY <1>0, <1>s, <1>1, SilentTyped, SkipResult
<1>2. CASE Change(d, p, file[d][p]) /\ UNCHANGED faults
  <2>1. file[d][p] \in Values
    BY DEF TypeOK
  <2> QED
    BY <1>0, <1>2, <2>1, ChangeResult
<1>3. CASE PutAnswered(d, p, Refusal(reason)) /\ UNCHANGED server /\ (UNCHANGED faults \/ Fault)
  BY <1>0, <1>r, <1>s, <1>3, RefusedResult
<1>4. CASE Leaves(d, Refusal(reason)) /\ Skip(d, p) /\ UNCHANGED server /\ Fault
  <2>1. Replied
    BY <1>r, <1>4, LeavesTyped, AnswerTyped
  <2> QED
    BY <1>0, <1>s, <1>4, <2>1, SkipResult
<1> QED
  BY <1>0, <1>1, <1>2, <1>3, <1>4

(* A single answer is taken, whatever it is. *)
LEMMA OneTaken ==
    ASSUME TypeOK, NEW d \in Devices, NEW answer \in Answers, Takes(d, <<answer>>, 1)
    PROVE  Replied
<1>1. <<answer>> \in Seq(Answers) /\ <<answer>> # <<>>
  OBVIOUS
<1> QED
  BY <1>1, QueueTyped, TakesTyped

LEMMA DeleteRemoteResult ==
    ASSUME TypeOK, NEW d \in Devices, NEW p \in Paths, DeleteRemote(d, p)
    PROVE  Result(d, p)
<1> DEFINE answer == IF head[p].rev = 0 THEN Ack(base[d][p].rev) ELSE Refusal("reject")
<1>0. /\ UNCHANGED <<file, seen>>
      /\ \/ Change(d, p, Gone) /\ UNCHANGED faults
         \/ Takes(d, <<answer>>, 1) /\ Skip(d, p) /\ UNCHANGED server /\ (UNCHANGED faults \/ Fault)
  BY DEF DeleteRemote
<1>1. answer \in Answers
  BY AnswerTyped DEF TypeOK, Entries
<1> HIDE DEF answer
<1>2. CASE Change(d, p, Gone) /\ UNCHANGED faults
  BY <1>0, <1>2, ChangeResult DEF Values
<1>3. CASE Takes(d, <<answer>>, 1) /\ Skip(d, p) /\ UNCHANGED server /\ (UNCHANGED faults \/ Fault)
  BY <1>0, <1>1, <1>3, OneTaken, SkipResult DEF server
<1> QED
  BY <1>0, <1>2, <1>3

LEMMA NoEntryOK ==
    ASSUME TypeOK, Grown, NEW d \in Devices, NEW p \in Paths
    PROVE  EntryOK(d, p, NoEntry) /\ EntryOK(d, p, NoEntry)'
<1>1. NoEntry \in Entries /\ NoEntry.rev = 0
  BY EntryTyped
<1>2. head[p].rev \in Nat /\ head'[p].rev \in Nat
  BY DEF TypeOK, Grown, Rows
<1> QED
  BY <1>1, <1>2 DEF EntryOK

LEMMA DeleteLocalResult ==
    ASSUME TypeOK, Grown, NEW d \in Devices, NEW p \in Paths, DeleteLocal(d, p)
    PROVE  Result(d, p)
<1>1. Touches(d, p) /\ next'[d][p] = NoEntry
  BY EntryTyped, FinishTouches DEF DeleteLocal
<1>2. EntryOK(d, p, next[d][p])'
  BY <1>1, NoEntryOK DEF EntryOK, Had
<1>3. Replied
  BY SilentTyped DEF DeleteLocal
<1>4. file' \in [Devices -> [Paths -> Values]]
  BY DEF DeleteLocal, TypeOK, Values
<1>5. UNCHANGED <<seen, faults, putting>>
  BY DEF DeleteLocal, server
<1> QED
  BY <1>1, <1>2, <1>3, <1>4, <1>5 DEF Result, TypeOK, Puts

LEMMA GetResult ==
    ASSUME TypeOK, NEW d \in Devices, NEW p \in Paths, NEW what, Get(d, p, what)
    PROVE  Result(d, p)
<1>1. PICK n \in {head[p].rev, 0} :
         got' = [got EXCEPT ![d][p] = {n}] /\ UNCHANGED <<plan, next>>
  BY DEF Get
<1>2. n \in Nat
  BY DEF TypeOK, Rows
<1>3. Touches(d, p) /\ next'[d][p] = next[d][p]
  <2>1. got' \in [Devices -> [Paths -> SUBSET Nat]]
    BY <1>1, <1>2 DEF TypeOK
  <2>2. /\ got'[d][p] = {n}
        /\ \A e \in Devices, q \in Paths : e # d \/ q # p => got'[e][q] = got[e][q]
    BY <1>1 DEF TypeOK
  <2> QED
    BY <1>1, <2>1, <2>2 DEF TypeOK, Touches
<1>4. Replied
  BY SilentTyped DEF Get
<1> QED
  BY <1>3, <1>4, PlainResult DEF Get, server

(* What a get hands out is on record, if its number is still the row's.    *)
LEMMA FetchResult ==
    ASSUME IInv, Grown, NEW d \in Devices, NEW p \in Paths, NEW what,
           NEW how \in {"file", "copy", "kept"}, Fetch(d, p, what, how)
    PROVE  Result(d, p)
<1>0. TypeOK /\ StoreOK
  BY DEF IInv
<1>1. PICK n \in got[d][p] :
         LET found == n # 0 /\ work[p] # Gone
             answers == IF found THEN <<File(n), Bytes(work[p])>> ELSE <<Refusal("reject")>>
             first == Head(Queue(d, answers))
             content == Queue(d, answers)[2].val
         IN  /\ UNCHANGED <<server, link>>
             /\ \/ /\ first.op = "file"
                   /\ Takes(d, answers, 2)
                   /\ IF how = "file" THEN WriteLocal(d, p, content) ELSE UNCHANGED file
                   /\ Finish(d, p, Entry(first.rev, NoSha))
                   /\ See(d, p, first.rev, content, how)
                   /\ UNCHANGED faults
                \/ /\ IF first.op = "file" THEN Takes(d, answers, 2) /\ Fault
                                            ELSE Takes(d, answers, 1) /\ UNCHANGED faults
                   /\ Skip(d, p)
                   /\ UNCHANGED <<file, seen>>
  BY DEF Fetch
<1> DEFINE found == n # 0 /\ work[p] # Gone
           answers == IF found THEN <<File(n), Bytes(work[p])>> ELSE <<Refusal("reject")>>
           queue == Queue(d, answers)
           first == Head(queue)
           content == queue[2].val
<1>2. n \in Nat /\ work[p] \in Values
  BY <1>0 DEF TypeOK
<1>3. /\ File(n) \in Answers /\ Bytes(work[p]) \in Answers /\ Refusal("reject") \in Answers
      /\ File(n).op = "file" /\ File(n).rev = n /\ Bytes(work[p]).val = work[p]
      /\ Refusal("reject").op = "reject"
  BY <1>2, AnswerTyped
<1>4. /\ answers \in Seq(Answers) /\ answers # <<>>
      /\ Head(answers).op = "file" => found
      /\ found => /\ answers = <<File(n), Bytes(work[p])>> /\ Len(answers) = 2
                  /\ Head(answers) = File(n) /\ answers[2] = Bytes(work[p])
  <2>1. CASE found
    <3>1. answers = <<File(n), Bytes(work[p])>>
      BY <2>1
    <3> HIDE DEF answers
    <3> QED
      BY <1>3, <2>1, <3>1
  <2>2. CASE ~ found
    <3>1. answers = <<Refusal("reject")>>
      BY <2>2
    <3> HIDE DEF answers
    <3> QED
      BY <1>3, <2>2, <3>1
  <2> QED
    BY <2>1, <2>2
<1> HIDE DEF answers
<1>5. /\ queue \in Seq(Answers) /\ Len(queue) >= 1 /\ first \in Answers
      /\ wire[d] = <<>> => queue = answers
      /\ wire[d] # <<>> => Len(queue) >= 2 /\ queue[2] \in Answers
  BY <1>0, <1>4, QueueTyped
<1>6. first.op = "file" => Len(queue) >= 2 /\ queue[2] \in Answers
  <2>1. CASE wire[d] = <<>>
    BY <1>3, <1>4, <1>5, <2>1
  <2>2. CASE wire[d] # <<>>
    BY <1>5, <2>2
  <2> QED
    BY <2>1, <2>2
<1>f. UNCHANGED <<head, versions, work, stood, putting, link>>
  BY <1>1 DEF server
<1> HIDE DEF found, queue
<1>7. CASE /\ first.op = "file"
           /\ Takes(d, answers, 2)
           /\ IF how = "file" THEN WriteLocal(d, p, content) ELSE UNCHANGED file
           /\ Finish(d, p, Entry(first.rev, NoSha))
           /\ See(d, p, first.rev, content, how)
           /\ UNCHANGED faults
  <2>1. Replied /\ (d \notin misled' => queue = answers)
    BY <1>0, <1>4, <1>5, <1>6, <1>7, TakesTyped DEF queue
  <2>2. first.rev \in Nat /\ content \in Values
    BY <1>5, <1>6, <1>7 DEF Answers
  <2>3. d \notin misled' => first.rev = n /\ n # 0 /\ content = work[p]
    BY <1>3, <1>4, <1>7, <2>1 DEF found
  <2>4. PICK m \in Nat, v \in Values : m = first.rev /\ v = content
    BY <2>2
  <2> HIDE DEF first, content
  <2>5. Entry(m, NoSha) \in Entries /\ Entry(m, NoSha).rev = m /\ Entry(m, NoSha).val = NoSha
    BY EntryTyped
  <2>6. Touches(d, p) /\ next'[d][p] = Entry(m, NoSha)
    BY <1>0, <1>7, <2>4, <2>5, FinishTouches
  <2>7. /\ seen' \in [Devices -> SUBSET Views]
        /\ \A e \in Devices : seen[e] \subseteq seen'[e]
        /\ \A e \in Devices : \A s \in seen'[e] :
              s \in seen[e] \/ (e = d /\ s = [path |-> p, rev |-> m, val |-> v, as |-> how])
        /\ Had(d, p, m)'
    BY <1>0, <1>7, <2>4, SeeTyped
  <2>8. file' \in [Devices -> [Paths -> Values]]
    <3>1. UNCHANGED file \/ file' = [file EXCEPT ![d][p] = v]
      BY <1>7, <2>4 DEF WriteLocal
    <3>2. CASE UNCHANGED file
      BY <1>0, <3>2 DEF TypeOK
    <3>3. CASE file' = [file EXCEPT ![d][p] = v]
      BY <1>0, <2>4, <3>3 DEF TypeOK
    <3> QED
      BY <3>1, <3>2, <3>3
  <2>9. ASSUME d \notin misled'
        PROVE  m # 0 /\ m <= head'[p].rev /\ v = work'[p]
    <3>1. d \notin misled
      BY <2>1, <2>9 DEF Replied
    <3>2. RoundOK(d, p)
      BY <3>1 DEF IInv, DeviceOK
    <3> QED
      BY <1>f, <2>3, <2>4, <2>9, <3>2 DEF RoundOK
  <2>10. d \in misled' \/ EntryOK(d, p, next[d][p])'
    <3>1. ASSUME d \notin misled'
          PROVE  EntryOK(d, p, Entry(m, NoSha))'
      BY <2>5, <2>7, <2>9, <3>1 DEF EntryOK
    <3> QED
      BY <2>6, <3>1 DEF EntryOK, Had
  <2>11. ASSUME d \notin misled', NEW s, s = [path |-> p, rev |-> m, val |-> v, as |-> how]
         PROVE  ViewOK(s)'
    <3>1. /\ s.path = p /\ s.rev = m /\ s.val = v
          /\ m <= head'[p].rev /\ v = work'[p]
          /\ Row(head'[p].rev, work'[p]) \in Served(p)'
      BY <2>9, <2>11 DEF Grown, StoreOK
    <3> QED
      BY <3>1 DEF ViewOK
  <2> QED
    BY <1>0, <1>f, <1>7, <2>1, <2>6, <2>7, <2>8, <2>10, <2>11 DEF Result, TypeOK, Puts
<1>8. CASE /\ IF first.op = "file" THEN Takes(d, answers, 2) /\ Fault
                                   ELSE Takes(d, answers, 1) /\ UNCHANGED faults
           /\ Skip(d, p)
           /\ UNCHANGED <<file, seen>>
  <2>1. Replied
    BY <1>0, <1>4, <1>5, <1>6, <1>8, TakesTyped DEF queue
  <2> QED
    BY <1>0, <1>f, <1>8, <2>1, SkipResult
<1> QED
  BY <1>1, <1>7, <1>8 DEF found, answers, queue

LEMMA RequestResult ==
    ASSUME IInv, Grown, NEW d \in Devices, NEW p \in Paths, Request(d, p)
    PROVE  Result(d, p)
<1>0. TypeOK
  BY DEF IInv
<1>1. CASE Upload(d, p)
  BY <1>0, <1>1, UploadResult
<1>2. CASE DeleteRemote(d, p)
  BY <1>0, <1>2, DeleteRemoteResult
<1>3. CASE DeleteLocal(d, p)
  BY <1>0, <1>3, DeleteLocalResult
<1>4. CASE NoConnection(d, p)
  BY <1>0, <1>4, SilentTyped, SkipResult DEF NoConnection, server
<1>5. CASE Download(d, p)
  BY <1>0, <1>5, GetResult, FetchResult DEF Download
<1>6. CASE Conflict(d, p)
  <2>1. PICK what \in {"resolve", "conflict"} :
           \/ Get(d, p, what)
           \/ Fetch(d, p, what, IF scan[d][p] = Gone THEN "kept" ELSE "copy")
    BY <1>6 DEF Conflict
  <2> QED
    BY <1>0, <2>1, GetResult, FetchResult
<1> QED
  BY <1>1, <1>2, <1>3, <1>4, <1>5, <1>6 DEF Request

LEMMA RequestFrame ==
    ASSUME NEW d \in Devices, NEW p \in Paths, Request(d, p)
    PROVE  UNCHANGED <<pc, link, remote, scan, base, torn, edits>>
<1>1. CASE Upload(d, p) \/ DeleteRemote(d, p) \/ DeleteLocal(d, p) \/ NoConnection(d, p)
  BY <1>1 DEF Upload, DeleteRemote, DeleteLocal, NoConnection, Doing
<1>2. CASE Download(d, p) \/ Conflict(d, p)
  BY <1>2 DEF Download, Conflict, Get, Fetch, Doing
<1> QED
  BY <1>1, <1>2 DEF Request

LEMMA CommitResult ==
    ASSUME IInv, Grown, Commit
    PROVE  /\ UNCHANGED <<pc, link, remote, scan, base, torn, file, edits>>
           /\ putting' = {}
           /\ \E d \in Devices, p \in Paths : Result(d, p)
<1>0. TypeOK /\ PutOK
  BY DEF IInv
<1>1. PICK r \in putting :
         /\ putting' = {}
         /\ UNCHANGED work
         /\ \/ /\ Publish({r.path}, [p \in Paths |-> r.val])
               /\ See(r.to, r.path, head[r.path].rev + 1, r.val, "file")
               /\ \/ Answered(r, Ack(head[r.path].rev + 1)) /\ UNCHANGED faults
                  \/ Answered(r, Refusal("reject")) /\ Fault
            \/ /\ UNCHANGED <<head, versions, seen>>
               /\ Answered(r, Refusal("reject")) /\ Fault
         /\ UNCHANGED <<disk, pc, link, remote, scan, edits>>
  BY DEF Commit
<1>2. PICK d \in Devices, p \in Paths, v \in Values : d = r.to /\ p = r.path /\ v = r.val
  BY <1>0 DEF TypeOK
<1>3. PICK n \in Nat : n = head[p].rev + 1
  BY <1>0 DEF TypeOK, Rows
<1>f. UNCHANGED <<file, base, torn>> /\ putting' \subseteq Puts
  BY <1>1 DEF disk
<1>4. ASSUME NEW answer \in {Ack(n), Refusal("reject")}, Answered(r, answer)
      PROVE  /\ Replied /\ Touches(d, p)
             /\ \/ next'[d][p] = next[d][p] \/ d \in misled'
                \/ answer = Ack(n) /\ next'[d][p] = Entry(n, v)
  <2>0. answer \in Answers /\ answer.op # "file" /\ (answer.op = "ack" => answer = Ack(n) /\ answer.rev = n)
    BY AnswerTyped
  <2>1. CASE r.val # Gone /\ plan[d][p] = "sent" /\ PutAnswered(d, p, answer)
    <3>1. scan[d][p] = v
      BY <1>0, <1>2, <2>1 DEF PutOK
    <3> QED
      BY <1>0, <2>0, <2>1, <3>1, PutAnsweredTyped
  <2>2. CASE Takes(d, <<answer>>, 1) /\ Skip(d, p)
    BY <1>0, <2>0, <2>2, OneTaken, SkipTouches
  <2>3. CASE UNCHANGED <<plan, next, got>> /\ Silent
    BY <1>0, <2>3, SilentTyped, StillTouches
  <2> QED
    BY <1>2, <1>4, <2>1, <2>2, <2>3 DEF Answered
<1>5. CASE /\ UNCHANGED <<head, versions, seen>>
           /\ Answered(r, Refusal("reject")) /\ Fault
  <2>1. /\ Replied /\ Touches(d, p)
        /\ next'[d][p] = next[d][p] \/ d \in misled'
    <3>1. Refusal("reject") # Ack(n)
      BY AnswerTyped
    <3> QED
      BY <1>4, <1>5, <3>1
  <2>2. Result(d, p)
    BY <1>0, <1>f, <1>5, <2>1, PlainResult
  <2> QED
    BY <1>1, <1>f, <2>2
<1>6. CASE /\ Publish({r.path}, [q \in Paths |-> r.val])
           /\ See(r.to, r.path, head[r.path].rev + 1, r.val, "file")
           /\ \/ Answered(r, Ack(head[r.path].rev + 1)) /\ UNCHANGED faults
              \/ Answered(r, Refusal("reject")) /\ Fault
  <2>1. head'[p] = Row(n, v) /\ head'[p] \in versions'[p]
    BY <1>2, <1>3, <1>6 DEF Publish
  <2>2. /\ Replied /\ Touches(d, p) /\ (UNCHANGED faults \/ Fault)
        /\ next'[d][p] = next[d][p] \/ d \in misled' \/ next'[d][p] = Entry(n, v)
    BY <1>2, <1>3, <1>4, <1>6
  <2>3. See(d, p, n, v, "file")
    BY <1>2, <1>3, <1>6
  <2>4. /\ seen' \in [Devices -> SUBSET Views]
        /\ \A e \in Devices : seen[e] \subseteq seen'[e]
        /\ \A e \in Devices : \A s \in seen'[e] :
              s \in seen[e] \/ (e = d /\ s = [path |-> p, rev |-> n, val |-> v, as |-> "file"])
        /\ Had(d, p, n)'
    BY <1>0, <2>3, SeeTyped
  <2>5. ASSUME NEW s, s = [path |-> p, rev |-> n, val |-> v, as |-> "file"]
        PROVE  ViewOK(s)'
    BY <2>1, <2>5 DEF ViewOK, Row, Served
  <2>6. EntryOK(d, p, Entry(n, v))'
    <3>1. /\ Entry(n, v) \in Entries /\ Entry(n, v).rev = n /\ Entry(n, v).val = v
          /\ n # 0 /\ n <= n
      BY <1>0, <1>3, EntryTyped DEF TypeOK, Rows
    <3> QED
      BY <2>1, <2>4, <3>1 DEF EntryOK, Row
  <2>7. next'[d][p] = next[d][p] \/ d \in misled' \/ EntryOK(d, p, next[d][p])'
    BY <2>2, <2>6 DEF EntryOK, Had
  <2>8. faults' \in Nat /\ file' \in [Devices -> [Paths -> Values]]
    BY <1>0, <1>f, <2>2 DEF TypeOK, Fault
  <2>9. Result(d, p)
    BY <1>f, <2>2, <2>4, <2>5, <2>7, <2>8 DEF Result
  <2> QED
    BY <1>1, <1>f, <2>9
<1> QED
  BY <1>1, <1>5, <1>6

-----------------------------------------------------------------------------
(* What the other steps do. *)

LEMMA TurnTyped ==
    ASSUME TypeOK, NEW d \in Devices, Turn(d)
    PROVE  /\ RoundTyped'
           /\ base' \in [Devices -> [Paths -> Entries]]
           /\ torn' \in [Devices -> BOOLEAN]
           /\ faults' \in Nat
           /\ UNCHANGED <<work, putting, file, seen, misled, edits>>
           /\ putting # {} => UNCHANGED <<head, versions, stood>>
<1> USE DEF TypeOK, RoundTyped, server, disk, ghosts, bounds
<1>1. CASE Begin(d)
  <2>1. /\ pc' = [pc EXCEPT ![d] = "list"]
        /\ link' = [link EXCEPT ![d] = TRUE]
        /\ UNCHANGED faults \/ Fault
        /\ Free
        /\ UNCHANGED <<work, putting, disk, wire, remote, scan, plan, got, next, ghosts, edits>>
    BY <1>1 DEF Begin
  <2> QED
    BY <2>1 DEF Free, Fault
<1>2. CASE List(d)
  <2>1. UNCHANGED <<server, disk, ghosts, edits>>
    BY <1>2 DEF List
  <2>2. CASE EndRound(d) /\ UNCHANGED faults
    BY <2>1, <2>2, EndTyped
  <2>3. CASE /\ pc' = [pc EXCEPT ![d] = "scan"]
             /\ \/ remote' = [remote EXCEPT ![d] = head] /\ UNCHANGED faults
                \/ remote' = [remote EXCEPT ![d] = PerPath(NoEntry)] /\ Fault
             /\ UNCHANGED <<link, wire, scan, plan, got, next>>
    <3>1. PerPath(NoEntry) \in [Paths -> Rows]
      BY EntryTyped DEF PerPath
    <3>2. remote' \in [Devices -> [Paths -> Rows]]
      <4>1. CASE remote' = [remote EXCEPT ![d] = head]
        BY <4>1
      <4>2. CASE remote' = [remote EXCEPT ![d] = PerPath(NoEntry)]
        BY <3>1, <4>2
      <4> QED
        BY <2>3, <4>1, <4>2
    <3>f. faults' \in Nat
      BY <2>3 DEF Fault
    <3>3. pc' \in [Devices -> {"idle", "list", "scan", "run", "save"}]
      BY <2>3
    <3> QED
      BY <2>1, <2>3, <3>2, <3>3, <3>f
  <2> QED
    BY <1>2, <2>2, <2>3 DEF List
<1>3. CASE ScanAndDiff(d)
  <2>1. UNCHANGED <<server, disk, ghosts, bounds>>
    BY <1>3 DEF ScanAndDiff
  <2>2. CASE EndRound(d)
    BY <2>1, <2>2, EndTyped
  <2>3. CASE /\ pc' = [pc EXCEPT ![d] = "run"]
             /\ scan' = [scan EXCEPT ![d] = Scanned(d)]
             /\ plan' = [plan EXCEPT ![d] =
                   [p \in Paths |-> Decide(base[d][p], Scanned(d)[p], remote[d][p])]]
             /\ next' = [next EXCEPT ![d] =
                   [p \in Paths |-> KeptBaseline(base[d][p], Scanned(d)[p])]]
             /\ UNCHANGED <<link, wire, remote, got>>
    <3>1. [p \in Paths |-> Decide(base[d][p], Scanned(d)[p], remote[d][p])] \in [Paths -> Plans]
      BY Decided, PlanNames DEF Decisions
    <3>2. [p \in Paths |-> KeptBaseline(base[d][p], Scanned(d)[p])] \in [Paths -> Entries]
      BY EntryTyped DEF KeptBaseline
    <3>3. Scanned(d) \in [Paths -> Values]
      BY DEF Scanned
    <3>4. /\ pc' \in [Devices -> {"idle", "list", "scan", "run", "save"}]
          /\ scan' \in [Devices -> [Paths -> Values]]
          /\ plan' \in [Devices -> [Paths -> Plans]]
          /\ next' \in [Devices -> [Paths -> Entries]]
      BY <2>3, <3>1, <3>2, <3>3
    <3> QED
      BY <2>1, <2>3, <3>4
  <2> QED
    BY <1>3, <2>2, <2>3 DEF ScanAndDiff
<1>4. CASE Truncate(d)
  BY <1>4 DEF Truncate
<1>5. CASE Save(d)
  <2>1. RoundTyped'
    BY <1>5, EndTyped DEF Save
  <2>2. base' \in [Devices -> [Paths -> Entries]] /\ torn' \in [Devices -> BOOLEAN]
    BY <1>5 DEF Save
  <2> QED
    BY <1>5, <2>1, <2>2 DEF Save
<1>6. CASE Disconnect(d)
  <2>1. <<>> \in Seq(Answers)
    OBVIOUS
  <2> QED
    BY <1>6, <2>1 DEF Disconnect, Fault
<1>7. CASE Kill(d)
  BY <1>7, EndTyped DEF Kill, Fault
<1> QED
  BY <1>1, <1>2, <1>3, <1>4, <1>5, <1>6, <1>7 DEF Turn

(* Restart, the users and Claude. *)
Outside ==
    \/ Restart
    \/ \E d \in Devices, p \in Paths : UserEdit(d, p)
    \/ \E p \in Paths : CloudEdit(p)
    \/ UNCHANGED vars

LEMMA OutsideTyped ==
    ASSUME TypeOK, Outside
    PROVE  /\ UNCHANGED <<head, versions, base, torn, pc, remote, scan, plan, got, next, seen, misled>>
           /\ link' \in [Devices -> BOOLEAN]
           /\ wire' \in [Devices -> Seq(Answers)]
           /\ file' \in [Devices -> [Paths -> Values]]
           /\ putting' = putting \/ putting' = {}
           /\ edits' \in Nat /\ faults' \in Nat
           /\ edits' # edits \/ UNCHANGED file
<1> USE DEF TypeOK, server, disk, round, ghosts, bounds
<1>1. CASE Restart
  <2>1. [d \in Devices |-> <<>>] \in [Devices -> Seq(Answers)]
    OBVIOUS
  <2> QED
    BY <1>1, <2>1 DEF Restart, Fault
<1>2. ASSUME NEW d \in Devices, NEW p \in Paths, UserEdit(d, p)
      PROVE  /\ UNCHANGED <<server, base, torn, round, ghosts, faults>>
             /\ file' \in [Devices -> [Paths -> Values]]
             /\ edits' \in Nat /\ edits' # edits
  <2>1. PICK v \in UserEdits : Edit /\ file' = [file EXCEPT ![d][p] = v]
    BY <1>2 DEF UserEdit
  <2> QED
    BY <1>2, <2>1 DEF UserEdit, Edit
<1>3. ASSUME NEW p \in Paths, CloudEdit(p)
      PROVE  /\ UNCHANGED <<head, versions, putting, disk, round, ghosts, faults>>
             /\ edits' \in Nat /\ edits' # edits
  BY <1>3 DEF CloudEdit, Edit
<1>4. CASE UNCHANGED vars
  BY <1>4 DEF vars
<1> QED
  BY <1>1, <1>2, <1>3, <1>4 DEF Outside

LEMMA Kinds ==
    ASSUME [Next]_vars
    PROVE  \/ \E d \in Devices : Turn(d)
           \/ \E d \in Devices, p \in Paths : Request(d, p)
           \/ Commit
           \/ Outside
BY Steps DEF Outside

LEMMA TypeStep ==
    ASSUME IInv, [Next]_vars
    PROVE  TypeOK' /\ GhostsGrown
<1>0. TypeOK /\ Grown
  BY ServerGrows DEF IInv
<1>1. ASSUME NEW d \in Devices, Turn(d)
      PROVE  TypeOK' /\ GhostsGrown
  BY <1>0, <1>1, TurnTyped DEF TypeOK, RoundTyped, Grown, GhostsGrown
<1>2. ASSUME NEW d \in Devices, NEW p \in Paths, Result(d, p),
             UNCHANGED <<pc, link, remote, scan, base, torn, edits>>
      PROVE  TypeOK' /\ GhostsGrown
  BY <1>0, <1>2 DEF TypeOK, Grown, GhostsGrown, Result, Touches, Replied, Puts
<1>3. ASSUME NEW d \in Devices, NEW p \in Paths, Request(d, p)
      PROVE  TypeOK' /\ GhostsGrown
  BY <1>0, <1>2, <1>3, RequestResult, RequestFrame
<1>4. CASE Commit
  BY <1>0, <1>2, <1>4, CommitResult
<1>5. CASE Outside
  BY <1>0, <1>5, OutsideTyped DEF TypeOK, Grown, GhostsGrown
<1> QED
  BY <1>1, <1>3, <1>4, <1>5, Kinds

-----------------------------------------------------------------------------
(* The invariant: whatever else happens, ...                               *)

LEMMA EntryKept ==
    ASSUME TypeOK, Grown, GhostsGrown, NEW d \in Devices, NEW p \in Paths,
           NEW b, EntryOK(d, p, b)
    PROVE  EntryOK(d, p, b)'
<1>1. /\ head[p].rev \in Nat /\ head'[p].rev \in Nat /\ head[p].rev <= head'[p].rev
      /\ versions[p] \subseteq versions'[p]
      /\ seen[d] \subseteq seen'[d]
  BY DEF TypeOK, Grown, GhostsGrown, Rows
<1>2. b \in Entries /\ b.rev \in Nat
  BY DEF EntryOK, Entries
<1>3. b.rev <= head'[p].rev
  BY <1>1, <1>2 DEF EntryOK
<1> QED
  BY <1>1, <1>2, <1>3 DEF EntryOK, Had

LEMMA RoundKept ==
    ASSUME TypeOK, Grown, NEW d \in Devices, NEW p \in Paths, RoundOK(d, p),
           base'[d][p] = base[d][p], remote'[d][p] = remote[d][p],
           scan'[d][p] = scan[d][p],
           plan'[d][p] \in {plan[d][p], "none", "resolve", "sent"},
           got'[d][p] \subseteq got[d][p] \cup {0, head[p].rev}
    PROVE  RoundOK(d, p)'
<1>1. /\ head[p].rev \in Nat /\ head'[p].rev \in Nat /\ head[p].rev <= head'[p].rev
      /\ versions[p] \subseteq versions'[p]
      /\ base[d][p].rev \in Nat /\ got[d][p] \subseteq Nat
  BY DEF TypeOK, Grown, Entries, Rows
<1>2. \A n \in got'[d][p] : n <= head'[p].rev
  BY <1>1 DEF RoundOK
<1>3. plan'[d][p] = "download" => base'[d][p].rev < head'[p].rev
  BY <1>1 DEF RoundOK
<1> QED
  BY <1>1, <1>2, <1>3 DEF RoundOK

LEMMA DeviceKept ==
    ASSUME TypeOK, Grown, GhostsGrown, NEW d \in Devices, NEW p \in Paths, DeviceOK(d, p),
           base'[d][p] = base[d][p], next'[d][p] = next[d][p],
           remote'[d][p] = remote[d][p], scan'[d][p] = scan[d][p],
           plan'[d][p] = plan[d][p], got'[d][p] = got[d][p]
    PROVE  DeviceOK(d, p)'
<1>1. RoundOK(d, p)'
  BY RoundKept DEF DeviceOK
<1>2. EntryOK(d, p, base[d][p]) /\ EntryOK(d, p, next[d][p])
  BY DEF DeviceOK
<1>3. \A x : EntryOK(d, p, x) => EntryOK(d, p, x)'
  BY EntryKept
<1> QED
  BY <1>1, <1>2, <1>3 DEF DeviceOK, EntryOK, Had

LEMMA ViewKept ==
    ASSUME TypeOK, Grown, NEW s \in Views, ViewOK(s)
    PROVE  ViewOK(s)'
<1>1. /\ s.path \in Paths /\ s.rev \in Nat
      /\ head[s.path].rev \in Nat /\ head'[s.path].rev \in Nat
      /\ head[s.path].rev <= head'[s.path].rev
  BY DEF TypeOK, Grown, Rows, Views
<1>2. Served(s.path) \subseteq Served(s.path)'
  BY <1>1, ServedGrows
<1> QED
  BY <1>1, <1>2 DEF ViewOK

LEMMA SeenStep ==
    ASSUME IInv, [Next]_vars
    PROVE  SeenOK'
<1>0. TypeOK /\ Grown /\ GhostsGrown /\ SeenOK
  BY ServerGrows, TypeStep DEF IInv
<1>1. \A d \in Devices : \A s \in seen'[d] : s \in seen[d] \/ d \in misled' \/ ViewOK(s)'
  <2>1. ASSUME NEW d \in Devices, Turn(d)
        PROVE  UNCHANGED seen
    BY <1>0, <2>1, TurnTyped
  <2>2. CASE Outside
    BY <1>0, <2>2, OutsideTyped
  <2>3. ASSUME NEW d \in Devices, NEW p \in Paths, Result(d, p)
        PROVE  <1>1
    BY <2>3 DEF Result
  <2> QED
    BY <1>0, <2>1, <2>2, <2>3, RequestResult, CommitResult, Kinds
<1>2. ASSUME NEW d \in Devices, d \notin misled', NEW s \in seen'[d]
      PROVE  ViewOK(s)'
  <2>1. CASE s \in seen[d]
    <3>1. s \in Views /\ d \notin misled
      BY <1>0, <1>2, <2>1 DEF TypeOK, GhostsGrown
    <3>2. ViewOK(s)
      BY <1>0, <2>1, <3>1 DEF SeenOK
    <3> QED
      BY <1>0, <3>1, <3>2, ViewKept
  <2> QED
    BY <1>1, <1>2, <2>1
<1> QED
  BY <1>2 DEF SeenOK

LEMMA GivenKept ==
    ASSUME Grown, GhostsGrown, NEW d \in Devices, NEW p \in Paths,
           head'[p] = head[p], Given(d, p)
    PROVE  Given(d, p)'
<1>1. seen[d] \subseteq seen'[d] /\ Served(p) \subseteq Served(p)'
  BY ServedGrows DEF GhostsGrown
<1> QED
  BY <1>1 DEF Given

(* A request waits for its answer only if it has changed the workspace,    *)
(* under the baseline's revision and with what the scan found.             *)
LEMMA RequestPuts ==
    ASSUME TypeOK, NEW d \in Devices, NEW p \in Paths, Request(d, p)
    PROVE  \/ \E v \in Values :
                 /\ Change(d, p, v) /\ UNCHANGED <<seen, scan>>
                 /\ head[p].rev = base[d][p].rev
                 /\ v # Gone => v = scan[d][p]
           \/ /\ UNCHANGED <<head, putting>>
              /\ plan'[d][p] = "sent" => plan[d][p] = "sent"
<1> USE DEF server
<1>s. Skip(d, p) => plan'[d][p] # "sent"
  BY SkipTouches
<1>1. CASE Upload(d, p)
  <2>1. CASE Admits(d, p) /\ Change(d, p, file[d][p])
    <3>1. file[d][p] \in Values
      BY DEF TypeOK
    <3> QED
      BY <1>1, <2>1, <3>1 DEF Upload, Doing, Admits
  <2>2. CASE /\ PutAnswered(d, p, Refusal(IF head[p].rev # base[d][p].rev THEN "conflict" ELSE "reject"))
             /\ UNCHANGED server
    BY <2>2, AnswerTyped, PutAnsweredTyped
  <2>3. CASE Skip(d, p) /\ UNCHANGED server
    BY <1>s, <2>3
  <2> QED
    BY <1>1, <2>1, <2>2, <2>3 DEF Upload
<1>2. CASE DeleteRemote(d, p)
  <2>1. CASE head[p].rev = base[d][p].rev /\ Change(d, p, Gone)
    BY <1>2, <2>1 DEF DeleteRemote, Doing, Values
  <2>2. CASE Skip(d, p) /\ UNCHANGED server
    BY <1>s, <2>2
  <2> QED
    BY <1>2, <2>1, <2>2 DEF DeleteRemote
<1>3. CASE DeleteLocal(d, p)
  <2>1. plan'[d][p] = "none"
    BY <1>3, FinishTouches, EntryTyped DEF DeleteLocal
  <2> QED
    BY <1>3, <2>1 DEF DeleteLocal
<1>4. CASE NoConnection(d, p)
  BY <1>s, <1>4 DEF NoConnection
<1>5. CASE Download(d, p) \/ Conflict(d, p)
  <2>1. UNCHANGED server
    BY <1>5 DEF Download, Conflict, Get, Fetch
  <2>2. UNCHANGED plan \/ plan' = [plan EXCEPT ![d][p] = "none"]
    BY <1>5 DEF Download, Conflict, Get, Fetch, Skip, Finish
  <2> QED
    BY <2>1, <2>2 DEF TypeOK
<1> QED
  BY <1>1, <1>2, <1>3, <1>4, <1>5 DEF Request

LEMMA TurnPlans ==
    ASSUME TypeOK, NEW d \in Devices, Turn(d), NEW e \in Devices, NEW p \in Paths,
           plan'[e][p] = "sent"
    PROVE  plan[e][p] = "sent" /\ scan'[e][p] = scan[e][p]
<1>1. CASE UNCHANGED <<plan, scan>>
  BY <1>1
<1>2. CASE EndRound(d)
  BY <1>2 DEF EndRound, TypeOK, PerPath, Idle
<1>3. CASE /\ ScanAndDiff(d)
           /\ scan' = [scan EXCEPT ![d] = Scanned(d)]
           /\ plan' = [plan EXCEPT ![d] =
                 [q \in Paths |-> Decide(base[d][q], Scanned(d)[q], remote[d][q])]]
  <2>1. plan'[d][p] \in Decisions
    BY <1>3, Decided DEF TypeOK
  <2>2. e # d
    BY <2>1 DEF Decisions
  <2> QED
    BY <1>3, <2>2 DEF TypeOK
<1> QED
  BY <1>1, <1>2, <1>3 DEF Turn, Begin, List, ScanAndDiff, Truncate, Save, Disconnect, Kill

LEMMA PutStep ==
    ASSUME IInv, [Next]_vars
    PROVE  PutOK'
<1>0. TypeOK /\ Grown /\ GhostsGrown /\ SeenOK /\ PutOK
  BY ServerGrows, TypeStep DEF IInv
<1> DEFINE Fine(r) ==
      /\ r.to \notin misled' => head'[r.path].rev = 0 \/ Given(r.to, r.path)'
      /\ plan'[r.to][r.path] = "sent" /\ r.val # Gone => scan'[r.to][r.path] = r.val
<1>1. ASSUME NEW r \in putting, UNCHANGED head,
             plan'[r.to][r.path] = "sent" =>
                plan[r.to][r.path] = "sent" /\ scan'[r.to][r.path] = scan[r.to][r.path]
      PROVE  Fine(r)
  <2>1. r.to \in Devices /\ r.path \in Paths
    BY <1>0 DEF TypeOK
  <2>2. r.to \notin misled' => head[r.path].rev = 0 \/ Given(r.to, r.path)
    BY <1>0 DEF PutOK, GhostsGrown
  <2>3. Given(r.to, r.path) => Given(r.to, r.path)'
    BY <1>0, <1>1, <2>1, GivenKept
  <2> QED
    BY <1>0, <1>1, <2>2, <2>3 DEF PutOK
<1> HIDE DEF Fine
<1>2. ASSUME NEW d \in Devices, Turn(d), NEW r \in putting'
      PROVE  Fine(r)
  <2>1. r \in putting /\ UNCHANGED head
    BY <1>0, <1>2, TurnTyped
  <2>2. r.to \in Devices /\ r.path \in Paths
    BY <1>0, <2>1 DEF TypeOK
  <2> QED
    BY <1>0, <1>1, <1>2, <2>1, <2>2, TurnPlans
<1>3. ASSUME NEW d \in Devices, NEW p \in Paths, Request(d, p), NEW r \in putting'
      PROVE  Fine(r)
  <2>1. Result(d, p) /\ UNCHANGED <<base, scan>>
    BY <1>0, <1>3, RequestResult, RequestFrame
  <2>2. CASE /\ UNCHANGED <<head, putting>>
             /\ plan'[d][p] = "sent" => plan[d][p] = "sent"
    <3>1. r \in putting /\ r.to \in Devices /\ r.path \in Paths
      BY <1>0, <2>2 DEF TypeOK
    <3>2. plan'[r.to][r.path] = "sent" => plan[r.to][r.path] = "sent"
      BY <2>1, <2>2, <3>1 DEF Result, Touches
    <3> QED
      BY <1>1, <2>1, <2>2, <3>1, <3>2
  <2>3. ASSUME NEW v \in Values, Change(d, p, v), UNCHANGED <<seen, scan>>,
               head[p].rev = base[d][p].rev, v # Gone => v = scan[d][p]
        PROVE  Fine(r)
    <3>1. r.to = d /\ r.path = p /\ r.val = v /\ UNCHANGED head /\ misled' = misled
      BY <1>3, <2>3 DEF Change, Silent
    <3>2. ASSUME d \notin misled, head[p].rev # 0
          PROVE  Given(d, p)'
      <4>1. Had(d, p, head[p].rev)
        BY <2>3, <3>2 DEF IInv, DeviceOK, EntryOK
      <4>2. Given(d, p)
        BY <1>0, <3>2, <4>1 DEF Had, Given, SeenOK, ViewOK
      <4> QED
        BY <1>0, <3>1, <4>2, GivenKept
    <3> QED
      BY <2>3, <3>1, <3>2 DEF Fine
  <2> QED
    BY <1>0, <1>3, <2>2, <2>3, RequestPuts
<1>4. ASSUME Outside, NEW r \in putting'
      PROVE  Fine(r)
  <2>1. r \in putting /\ UNCHANGED <<head, plan, scan>>
    BY <1>0, <1>4, OutsideTyped
  <2> QED
    BY <1>1, <2>1
<1>5. \A r \in putting' : Fine(r)
  BY <1>0, <1>2, <1>3, <1>4, CommitResult, Kinds
<1> QED
  BY <1>5 DEF PutOK, Fine

LEMMA RequestStep ==
    ASSUME IInv, Grown, GhostsGrown, NEW d \in Devices, NEW p \in Paths, Result(d, p),
           UNCHANGED <<base, remote, scan>>
    PROVE  \A e \in Devices \ misled', q \in Paths : DeviceOK(e, q)'
<1>1. TypeOK /\ Touches(d, p) /\ misled \subseteq misled'
  BY DEF IInv, Result, GhostsGrown
<1>2. ASSUME NEW e \in Devices, NEW q \in Paths, e \notin misled'
      PROVE  DeviceOK(e, q)'
  <2>1. DeviceOK(e, q)
    BY <1>1, <1>2 DEF IInv
  <2>2. CASE e # d \/ q # p
    BY <1>1, <2>1, <2>2, DeviceKept DEF Touches
  <2>3. CASE e = d /\ q = p
    <3>1. RoundOK(d, p)'
      BY <1>1, <2>1, <2>3, RoundKept DEF Touches, DeviceOK
    <3>2. \A x : EntryOK(d, p, x) => EntryOK(d, p, x)'
      BY <1>1, EntryKept
    <3>3. EntryOK(d, p, base[d][p])'
      BY <2>1, <2>3, <3>2 DEF DeviceOK, EntryOK, Had
    <3>4. EntryOK(d, p, next[d][p])'
      BY <1>2, <2>1, <2>3, <3>2 DEF Result, DeviceOK, EntryOK, Had
    <3> QED
      BY <2>3, <3>1, <3>3, <3>4 DEF DeviceOK
  <2> QED
    BY <2>2, <2>3
<1> QED
  BY <1>2

(* The decisions of a round are as good as its manifest and its scan. *)
LEMMA DecisionOK ==
    ASSUME TypeOK, StoreOK, NEW d \in Devices, NEW p \in Paths, DeviceOK(d, p),
           NEW v \in Values, NEW decision, NEW r, r = remote[d][p],
           decision = Decide(base[d][p], v, r)
    PROVE  /\ decision = "download" =>
                 base[d][p].rev < head[p].rev /\ v \in {Gone, base[d][p].val}
           /\ decision = "delete_local" =>
                 /\ v = base[d][p].val
                 /\ \E ver \in versions[p] : ver.val = Gone /\ ver.rev > base[d][p].rev
<1>1. PICK b \in Entries : b = base[d][p]
  BY DEF TypeOK
<1>2. /\ b.rev \in Nat /\ b.val \in Values \cup {NoSha} /\ head[p].rev \in Nat
      /\ r \in Rows /\ r.rev \in Nat /\ r.val \in Values
      /\ b = Row(b.rev, b.val)
      /\ r = Row(r.rev, r.val)
  BY <1>1 DEF TypeOK, Entries, Rows, Row
<1>3. /\ b.rev = 0 => b = NoEntry
      /\ b.rev # 0 /\ b.val # NoSha => b \in versions[p]
      /\ r.rev # 0 => r \in versions[p] /\ b.rev <= r.rev
  BY <1>1, <1>2 DEF DeviceOK, EntryOK, RoundOK
<1>4. r.rev # 0 => r.rev <= head[p].rev
  BY <1>3 DEF StoreOK
<1>5. NoEntry.rev = 0 /\ NoEntry.val = Gone /\ NoSha # v
  BY ShaAssumption, EntryTyped
<1>6. ASSUME decision = "download"
      PROVE  b.rev < head[p].rev /\ v \in {Gone, b.val}
  <2>1. CASE v = Gone /\ b = NoEntry /\ r.rev # 0
    BY <1>2, <1>4, <1>5, <2>1
  <2>2. CASE v # Gone /\ v = b.val /\ ServerAdvanced(b, r) /\ r.val # Gone
    <3>1. r.rev # 0 /\ r.rev # b.rev
      BY <2>2 DEF ServerAdvanced
    <3> QED
      BY <1>2, <1>3, <1>4, <2>2, <3>1
  <2> QED
    BY <1>1, <1>6, <2>1, <2>2 DEF Decide, LocalState
<1>7. ASSUME decision = "delete_local"
      PROVE  /\ v = b.val
             /\ \E ver \in versions[p] : ver.val = Gone /\ ver.rev > b.rev
  <2>1. v # Gone /\ v = b.val /\ ServerAdvanced(b, r) /\ r.val = Gone
    BY <1>1, <1>7 DEF Decide, LocalState
  <2>2. r.rev # 0 /\ r \in versions[p] /\ b.rev <= r.rev
    BY <1>3, <2>1 DEF ServerAdvanced
  <2>3. b.rev # 0 /\ b.val # NoSha
    BY <1>3, <1>5, <2>1
  <2>4. r.rev # b.rev
    BY <1>3, <2>1, <2>2, <2>3 DEF StoreOK
  <2> QED
    BY <1>2, <2>1, <2>2, <2>4
<1> QED
  BY <1>1, <1>6, <1>7

(* A round without manifest, decisions and answers owes nothing. *)
LEMMA EndedOK ==
    ASSUME TypeOK, Grown, NEW d \in Devices, NEW p \in Paths, EndRound(d)
    PROVE  EntryOK(d, p, next[d][p])' /\ RoundOK(d, p)'
<1>1. /\ next'[d][p] = NoEntry /\ remote'[d][p] = NoEntry /\ got'[d][p] = {}
      /\ plan'[d][p] = "none"
  BY DEF EndRound, TypeOK, PerPath, Idle
<1>2. RoundOK(d, p)'
  BY <1>1, EntryTyped DEF RoundOK
<1>3. EntryOK(d, p, NoEntry)'
  BY NoEntryOK
<1> QED
  BY <1>1, <1>2, <1>3 DEF EntryOK, Had

LEMMA TurnStep ==
    ASSUME IInv, Grown, GhostsGrown, NEW d \in Devices, Turn(d)
    PROVE  \A e \in Devices \ misled', q \in Paths : DeviceOK(e, q)'
<1>0. TypeOK /\ StoreOK /\ UNCHANGED <<seen, misled>>
  BY TurnTyped DEF IInv
<1>1. ASSUME NEW e \in Devices, NEW q \in Paths, e \notin misled, e # d
      PROVE  DeviceOK(e, q)'
  <2>1. /\ base'[e] = base[e] /\ next'[e] = next[e] /\ remote'[e] = remote[e]
        /\ scan'[e] = scan[e] /\ plan'[e] = plan[e] /\ got'[e] = got[e]
    BY <1>0, <1>1 DEF TypeOK, Turn, Begin, List, ScanAndDiff, Truncate, Save, Disconnect,
                      Kill, EndRound, disk
  <2>2. DeviceOK(e, q)
    BY <1>1 DEF IInv
  <2> QED
    BY <1>0, <2>1, <2>2, DeviceKept
<1>2. ASSUME NEW p \in Paths, d \notin misled
      PROVE  DeviceOK(d, p)'
  <2>0. DeviceOK(d, p)
    BY <1>2 DEF IInv
  <2>k. \A x : EntryOK(d, p, x) => EntryOK(d, p, x)'
    BY <1>0, EntryKept
  <2>b. UNCHANGED base => EntryOK(d, p, base[d][p])'
    BY <2>0, <2>k DEF DeviceOK, EntryOK, Had
  <2>1. CASE Begin(d) \/ Truncate(d) \/ Disconnect(d)
    <3>1. UNCHANGED <<base, remote, scan, plan, got, next>>
      BY <2>1 DEF Begin, Truncate, Disconnect, disk
    <3> QED
      BY <1>0, <2>0, <3>1, DeviceKept
  <2>2. CASE List(d) /\ ~ EndRound(d)
    <3>1. /\ UNCHANGED <<server, base, scan, plan, got, next>>
          /\ \/ remote' = [remote EXCEPT ![d] = head]
             \/ remote' = [remote EXCEPT ![d] = PerPath(NoEntry)]
      BY <2>2 DEF List, disk
    <3>2. /\ base[d][p].rev \in Nat /\ head[p].rev \in Nat
          /\ base[d][p].rev <= head[p].rev /\ head[p] \in versions[p]
      BY <1>0, <2>0 DEF DeviceOK, EntryOK, TypeOK, Entries, Rows, StoreOK
    <3>3. remote'[d][p] = head[p] \/ remote'[d][p].rev = 0
      BY <1>0, <3>1, EntryTyped DEF TypeOK, PerPath
    <3>4. RoundOK(d, p)'
      BY <1>0, <2>0, <3>1, <3>2, <3>3 DEF DeviceOK, RoundOK, server
    <3>5. EntryOK(d, p, next[d][p])'
      BY <2>0, <2>k, <3>1 DEF DeviceOK, EntryOK, Had
    <3> QED
      BY <2>b, <3>1, <3>4, <3>5 DEF DeviceOK
  <2>3. CASE ScanAndDiff(d) /\ ~ LoadFails(d)
    <3>1. /\ plan' = [plan EXCEPT ![d] =
                  [q \in Paths |-> Decide(base[d][q], Scanned(d)[q], remote[d][q])]]
          /\ scan' = [scan EXCEPT ![d] = Scanned(d)]
          /\ next' = [next EXCEPT ![d] =
                  [q \in Paths |-> KeptBaseline(base[d][q], Scanned(d)[q])]]
          /\ UNCHANGED <<server, base, remote, got>>
      BY <2>3 DEF ScanAndDiff, disk
    <3>2. /\ plan'[d][p] = Decide(base[d][p], scan'[d][p], remote[d][p])
          /\ scan'[d][p] \in Values
          /\ next'[d][p] \in {base[d][p], NoEntry}
      BY <1>0, <3>1 DEF TypeOK, Scanned, KeptBaseline
    <3>3. /\ plan'[d][p] = "download" =>
                base[d][p].rev < head[p].rev /\ scan'[d][p] \in {Gone, base[d][p].val}
          /\ plan'[d][p] = "delete_local" =>
                /\ scan'[d][p] = base[d][p].val
                /\ \E ver \in versions[p] : ver.val = Gone /\ ver.rev > base[d][p].rev
      BY <1>0, <2>0, <3>2, DecisionOK
    <3>4. RoundOK(d, p)'
      BY <1>0, <2>0, <3>1, <3>3 DEF DeviceOK, RoundOK, server
    <3>5. EntryOK(d, p, next[d][p])'
      <4>1. EntryOK(d, p, base[d][p])' /\ EntryOK(d, p, NoEntry)'
        BY <1>0, <2>b, <3>1, NoEntryOK
      <4> QED
        BY <3>1, <3>2, <4>1 DEF EntryOK, Had
    <3> QED
      BY <2>b, <3>1, <3>4, <3>5 DEF DeviceOK
  <2>4. CASE EndRound(d) /\ UNCHANGED base
    BY <1>0, <2>b, <2>4, EndedOK DEF DeviceOK
  <2>5. CASE Save(d)
    <3>1. base'[d][p] = next[d][p] /\ EndRound(d)
      BY <1>0, <2>5 DEF Save, TypeOK
    <3>2. EntryOK(d, p, base[d][p])'
      BY <2>0, <2>k, <3>1 DEF DeviceOK, EntryOK, Had
    <3> QED
      BY <1>0, <3>1, <3>2, EndedOK DEF DeviceOK
  <2>6. \/ Begin(d) \/ Truncate(d) \/ Disconnect(d)
        \/ (List(d) /\ ~ EndRound(d)) \/ (ScanAndDiff(d) /\ ~ LoadFails(d))
        \/ (EndRound(d) /\ UNCHANGED base) \/ Save(d)
    BY DEF Turn, List, ScanAndDiff, Kill, disk
  <2> QED
    BY <2>1, <2>2, <2>3, <2>4, <2>5, <2>6
<1> QED
  BY <1>0, <1>1, <1>2

LEMMA Initial == Init => IInv
<1> SUFFICES ASSUME Init PROVE IInv
  OBVIOUS
<1> USE DEF Init, PerPath
<1>1. Gone \in Values /\ Row(0, Gone) = NoEntry /\ <<>> \in Seq(Answers)
  BY DEF Values, NoEntry, Entry, Row
<1>2. TypeOK
  <2>1. RoundTyped
    BY <1>1, EntryTyped, PlanNames DEF RoundTyped, Idle
  <2> QED
    BY <1>1, <2>1, EntryTyped DEF TypeOK, RoundTyped
<1>3. StoreOK
  BY <1>1, EntryTyped DEF StoreOK, Served
<1>4. SeenOK /\ PutOK
  BY DEF SeenOK, PutOK
<1>5. ASSUME NEW d \in Devices, NEW p \in Paths
      PROVE  DeviceOK(d, p)
  <2>1. /\ base[d][p] = NoEntry /\ next[d][p] = NoEntry /\ remote[d][p] = NoEntry
        /\ plan[d][p] = "none" /\ got[d][p] = {} /\ head[p].rev = 0
    BY EntryTyped DEF Idle
  <2> QED
    BY <2>1, EntryTyped DEF DeviceOK, EntryOK, RoundOK
<1> QED
  BY <1>2, <1>3, <1>4, <1>5 DEF IInv

LEMMA Inductive == IInv /\ [Next]_vars => IInv'
<1> SUFFICES ASSUME IInv, [Next]_vars PROVE IInv'
  OBVIOUS
<1> DEFINE Good == \A e \in Devices \ misled', q \in Paths : DeviceOK(e, q)'
<1>1. TypeOK' /\ StoreOK' /\ SeenOK' /\ PutOK' /\ Grown /\ GhostsGrown
  BY TypeStep, ServerGrows, SeenStep, PutStep DEF IInv, Grown
<1>2. ASSUME NEW d \in Devices, Turn(d)
      PROVE  Good
  BY <1>1, <1>2, TurnStep
<1>3. ASSUME NEW d \in Devices, NEW p \in Paths, Request(d, p)
      PROVE  Good
  BY <1>1, <1>3, RequestResult, RequestFrame, RequestStep
<1>4. ASSUME Commit
      PROVE  Good
  BY <1>1, <1>4, CommitResult, RequestStep
<1>5. ASSUME Outside
      PROVE  Good
  <2>1. UNCHANGED <<base, remote, scan, plan, got, next, misled>>
    BY <1>5, OutsideTyped DEF IInv
  <2> QED
    BY <1>1, <2>1, DeviceKept DEF IInv
<1>6. Good
  <2> HIDE DEF Good
  <2> QED
    BY <1>2, <1>3, <1>4, <1>5, Kinds
<1> QED
  BY <1>1, <1>6 DEF IInv

LEMMA Invariance == Spec => []IInv
BY Initial, Inductive, PTL DEF Spec

(* The variables of the clients and of their server keep their types, for  *)
(* any devices, paths, contents, edits and faults.                         *)
THEOREM TypeCorrect == Spec => []TypeOK
<1>1. IInv => TypeOK
  BY DEF IInv
<1> QED
  BY <1>1, Invariance, PTL

-----------------------------------------------------------------------------
(* An entry of a device's index.json has the digest of the very version it *)
(* is filed under, whatever breaks off, unless the device took an answer   *)
(* that was left unread for the one to its request.                        *)
THEOREM BaselineIsVersion == Spec => []BaselineMatchesVersion
<1>1. IInv => BaselineMatchesVersion
  <2>1. \A e \in Entries : Row(e.rev, e.val) = e
    BY DEF Row, Entries
  <2> QED
    BY <2>1 DEF IInv, DeviceOK, EntryOK, BaselineMatchesVersion
<1> QED
  BY <1>1, Invariance, PTL

-----------------------------------------------------------------------------
(* What a client uploads or deletes replaces a version its user was given, *)
(* or stands for: something a get handed out under its number.             *)
THEOREM NoBlindOverwriteHolds == Spec => NoBlindOverwrite
<1>1. IInv /\ [Next]_vars =>
        [\A r \in putting :
            head'[r.path] # head[r.path] /\ head[r.path].rev # 0 /\ r.to \notin misled
                => Given(r.to, r.path)]_vars
  BY DEF IInv, PutOK
<1> QED
  BY <1>1, Invariance, PTL DEF Spec, NoBlindOverwrite

-----------------------------------------------------------------------------
(* The two steps of a round that touch a file are a download and a local   *)
(* deletion: what they bring is newer than the baseline, and they were     *)
(* decided on a file that the scan found as the baseline says.             *)
LEMMA FileStep ==
    ASSUME IInv, [Next]_vars, NEW d \in Devices, NEW p \in Paths, d \notin misled',
           SyncStep, file'[d][p] # file[d][p]
    PROVE  /\ DeviceOK(d, p)
           /\ scan[d][p] \in {Gone, base[d][p].val}
           /\ \E s \in Served(p) : s.val = file'[d][p] /\ s.rev > base[d][p].rev
<1>0. TypeOK /\ StoreOK /\ Grown /\ DeviceOK(d, p) /\ RoundOK(d, p)
  <2>1. Grown /\ GhostsGrown
    BY ServerGrows, TypeStep DEF IInv
  <2> QED
    BY <2>1 DEF IInv, GhostsGrown, DeviceOK
<1>1. ~ Outside
  BY <1>0, OutsideTyped DEF SyncStep
<1>2. ~ \E e \in Devices : Turn(e)
  BY <1>0, TurnTyped
<1>3. ~ Commit
  BY CommitResult, <1>0
<1>4. PICK e \in Devices, q \in Paths : Request(e, q)
  BY <1>1, <1>2, <1>3, Kinds
<1>5. ASSUME UNCHANGED file
      PROVE  FALSE
  BY <1>5
<1>6. CASE Upload(e, q) \/ DeleteRemote(e, q) \/ NoConnection(e, q) \/ Conflict(e, q)
  <2>1. (IF scan[e][q] = Gone THEN "kept" ELSE "copy") # "file"
    OBVIOUS
  <2>2. ASSUME NEW what, NEW how, how # "file", Fetch(e, q, what, how)
        PROVE  UNCHANGED file
    BY <2>2 DEF Fetch
  <2> QED
    BY <1>5, <1>6, <2>1, <2>2 DEF Upload, DeleteRemote, NoConnection, Conflict, Get
<1>7. CASE DeleteLocal(e, q)
  <2>1. e = d /\ q = p /\ file'[d][p] = Gone /\ plan[d][p] = "delete_local"
    BY <1>0, <1>7 DEF DeleteLocal, Doing, TypeOK
  <2> QED
    BY <1>0, <2>1 DEF RoundOK, Served
<1>8. CASE Download(e, q)
  <2>1. Fetch(e, q, "download", "file")
    BY <1>5, <1>8 DEF Download, Get
  <2>2. PICK n \in got[e][q] :
           LET found == n # 0 /\ work[q] # Gone
               answers == IF found THEN <<File(n), Bytes(work[q])>> ELSE <<Refusal("reject")>>
           IN  \/ /\ Head(Queue(e, answers)).op = "file"
                  /\ Takes(e, answers, 2)
                  /\ WriteLocal(e, q, Queue(e, answers)[2].val)
               \/ UNCHANGED file
    BY <2>1 DEF Fetch
  <2> DEFINE found == n # 0 /\ work[q] # Gone
             answers == IF found THEN <<File(n), Bytes(work[q])>> ELSE <<Refusal("reject")>>
  <2>3. /\ Head(Queue(e, answers)).op = "file"
        /\ Takes(e, answers, 2)
        /\ WriteLocal(e, q, Queue(e, answers)[2].val)
    BY <1>5, <2>2
  <2>4. e = d /\ q = p /\ file'[d][p] = Queue(e, answers)[2].val
    <3>1. file' = [file EXCEPT ![e][q] = Queue(e, answers)[2].val]
      BY <2>3 DEF WriteLocal
    <3> HIDE DEF answers
    <3> QED
      BY <1>0, <3>1 DEF TypeOK
  <2>5. wire[e] = <<>>
    BY <1>0, <2>3, <2>4 DEF Takes, TypeOK
  <2>6. Queue(e, answers) = answers
    <3>1. n \in Nat /\ work[q] \in Values
      BY <1>0 DEF TypeOK
    <3>2. answers \in Seq(Answers) /\ answers # <<>>
      BY <3>1, AnswerTyped
    <3> HIDE DEF answers
    <3> QED
      BY <1>0, <2>5, <3>2, QueueTyped
  <2>7. file'[d][p] = work[p]
    <3>1. found
      BY <2>3, <2>6, AnswerTyped
    <3>2. answers[2] = Bytes(work[q])
      BY <3>1
    <3>3. Bytes(work[q]).val = work[q]
      BY DEF Bytes
    <3> QED
      BY <2>4, <2>6, <3>2, <3>3
  <2>8. plan[d][p] = "download"
    BY <2>1, <2>4 DEF Fetch, Doing
  <2>9. /\ Row(head[p].rev, work[p]) \in Served(p)
        /\ Row(head[p].rev, work[p]).val = work[p]
        /\ Row(head[p].rev, work[p]).rev = head[p].rev
    BY <1>0 DEF StoreOK, Row
  <2>10. scan[d][p] \in {Gone, base[d][p].val} /\ base[d][p].rev < head[p].rev
    BY <1>0, <2>8 DEF RoundOK
  <2>11. base[d][p].rev \in Nat /\ head[p].rev \in Nat
    <3>1. base[d][p] \in Entries /\ head[p] \in Rows
      BY <1>0 DEF TypeOK
    <3> QED
      BY <3>1 DEF Entries, Rows
  <2>12. \E s \in Served(p) : s.val = file'[d][p] /\ s.rev > base[d][p].rev
    BY <2>7, <2>9, <2>10, <2>11
  <2> QED
    BY <1>0, <2>10, <2>12
<1> QED
  BY <1>4, <1>6, <1>7, <1>8 DEF Request

(* A file that its user changed before the scan is not replaced or removed *)
(* by the round, unless its content is a version.                          *)
THEOREM LocalEditsSurviveHolds == Spec => LocalEditsSurvive
<1> DEFINE Survives ==
      \A d \in Devices \ misled', p \in Paths :
          SyncStep /\ file'[d][p] # file[d][p] /\ file[d][p] = scan[d][p] /\ file[d][p] # Gone
              => \E ver \in versions[p] : ver.val = file[d][p]
<1>1. ASSUME IInv, [Next]_vars, NEW d \in Devices \ misled', NEW p \in Paths,
             SyncStep, file'[d][p] # file[d][p], file[d][p] = scan[d][p], file[d][p] # Gone
      PROVE  \E ver \in versions[p] : ver.val = file[d][p]
  <2>1. DeviceOK(d, p) /\ file[d][p] = base[d][p].val
    BY <1>1, FileStep
  <2>2. file[d][p] \in Values
    BY <1>1 DEF IInv, TypeOK
  <2>3. base[d][p].rev # 0 /\ base[d][p].val # NoSha
    BY <1>1, <2>1, <2>2, EntryTyped DEF DeviceOK, EntryOK
  <2>4. Row(base[d][p].rev, base[d][p].val) \in versions[p]
    BY <2>1, <2>3 DEF DeviceOK, EntryOK
  <2> QED
    BY <2>1, <2>4 DEF Row
<1>2. IInv /\ [Next]_vars => [Survives]_vars
  BY <1>1
<1> QED
  BY <1>2, Invariance, PTL DEF Spec, LocalEditsSurvive

(* What a client writes, or the deletion it applies, is newer than its     *)
(* baseline, unless the device is misled.                                  *)
THEOREM NoRollbackHolds == Spec => NoRollback
<1> DEFINE Newer ==
      \A d \in Devices \ misled', p \in Paths :
          SyncStep /\ file'[d][p] # file[d][p]
              => \E s \in Served(p) : s.val = file'[d][p] /\ s.rev > base[d][p].rev
<1>1. IInv /\ [Next]_vars => [Newer]_vars
  BY FileStep
<1> QED
  BY <1>1, Invariance, PTL DEF Spec, NoRollback
=============================================================================
