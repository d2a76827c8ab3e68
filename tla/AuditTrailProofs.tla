-------------------------- MODULE AuditTrailProofs --------------------------
(***************************************************************************)
(* A package that verifies is complete, and a finalize that returned       *)
(* leaves one that verifies, for every set of artifacts, every call and    *)
(* every number of failures.                                               *)
(***************************************************************************)
EXTENDS AuditTrail, SequenceTheorems, TLAPS

Line == Event \cup {Torn}

\* The line after the first n lines of s is the next link of their chain.
Links(s, n, line) ==
  /\ line # Torn
  /\ line.seq = (IF n = 0 THEN 1 ELSE s[n].seq + 1)
  /\ line.prev = (IF n = 0 THEN None ELSE s[n].id)

\* The acknowledged events are a chain, which the writer continues.
Acknowledged ==
  /\ \A i \in 1 .. Len(acked) : acked[i].seq = i /\ Links(acked, i - 1, acked[i])
  /\ writer.seq = Len(acked) /\ writer.seq <= contents
  /\ writer.hash = IF acked = <<>> THEN None ELSE acked[Len(acked)].id

\* The log cannot become a chain again, whatever is appended to it.
Broken == \E i \in 1 .. Len(log) : ~Links(log, i - 1, log[i])

\* The log is the acknowledged events, these and one line of a failed append,
\* broken, or removed.
Logged ==
  /\ ~soiled /\ ~deleted => log = acked /\ ~unended
  /\ \/ log = acked /\ ~unended
     \/ Len(log) = Len(acked) + 1 /\ \A i \in 1 .. Len(acked) : log[i] = acked[i]
     \/ Broken
     \/ ~running /\ log = <<>>

\* Retention gets at the directory of a run that is over.
Retained ==
  running => ~expired /\ retention = "idle" /\ ~deleted

\* A manifest is written last, after the event with its outcome, and never when
\* the log ends with the line of a failed append.
Planned ==
  \A i \in 1 .. Len(todo) : todo[i].op = "manifest" =>
    /\ i = Len(todo)
    /\ phase = "finalizing"
    /\ IF i = 1 THEN /\ acked # <<>> /\ acked[Len(acked)].outcome = todo[1].status
                     /\ log = acked \/ Broken
       ELSE todo[i - 1] = [op |-> "append", outcome |-> todo[i].status]

\* What a manifest says of the log: no line of it was acknowledged or is left
\* to the future, unless the log is broken or gone.
Sealed ==
  manifest # None =>
    /\ running => Len(manifest.digests.log) <= Len(log)
    /\ manifest.digests.log = log =>
         \/ /\ log = acked /\ acked # <<>>
            /\ manifest.status = acked[Len(acked)].outcome
         \/ Broken
         \/ log = <<>>

\* Artifacts are never older than the last one that was acknowledged.
NoOlder(f) == \A n \in Names : kept[n] # None => f[n] # None /\ f[n] >= kept[n]
Kept ==
  /\ \A n \in Names : kept[n] # None => kept[n] <= contents
  /\ ~deleted => NoOlder(files)

\* After finalize has returned, the run does nothing more.
Finalized ==
  phase = "finalized" =>
    /\ todo = <<>>
    /\ acked # <<>>
    /\ manifest # None => NoOlder(manifest.digests.files)
    /\ ~deleted => manifest # None /\ manifest.digests = Digests

IInv ==
  /\ TypeOK
  /\ Acknowledged
  /\ Logged
  /\ Retained
  /\ Planned
  /\ Sealed
  /\ Kept
  /\ Finalized

-----------------------------------------------------------------------------
(* Calls and the chain.                                                    *)

\* A call's writes are a sequence of operations, one for each name.
LEMMA WritesAreOperations ==
  ASSUME NEW names \in Seq(Names)
  PROVE  /\ Writes(names) \in Seq(Operations)
         /\ Len(Writes(names)) = Len(names)
         /\ \A i \in 1 .. Len(names) : Writes(names)[i].op = "write"
<1>1. Len(names) \in Nat /\ DOMAIN names = 1 .. Len(names)
  BY LenProperties
<1>2. \A i \in 1 .. Len(names) : names[i] \in Names
  BY ElementOfSeq
<1>3. Writes(names) \in [1 .. Len(names) -> Operations]
  BY <1>1, <1>2 DEF Writes, Operations
<1>4. Writes(names) \in Seq(Operations)
  BY <1>1, <1>3, SeqDef
<1>5. Len(Writes(names)) = Len(names)
  BY <1>1, <1>3, <1>4, LenProperties
<1> QED BY <1>1, <1>4, <1>5 DEF Writes

\* What is left of a call after its first operation.
LEMMA TailOfTodo ==
  ASSUME TypeOK, todo # <<>>
  PROVE  /\ Head(todo) \in Operations /\ Head(todo) = todo[1]
         /\ Len(todo) \in Nat \ {0}
         /\ Tail(todo) \in Seq(Operations)
         /\ Len(Tail(todo)) = Len(todo) - 1
         /\ \A i \in 1 .. Len(Tail(todo)) : Tail(todo)[i] = todo[i + 1]
<1>1. todo \in Seq(Operations)
  BY DEF TypeOK
<1> QED BY <1>1, HeadTailProperties, EmptySeq

\* The readers' chain is the links of the log.
LEMMA ChainIsLinks ==
  ASSUME TypeOK
  PROVE  ChainHolds <=> log # <<>> /\ ~Broken
<1>1. DOMAIN log = 1 .. Len(log) /\ Len(log) \in Nat
  BY LenProperties DEF TypeOK
<1> QED BY <1>1 DEF ChainHolds, Broken, Links

-----------------------------------------------------------------------------
(* The actions.                                                            *)

LEMMA InitInv == Init => IInv
<1> SUFFICES ASSUME Init PROVE IInv
  OBVIOUS
<1>1. TypeOK
  <2>1. log \in Seq(Event \cup {Torn}) /\ todo \in Seq(Operations) /\ acked \in Seq(Event)
    BY EmptySeq DEF Init
  <2>2. /\ files \in [Names -> 1 .. MaxContents \cup {None}]
        /\ kept \in [Names -> 1 .. MaxContents \cup {None}]
        /\ writer \in [seq : 0 .. MaxContents, hash : 1 .. MaxContents \cup {None}]
        /\ contents \in 0 .. MaxContents
    BY TrailAssumption DEF Init
  <2> QED BY <2>1, <2>2 DEF Init, TypeOK
<1>2. Len(acked) = 0 /\ Len(todo) = 0
  BY EmptySeq DEF Init
<1> QED BY <1>1, <1>2 DEF Init, IInv, Acknowledged, Logged, Retained, Planned, Sealed, Kept,
             NoOlder, Finalized

LEMMA RecordInv ==
  ASSUME IInv, NEW names \in Records, Record(names)
  PROVE  IInv'
<1>1. names \in Seq(Names)
  BY TrailAssumption
<1> DEFINE a == [op |-> "append", outcome |-> None]
<1>2. todo' = Writes(names) \o <<a>> /\ <<a>> \in Seq(Operations)
  BY DEF Record, Operations
<1>3. todo' \in Seq(Operations) /\ Len(todo') = Len(names) + 1
  BY <1>1, <1>2, WritesAreOperations, ConcatProperties
<1>4. \A i \in 1 .. Len(todo') : todo'[i].op # "manifest"
  BY <1>1, <1>2, <1>3, WritesAreOperations, ConcatProperties, LenProperties
<1>5. TypeOK'
  BY <1>3 DEF Record, IInv, TypeOK, io
<1>6. Planned'
  BY <1>4 DEF Planned
<1>7. Finalized'
  BY DEF Record, IInv, Finalized, io
<1> QED BY <1>5, <1>6, <1>7 DEF Record, IInv, io, Acknowledged, Logged, Broken, Retained,
             Sealed, Kept, NoOlder

LEMMA FinalizeInv ==
  ASSUME IInv, NEW names \in Reports, NEW status \in Statuses, Finalize(names, status)
  PROVE  IInv'
<1>1. names \in Seq(Names)
  BY TrailAssumption
<1> DEFINE a == [op |-> "append", outcome |-> status]
           m == [op |-> "manifest", status |-> status]
           n == Len(names)
<1>2. todo' = Writes(names) \o <<a, m>> /\ <<a, m>> \in Seq(Operations)
  BY DEF Finalize, Operations
<1>3. n \in Nat
  BY <1>1, LenProperties
<1>4. todo' \in Seq(Operations) /\ Len(todo') = n + 2
  BY <1>1, <1>2, WritesAreOperations, ConcatProperties
<1>5. /\ \A i \in 1 .. n : todo'[i].op = "write"
      /\ todo'[n + 1] = a
      /\ todo'[n + 2] = m
  BY <1>1, <1>2, <1>3, WritesAreOperations, ConcatProperties
<1>6. TypeOK'
  BY <1>4 DEF Finalize, IInv, TypeOK, io
<1>7. Planned'
  BY <1>3, <1>4, <1>5 DEF Finalize, Planned
<1>8. Finalized'
  BY DEF Finalize, Finalized
<1> QED BY <1>6, <1>7, <1>8 DEF Finalize, IInv, io, Acknowledged, Logged, Broken, Retained,
             Sealed, Kept, NoOlder

\* While an operation is left, the process runs, finalize has not returned and
\* retention is far away.
LEMMA UnderWay ==
  ASSUME IInv, todo # <<>>
  PROVE  /\ running /\ ~deleted /\ ~expired /\ retention = "idle"
         /\ phase # "finalized"
  BY DEF IInv, TypeOK, Retained, Finalized

\* In what is left after the first operation, a manifest comes last, and the
\* event before it may have been that first operation.
LEMMA ManifestIsLast ==
  ASSUME IInv, todo # <<>>
  PROVE  \A i \in 1 .. Len(Tail(todo)) : Tail(todo)[i].op = "manifest" =>
           /\ i = Len(Tail(todo))
           /\ phase = "finalizing"
           /\ todo[i] = [op |-> "append", outcome |-> Tail(todo)[i].status]
           /\ i # 1 => Tail(todo)[i - 1] = todo[i]
<1> SUFFICES ASSUME NEW i \in 1 .. Len(Tail(todo)), Tail(todo)[i].op = "manifest"
             PROVE  /\ i = Len(Tail(todo))
                    /\ phase = "finalizing"
                    /\ todo[i] = [op |-> "append", outcome |-> Tail(todo)[i].status]
                    /\ i # 1 => Tail(todo)[i - 1] = todo[i]
  OBVIOUS
<1> DEFINE rest == Tail(todo)
<1>1. /\ Len(rest) \in Nat /\ Len(todo) = Len(rest) + 1
      /\ \A j \in 1 .. Len(rest) : rest[j] = todo[j + 1]
  BY TailOfTodo DEF IInv
<1>0. i \in 1 .. Len(rest)
  OBVIOUS
<1> HIDE DEF rest
<1>2. PICK j \in 1 .. Len(todo) : j = i + 1 /\ j - 1 = i /\ j # 1
  BY <1>0, <1>1
<1>3. todo[j].op = "manifest" /\ rest[i] = todo[j]
  BY <1>1, <1>2 DEF rest
<1>4. /\ j = Len(todo)
      /\ phase = "finalizing"
      /\ todo[i] = [op |-> "append", outcome |-> todo[j].status]
  BY <1>2, <1>3 DEF IInv, Planned
<1>5. i # 1 => rest[i - 1] = todo[i]
  <2> HAVE i # 1
  <2>1. i - 1 \in 1 .. Len(rest) /\ (i - 1) + 1 = i
    BY <1>0, <1>1
  <2> QED BY <1>1, <2>1
<1>6. i = Len(rest)
  <2>1. j = Len(todo) /\ Len(todo) = Len(rest) + 1 /\ j = i + 1
    BY <1>1, <1>2, <1>4
  <2> QED BY <1>0, <1>1, <2>1
<1> QED BY <1>3, <1>4, <1>5, <1>6 DEF rest

LEMMA WriteTextInv ==
  ASSUME IInv, NEW end \in Ends, NEW replaced \in BOOLEAN, WriteText(end, replaced)
  PROVE  IInv'
<1> DEFINE name == Head(todo).name
<1>1. todo # <<>> /\ Head(todo).op = "write" /\ contents < MaxContents
  BY DEF WriteText
<1>2. /\ running /\ ~deleted /\ ~expired /\ retention = "idle"
      /\ phase # "finalized"
  BY <1>1, UnderWay
<1>3. TypeOK
  BY DEF IInv
<1>4. name \in Names
  BY <1>1, <1>3, TailOfTodo DEF Operations
<1>5. todo' \in Seq(Operations) /\ (running' \/ todo' = <<>>)
  BY <1>1, <1>3, TailOfTodo, EmptySeq DEF WriteText, Continue, Ends
<1>6. contents' = contents + 1 /\ contents' \in 1 .. MaxContents
  BY <1>1, <1>3, TrailAssumption DEF WriteText, TypeOK
<1>7. TypeOK'
  <2>1. files' \in [Names -> 1 .. MaxContents \cup {None}]
    BY <1>3, <1>4, <1>6 DEF WriteText, TypeOK
  <2>2. kept' \in [Names -> 1 .. MaxContents \cup {None}]
    BY <1>3, <1>4, <1>6 DEF WriteText, TypeOK
  <2>3. temps' \subseteq Names \cup {"manifest"}
    BY <1>3, <1>4 DEF WriteText, TypeOK, Leftovers
  <2>4. contents' \in 0 .. MaxContents /\ running' \in BOOLEAN
    BY <1>6 DEF WriteText, Continue
  <2> QED BY <1>3, <1>5, <2>1, <2>2, <2>3, <2>4 DEF WriteText, TypeOK
<1>8. Planned'
  <2>1. CASE end = "returns"
    <3>1. todo' = Tail(todo) /\ UNCHANGED <<phase, acked, log>>
      BY <2>1 DEF WriteText, Continue
    <3>2. todo[1].op = "write"
      BY <1>1, <1>3, TailOfTodo
    <3>3. \A i \in 1 .. Len(todo') : todo'[i].op = "manifest" =>
            /\ i = Len(todo') /\ phase' = "finalizing" /\ i # 1
            /\ todo'[i - 1] = [op |-> "append", outcome |-> todo'[i].status]
      <4> TAKE i \in 1 .. Len(todo')
      <4> HAVE todo'[i].op = "manifest"
      <4>1. /\ i = Len(todo') /\ phase = "finalizing"
            /\ todo[i] = [op |-> "append", outcome |-> todo'[i].status]
            /\ i # 1 => todo'[i - 1] = todo[i]
        BY <1>1, <3>1, ManifestIsLast
      <4>2. i # 1
        BY <3>2, <4>1
      <4> QED BY <3>1, <4>1, <4>2
    <3> QED BY <3>3 DEF Planned
  <2>2. CASE end # "returns"
    BY <2>2, EmptySeq DEF WriteText, Continue, Planned
  <2> QED BY <2>1, <2>2
<1>9. Kept'
  <2>1. \A n \in Names : kept'[n] # None => kept'[n] <= contents'
    BY <1>3, <1>4, <1>6 DEF WriteText, IInv, Kept, TypeOK
  <2>2. NoOlder(files)'
    BY <1>2, <1>3, <1>4, <1>6, TrailAssumption
       DEF WriteText, IInv, Kept, NoOlder, TypeOK
  <2> QED BY <2>1, <2>2 DEF Kept
<1>10. Acknowledged' /\ Logged' /\ Retained' /\ Sealed'
  <2>1. Acknowledged'
    BY <1>3, <1>6 DEF WriteText, IInv, Acknowledged, Links, TypeOK
  <2>2. Broken' = Broken
    BY DEF WriteText, Broken, Links
  <2>3. Logged' /\ Sealed'
    BY <1>2, <2>2 DEF WriteText, Continue, IInv, Logged, Sealed
  <2>4. Retained'
    BY <1>2 DEF WriteText, Continue, IInv, Retained
  <2> QED BY <2>1, <2>2, <2>3, <2>4
<1>11. Finalized'
  BY <1>2 DEF WriteText, Finalized
<1> QED BY <1>7, <1>8, <1>9, <1>10, <1>11 DEF IInv

LEMMA WriteManifestInv ==
  ASSUME IInv, NEW end \in Ends, NEW replaced \in BOOLEAN, WriteManifest(end, replaced)
  PROVE  IInv'
<1> DEFINE status == Head(todo).status
<1>1. todo # <<>> /\ Head(todo).op = "manifest"
  BY DEF WriteManifest
<1>2. running /\ ~deleted /\ ~expired /\ retention = "idle"
  BY <1>1, UnderWay
<1>3. TypeOK
  BY DEF IInv
<1>4. status \in Statuses
  BY <1>1, <1>3, TailOfTodo DEF Operations
<1>5. /\ Len(todo) = 1 /\ acked # <<>> /\ acked[Len(acked)].outcome = status
      /\ log = acked \/ Broken
  <2>1. 1 \in 1 .. Len(todo) /\ todo[1] = Head(todo)
    BY <1>1, <1>3, TailOfTodo
  <2>2. Planned
    BY DEF IInv
  <2> QED BY <1>1, <2>1, <2>2 DEF Planned
<1>6. todo' = <<>>
  BY <1>1, <1>3, <1>5, TailOfTodo, EmptySeq DEF WriteManifest, Continue
<1>7. NewManifest(status) \in Manifest
  BY <1>3, <1>4, TrailAssumption DEF NewManifest, Manifest, Digests, TypeOK
<1>8. NewManifest(status) # None
  BY <1>7, TrailAssumption
<1>9. TypeOK'
  <2>1. temps' \subseteq Names \cup {"manifest"}
    BY <1>3 DEF WriteManifest, TypeOK, Leftovers
  <2>2. manifest' \in Manifest \cup {None}
    BY <1>3, <1>7 DEF WriteManifest, TypeOK
  <2>3. running' \in BOOLEAN /\ phase' \in {"recording", "finalizing", "finalized"}
    BY <1>3 DEF WriteManifest, Continue, TypeOK
  <2> QED BY <1>3, <1>6, <2>1, <2>2, <2>3, EmptySeq DEF WriteManifest, TypeOK
<1>10. Planned'
  BY <1>6, EmptySeq DEF Planned
<1>11. Sealed'
  <2>1. CASE replaced
    <3>1. manifest' = NewManifest(status) /\ UNCHANGED <<log, acked>>
      BY <2>1 DEF WriteManifest
    <3>2. manifest'.digests.log = log /\ manifest'.status = status
      BY <3>1 DEF NewManifest, Digests
    <3>3. Len(log) \in Nat
      BY <1>3, LenProperties DEF TypeOK
    <3> QED BY <1>5, <3>1, <3>2, <3>3 DEF Sealed, Broken
  <2>2. CASE ~replaced
    BY <1>2, <2>2 DEF WriteManifest, Continue, IInv, Sealed, Broken
  <2> QED BY <2>1, <2>2
<1>12. Finalized'
  <2> SUFFICES ASSUME phase' = "finalized"
               PROVE  /\ acked' # <<>>
                      /\ manifest' # None
                      /\ NoOlder(manifest.digests.files)'
                      /\ manifest'.digests = Digests'
    BY <1>6 DEF Finalized
  <2>1. end = "returns" /\ replaced
    BY <1>1, UnderWay DEF WriteManifest
  <2>2. temps' = temps
    BY <2>1 DEF WriteManifest, Leftovers
  <2>3. manifest' = NewManifest(status)
    BY <2>1 DEF WriteManifest
  <2>4. NoOlder(manifest.digests.files)'
    BY <1>2, <2>3 DEF NewManifest, Digests, WriteManifest, IInv, Kept, NoOlder
  <2> QED BY <1>5, <1>8, <2>2, <2>3, <2>4 DEF NewManifest, Digests, WriteManifest
<1>13. Acknowledged' /\ Logged' /\ Retained' /\ Kept'
  BY <1>2, <1>3 DEF WriteManifest, Continue, IInv, Acknowledged, Logged, Broken, Retained,
       Kept, NoOlder
<1> QED BY <1>9, <1>10, <1>11, <1>12, <1>13 DEF IInv

\* A broken log stays broken when a line is appended.
LEMMA BrokenStays ==
  ASSUME TypeOK, Broken, NEW line \in Line, log' = Append(log, line)
  PROVE  Broken'
<1>1. PICK i \in 1 .. Len(log) : ~Links(log, i - 1, log[i])
  BY DEF Broken
<1>2. log \in Seq(Line) /\ Len(log) \in Nat
  BY LenProperties DEF TypeOK, Line
<1>3. Len(log') = Len(log) + 1 /\ \A j \in 1 .. Len(log) : log'[j] = log[j]
  BY <1>2, AppendProperties
<1>4. i \in 1 .. Len(log') /\ ~Links(log', i - 1, log'[i])
  BY <1>1, <1>2, <1>3 DEF Links
<1> QED BY <1>4 DEF Broken

\* After the line of a failed append the next event repeats its number.
LEMMA RepetitionBreaks ==
  ASSUME TypeOK, Acknowledged,
         Len(log) = Len(acked) + 1, \A i \in 1 .. Len(acked) : log[i] = acked[i],
         NEW line \in Line, log' = Append(log, line),
         line = Torn \/ line.seq = Len(acked) + 1
  PROVE  Broken'
<1> DEFINE n == Len(acked)
<1>1. log \in Seq(Line) /\ n \in Nat /\ Len(log) = n + 1
  BY LenProperties DEF TypeOK, Line
<1>2. /\ Len(log') = n + 2 /\ log'[n + 2] = line
      /\ \A j \in 1 .. n + 1 : log'[j] = log[j]
  BY <1>1, AppendProperties
<1>3. ASSUME Links(log', n, log'[n + 1])
      PROVE  log'[n + 1].seq = n + 1
  BY <1>1, <1>2, <1>3 DEF Links, Acknowledged
<1>4. ~Links(log', n, log'[n + 1]) \/ ~Links(log', n + 1, log'[n + 2])
  BY <1>1, <1>2, <1>3 DEF Links
<1>5. /\ n + 1 \in 1 .. Len(log') /\ (n + 1) - 1 = n
      /\ n + 2 \in 1 .. Len(log') /\ (n + 2) - 1 = n + 1
  BY <1>1, <1>2
<1> HIDE DEF n
<1>6. \E i \in 1 .. Len(log') : ~Links(log', i - 1, log'[i])
  <2>1. CASE ~Links(log', n, log'[n + 1])
    BY <1>5, <2>1
  <2>2. CASE ~Links(log', n + 1, log'[n + 2])
    BY <1>5, <2>2
  <2> QED BY <1>4, <2>1, <2>2
<1> QED BY <1>6 DEF Broken, Links

\* The event an append writes
Appended == [seq |-> writer.seq + 1, prev |-> writer.hash, id |-> contents + 1,
             outcome |-> Head(todo).outcome]

LEMMA AppendedIsEvent ==
  ASSUME TypeOK, todo # <<>>, Head(todo).op = "append"
  PROVE  /\ Appended \in Event /\ Appended # Torn
         /\ Appended.seq = writer.seq + 1
         /\ Appended.outcome = Head(todo).outcome
<1>1. Head(todo).outcome \in Statuses \cup {None}
  BY TailOfTodo DEF Operations
<1>2. /\ writer.seq \in Nat /\ writer.hash \in Nat \cup {None}
      /\ contents \in Nat
  BY TrailAssumption DEF TypeOK
<1>3. Appended \in Event
  BY <1>1, <1>2 DEF Appended, Event
<1>4. Appended # Torn
  BY <1>2 DEF Appended, Torn
<1> QED BY <1>3, <1>4 DEF Appended

\* An append that returns links its event to the acknowledged ones.
LEMMA AcknowledgedGrows ==
  ASSUME TypeOK, Acknowledged, todo # <<>>, Head(todo).op = "append",
         contents' = contents + 1, acked' = Append(acked, Appended),
         writer' = [seq |-> Appended.seq, hash |-> Appended.id]
  PROVE  Acknowledged'
<1> DEFINE n == Len(acked)
<1>1. acked \in Seq(Event) /\ n \in Nat /\ Appended \in Event /\ contents \in Nat
  BY AppendedIsEvent, LenProperties DEF TypeOK
<1>2. /\ acked' # <<>> /\ Len(acked') = n + 1 /\ acked'[n + 1] = Appended
      /\ \A i \in 1 .. n : acked'[i] = acked[i]
  BY <1>1, AppendProperties
<1>3. /\ writer.seq = n
      /\ writer.hash = IF n = 0 THEN None ELSE acked[n].id
  <2>1. n = 0 <=> acked = <<>>
    BY <1>1, EmptySeq
  <2> QED BY <2>1 DEF Acknowledged
<1>4. Appended.seq = n + 1 /\ Links(acked', n, Appended)
  <2>1. Appended # Torn /\ Appended.seq = n + 1 /\ Appended.prev = writer.hash
    BY <1>3, AppendedIsEvent DEF Appended
  <2>2. n # 0 => acked'[n] = acked[n] /\ acked[n].seq = n
    BY <1>1, <1>2 DEF Acknowledged
  <2> QED BY <1>1, <1>3, <2>1, <2>2 DEF Links
<1>5. \A i \in 1 .. n + 1 : acked'[i].seq = i /\ Links(acked', i - 1, acked'[i])
  <2> TAKE i \in 1 .. n + 1
  <2>1. CASE i = n + 1
    BY <1>1, <1>2, <1>4, <2>1
  <2>2. CASE i \in 1 .. n
    BY <1>1, <1>2, <2>2 DEF Acknowledged, Links
  <2> QED BY <1>1, <2>1, <2>2
<1>6. writer'.seq = n + 1 /\ writer'.hash = Appended.id /\ writer'.seq <= contents'
  BY <1>1, <1>3, <1>4 DEF Acknowledged
<1> QED BY <1>2, <1>5, <1>6 DEF Acknowledged

\* The log grows by the event or by a torn line, and so may be broken.
LEMMA LogGrows ==
  ASSUME IInv, running, ~deleted, ~unended, NEW line \in Line, log' = Append(log, line),
         line = Torn \/ line.seq = Len(acked) + 1
  PROVE  log = acked \/ Broken'
<1>1. TypeOK /\ Acknowledged /\ Logged
  BY DEF IInv
<1>2. CASE Broken
  BY <1>1, <1>2, BrokenStays
<1>3. CASE Len(log) = Len(acked) + 1 /\ \A i \in 1 .. Len(acked) : log[i] = acked[i]
  BY <1>1, <1>3, RepetitionBreaks
<1> QED BY <1>1, <1>2, <1>3 DEF Logged

LEMMA AppendEventInv ==
  ASSUME IInv, NEW end \in Ends, NEW bytes \in Written, AppendEvent(end, bytes)
  PROVE  IInv'
<1>1. todo # <<>> /\ Head(todo).op = "append" /\ contents < MaxContents
  BY DEF AppendEvent
<1>2. /\ running /\ ~deleted /\ ~expired /\ retention = "idle"
      /\ phase # "finalized"
  BY <1>1, UnderWay
<1>3. TypeOK /\ Acknowledged /\ Logged /\ Retained /\ Planned /\ Sealed /\ Kept
  BY DEF IInv
<1>4. /\ log \in Seq(Line) /\ Len(log) \in Nat
      /\ acked \in Seq(Event) /\ Len(acked) \in Nat
  BY <1>3, LenProperties DEF TypeOK, Line
<1>5. /\ Appended \in Event /\ Appended \in Line /\ Torn \in Line
      /\ Appended.seq = Len(acked) + 1
      /\ Appended.outcome = Head(todo).outcome
  BY <1>1, <1>3, AppendedIsEvent DEF Acknowledged, Line
<1>6. /\ contents' = contents + 1 /\ log' = LogWith(Appended, bytes)
      /\ unended' = IF bytes = "nothing" THEN unended ELSE bytes # "line"
      /\ soiled' = (soiled \/ (end # "returns" /\ bytes # "nothing"))
      /\ UNCHANGED <<files, manifest, temps, phase, expired, retention, kept, deleted>>
  BY DEF AppendEvent, Appended
<1>7. /\ end = "returns" => /\ bytes = "line"
                            /\ writer' = [seq |-> Appended.seq, hash |-> Appended.id]
                            /\ acked' = Append(acked, Appended)
      /\ end # "returns" => UNCHANGED <<writer, acked>>
  BY DEF AppendEvent, Appended
<1>8. /\ todo' = IF end = "returns" THEN Tail(todo) ELSE <<>>
      /\ running' = (end # "crashes")
  BY DEF AppendEvent, Continue
<1>9. /\ bytes = "nothing" => log' = log
      /\ bytes # "nothing" /\ unended =>
           log' = [log EXCEPT ![Len(log)] = Torn] /\ log # <<>>
      /\ bytes # "nothing" /\ ~unended => \E line \in Line :
           /\ log' = Append(log, line)
           /\ line = Torn \/ line.seq = Len(acked) + 1
           /\ bytes = "line" => line = Appended
  <2>1. unended => log # <<>>
    BY <1>2, <1>3, <1>4 DEF Logged, Broken
  <2> QED BY <1>5, <1>6, <2>1 DEF LogWith, Written
<1>10. bytes # "nothing" /\ unended =>
         /\ log' \in Seq(Line) /\ Len(log') = Len(log) /\ Broken'
  <2> HAVE bytes # "nothing" /\ unended
  <2>1. Len(log) \in 1 .. Len(log) /\ log' = [log EXCEPT ![Len(log)] = Torn]
    BY <1>4, <1>9, EmptySeq
  <2>2. log' \in Seq(Line) /\ Len(log') = Len(log) /\ log'[Len(log)] = Torn
    BY <1>4, <1>5, <2>1, ExceptSeq
  <2> QED BY <2>1, <2>2 DEF Broken, Links
<1>11. bytes # "nothing" /\ ~unended =>
         /\ log' \in Seq(Line) /\ Len(log') = Len(log) + 1
         /\ \A i \in 1 .. Len(log) : log'[i] = log[i]
         /\ log = acked \/ Broken'
         /\ end = "returns" /\ log = acked => log' = acked'
  <2> HAVE bytes # "nothing" /\ ~unended
  <2>1. PICK line \in Line : /\ log' = Append(log, line)
                             /\ line = Torn \/ line.seq = Len(acked) + 1
                             /\ bytes = "line" => line = Appended
    BY <1>9
  <2> QED BY <1>2, <1>4, <1>7, <2>1, LogGrows, AppendProperties
<1>12. TypeOK'
  <2>1. log' \in Seq(Event \cup {Torn})
    BY <1>4, <1>9, <1>10, <1>11 DEF Line
  <2>2. todo' \in Seq(Operations) /\ (running' \/ todo' = <<>>)
    BY <1>1, <1>3, <1>8, TailOfTodo, EmptySeq DEF Ends
  <2>3. contents' \in 1 .. MaxContents
    BY <1>1, <1>3, <1>6, TrailAssumption DEF TypeOK
  <2>4. acked' \in Seq(Event)
    <3>1. Append(acked, Appended) \in Seq(Event)
      BY <1>4, <1>5, AppendProperties
    <3> QED BY <1>4, <1>7, <3>1
  <2>5. writer' \in [seq : 0 .. MaxContents, hash : 1 .. MaxContents \cup {None}]
    <3>1. Appended.seq \in 0 .. MaxContents /\ Appended.id \in 1 .. MaxContents
      BY <1>1, <1>3, <1>5, TrailAssumption DEF TypeOK, Acknowledged, Appended
    <3> QED BY <1>3, <1>7, <3>1 DEF TypeOK
  <2>6. unended' \in BOOLEAN /\ soiled' \in BOOLEAN /\ running' \in BOOLEAN
    BY <1>3, <1>6, <1>8 DEF TypeOK
  <2> QED BY <1>3, <1>6, <2>1, <2>2, <2>3, <2>4, <2>5, <2>6 DEF TypeOK
<1>13. Acknowledged'
  <2>1. CASE end = "returns"
    BY <1>1, <1>3, <1>6, <1>7, <2>1, AcknowledgedGrows
  <2>2. CASE end # "returns"
    BY <1>3, <1>6, <1>7, <2>2 DEF Acknowledged, TypeOK, Links
  <2> QED BY <2>1, <2>2
<1>14. Logged'
  <2>1. CASE bytes = "nothing"
    BY <1>2, <1>3, <1>6, <1>7, <1>9, <2>1 DEF Logged, Broken
  <2>2. CASE bytes # "nothing" /\ unended
    BY <1>2, <1>3, <1>6, <1>10, <2>2 DEF Logged
  <2>3. CASE bytes # "nothing" /\ ~unended
    BY <1>2, <1>3, <1>6, <1>7, <1>11, <2>3 DEF Logged
  <2> QED BY <2>1, <2>2, <2>3
<1>15. Planned'
  <2>1. CASE end = "returns"
    <3> SUFFICES ASSUME NEW i \in 1 .. Len(todo'), todo'[i].op = "manifest"
                 PROVE  /\ i = Len(todo')
                        /\ phase' = "finalizing"
                        /\ IF i = 1
                             THEN /\ acked' # <<>>
                                  /\ acked'[Len(acked')].outcome = todo'[1].status
                                  /\ log' = acked' \/ Broken'
                             ELSE todo'[i - 1] = [op |-> "append", outcome |-> todo'[i].status]
      BY DEF Planned
    <3>1. /\ i = Len(todo') /\ phase = "finalizing"
          /\ todo[i] = [op |-> "append", outcome |-> todo'[i].status]
          /\ i # 1 => todo'[i - 1] = todo[i]
      BY <1>1, <1>8, <2>1, ManifestIsLast
    <3>2. acked' # <<>> /\ acked'[Len(acked')] = Appended
      BY <1>4, <1>5, <1>7, <2>1, AppendProperties
    <3>3. todo[1] = Head(todo)
      BY <1>1, <1>3, TailOfTodo
    <3>4. i = 1 => acked'[Len(acked')].outcome = todo'[1].status
      BY <1>5, <3>1, <3>2, <3>3
    <3>5. log' = acked' \/ Broken'
      BY <1>7, <1>10, <1>11, <2>1
    <3> QED BY <1>6, <3>1, <3>2, <3>4, <3>5
  <2>2. CASE end # "returns"
    BY <1>8, <2>2, EmptySeq DEF Planned
  <2> QED BY <2>1, <2>2
<1>16. Sealed'
  <2> SUFFICES ASSUME manifest # None
               PROVE  Sealed'
    BY <1>6 DEF Sealed
  <2>1. Len(manifest.digests.log) \in Nat /\ Len(manifest.digests.log) <= Len(log)
    BY <1>2, <1>3, LenProperties DEF Sealed, TypeOK, Manifest
  <2>2. CASE bytes = "nothing"
    BY <1>3, <1>6, <1>7, <1>9, <2>1, <2>2 DEF Sealed, Broken
  <2>3. CASE bytes # "nothing" /\ unended
    BY <1>6, <1>10, <2>1, <2>3 DEF Sealed
  <2>4. CASE bytes # "nothing" /\ ~unended
    BY <1>4, <1>6, <1>11, <2>1, <2>4 DEF Sealed
  <2> QED BY <2>2, <2>3, <2>4
<1>17. Retained' /\ Kept' /\ Finalized'
  BY <1>2, <1>3, <1>6, <1>8 DEF Retained, Kept, NoOlder, Finalized, TypeOK
<1> QED BY <1>12, <1>13, <1>14, <1>15, <1>16, <1>17 DEF IInv

LEMMA RemoveFileInv ==
  ASSUME IInv, RemoveFile
  PROVE  IInv'
<1>1. ~running /\ deleted' /\ UNCHANGED <<running, todo, phase, acked, kept, contents, writer>>
  BY DEF RemoveFile, IInv, Retained
<1>2. log' = log \/ (log' = <<>> /\ ~unended')
  BY DEF RemoveFile
<1>3. manifest' \in {manifest, None}
  BY DEF RemoveFile
<1>4. TypeOK'
  <2>1. files' \in [Names -> 1 .. MaxContents \cup {None}]
    BY DEF RemoveFile, IInv, TypeOK
  <2>2. log' \in Seq(Event \cup {Torn})
    BY <1>2, EmptySeq DEF IInv, TypeOK
  <2>3. temps' \subseteq Names \cup {"manifest"} /\ unended' \in BOOLEAN
    BY DEF RemoveFile, IInv, TypeOK
  <2> QED BY <1>1, <1>3, <2>1, <2>2, <2>3 DEF RemoveFile, IInv, TypeOK
<1>5. Logged'
  BY <1>1, <1>2 DEF RemoveFile, IInv, Logged, Broken
<1>6. Planned'
  BY <1>1, EmptySeq DEF IInv, TypeOK, Planned
<1>7. Sealed'
  BY <1>1, <1>2, <1>3 DEF IInv, Sealed, Broken
<1>8. Acknowledged' /\ Retained' /\ Kept' /\ Finalized'
  BY <1>1, <1>3 DEF IInv, Acknowledged, Retained, Kept, Finalized, NoOlder
<1> QED BY <1>4, <1>5, <1>6, <1>7, <1>8 DEF IInv

\* The end of the process, the clock and the rest of retention leave files and
\* history alone.
LEMMA OtherInv ==
  ASSUME IInv,
         Crash \/ Clock \/ FindExpired \/ DeleteExpired \/ RemovalEnds \/ UNCHANGED vars
  PROVE  IInv'
<1>1. UNCHANGED <<io, writer, phase, contents, acked, kept, soiled, deleted>>
  BY DEF Crash, Clock, FindExpired, DeleteExpired, RemovalEnds, vars
<1>2. /\ UNCHANGED todo \/ (todo' = <<>> /\ ~running')
      /\ UNCHANGED running \/ ~running'
  BY DEF Crash, Clock, FindExpired, DeleteExpired, RemovalEnds, vars
<1>3. TypeOK'
  <2>1. todo' \in Seq(Operations) /\ (running' \/ todo' = <<>>) /\ running' \in BOOLEAN
    BY <1>2, EmptySeq DEF IInv, TypeOK, Crash, Clock, FindExpired, DeleteExpired,
         RemovalEnds, vars
  <2>2. expired' \in BOOLEAN /\ retention' \in {"idle", "planned", "deleting"}
    BY DEF IInv, TypeOK, Crash, Clock, FindExpired, DeleteExpired, RemovalEnds, vars
  <2> QED BY <1>1, <2>1, <2>2 DEF IInv, TypeOK, io
<1>4. Retained'
  BY DEF IInv, Retained, Crash, Clock, FindExpired, DeleteExpired, RemovalEnds, vars
<1>5. Planned'
  BY <1>1, <1>2, EmptySeq DEF IInv, Planned, Broken, io
<1>6. Acknowledged' /\ Logged' /\ Sealed' /\ Kept' /\ Finalized'
  BY <1>1, <1>2 DEF IInv, Acknowledged, Logged, Sealed, Kept, Finalized, NoOlder, Broken,
       Digests, io
<1> QED BY <1>3, <1>4, <1>5, <1>6 DEF IInv

LEMMA NextInv == IInv /\ [Next]_vars => IInv'
<1> SUFFICES ASSUME IInv, [Next]_vars
             PROVE  IInv'
  OBVIOUS
<1>1. ASSUME NEW names \in Records, Record(names)
      PROVE  IInv'
  BY <1>1, RecordInv
<1>2. ASSUME NEW names \in Reports, NEW status \in Statuses, Finalize(names, status)
      PROVE  IInv'
  BY <1>2, FinalizeInv
<1>3. ASSUME NEW end \in Ends, NEW replaced \in BOOLEAN, WriteText(end, replaced)
      PROVE  IInv'
  BY <1>3, WriteTextInv
<1>4. ASSUME NEW end \in Ends, NEW replaced \in BOOLEAN, WriteManifest(end, replaced)
      PROVE  IInv'
  BY <1>4, WriteManifestInv
<1>5. ASSUME NEW end \in Ends, NEW bytes \in Written, AppendEvent(end, bytes)
      PROVE  IInv'
  BY <1>5, AppendEventInv
<1>6. CASE RemoveFile
  BY <1>6, RemoveFileInv
<1>7. CASE Crash \/ Clock \/ FindExpired \/ DeleteExpired \/ RemovalEnds \/ UNCHANGED vars
  BY <1>7, OtherInv
<1> QED BY <1>1, <1>2, <1>3, <1>4, <1>5, <1>6, <1>7 DEF Next

-----------------------------------------------------------------------------
(* The theorems.                                                           *)

\* The inductive invariant of the audit package: the acknowledged events are a
\* chain that the log is, extends or contradicts, a manifest seals it, and no
\* artifact is older than the last one acknowledged.
THEOREM InvariantHolds == Spec => []IInv
<1> QED BY InitInv, NextInv, PTL DEF Spec

\* Every variable of the audit package keeps its type.
THEOREM TypeCorrect == Spec => []TypeOK
<1>1. IInv => TypeOK
  BY DEF IInv
<1> QED BY <1>1, InvariantHolds, PTL

\* A package that verifies holds exactly the acknowledged events, the status of
\* the last of them and no artifact older than the last acknowledged one,
\* whatever failed, crashed or was removed, and however often finalize was
\* tried again.
THEOREM IntactPackagesAreComplete == Spec => []IntactIsComplete
<1>1. IInv => IntactIsComplete
  <2> SUFFICES ASSUME IInv, Intact
               PROVE  /\ log = acked
                      /\ manifest.status = Last(log).outcome
                      /\ phase = "finalized" \/ ~deleted => NoOlder(files)
    BY DEF IntactIsComplete, NoOlder
  <2>1. log # <<>> /\ ~Broken
    BY ChainIsLinks DEF IInv, Intact
  <2>2. manifest # None /\ manifest.digests = Digests
    BY DEF Intact
  <2>3. manifest.digests.log = log /\ manifest.digests.files = files
    BY <2>2 DEF Digests
  <2>4. log = acked /\ manifest.status = Last(log).outcome
    BY <2>1, <2>2, <2>3 DEF IInv, Sealed, Last
  <2>5. phase = "finalized" \/ ~deleted => NoOlder(files)
    BY <2>2, <2>3 DEF IInv, Kept, Finalized
  <2> QED BY <2>4, <2>5
<1> QED BY <1>1, InvariantHolds, PTL

\* If no failed append left bytes in the log and retention did not get at the
\* directory, a finalize that returned leaves a package that verifies.
THEOREM FinalizedPackagesVerify == Spec => []FinalizedVerifies
<1>1. IInv => FinalizedVerifies
  <2> SUFFICES ASSUME IInv, phase = "finalized", ~soiled, ~deleted
               PROVE  Intact
    BY DEF FinalizedVerifies
  <2>1. log = acked /\ log # <<>> /\ manifest # None /\ manifest.digests = Digests
    BY DEF IInv, Logged, Finalized
  <2>2. ~Broken
    BY <2>1 DEF IInv, Acknowledged, Broken
  <2> QED BY <2>1, <2>2, ChainIsLinks DEF IInv, Intact
<1> QED BY <1>1, InvariantHolds, PTL

=============================================================================
