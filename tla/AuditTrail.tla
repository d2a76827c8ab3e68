----------------------------- MODULE AuditTrail -----------------------------
(***************************************************************************)
(* The audit package of one run (src/compliance_agent/audit): artifacts    *)
(* that are written by replacement, a hash-chained event log that grows by *)
(* appending, a manifest with the digest of every file, and the readers    *)
(* that decide whether the package is intact.  Every file operation can    *)
(* fail, before or after its effect, or be cut by the end of the process;  *)
(* callers go on after a failure, or finalize again.  Retention, another   *)
(* process, deletes an expired directory file by file.                     *)
(*                                                                         *)
(* Data.  Every write has content of its own, numbered by a counter; an    *)
(* event's number stands for its hash, and a file is its own digest.       *)
(***************************************************************************)
EXTENDS Naturals, Sequences, SequencesExt

CONSTANTS
  Names,      \* artifacts of a run, the log and the manifest excepted
  Records,    \* artifacts a recording call writes before its event
  Reports,    \* artifacts a finalizing call writes before its event
  Statuses,   \* terminal statuses
  None,
  MaxContents \* bound on what is written

\* A line of the log is an event, or cannot be parsed.
Torn   == [seq |-> 0]
Event  == [seq : Nat \ {0}, prev : Nat \cup {None}, id : Nat, outcome : Statuses \cup {None}]
Operations == [op : {"write"}, name : Names]
                \cup [op : {"append"}, outcome : Statuses \cup {None}]
                \cup [op : {"manifest"}, status : Statuses]
Manifest == [status  : Statuses,
             digests : [files : [Names -> Nat \cup {None}],
                        temps : SUBSET (Names \cup {"manifest"}),
                        log : Seq(Event \cup {Torn}), unended : BOOLEAN]]

ASSUME TrailAssumption ==
  /\ Records \subseteq Seq(Names) /\ Reports \subseteq Seq(Names)
  /\ None \notin Statuses \cup Nat \cup Manifest
  /\ MaxContents \in Nat

VARIABLES
  files,     \* content of every artifact that is there
  log,       \* lines of run.jsonl
  unended,   \* the last line has no newline yet
  manifest,  \* manifest.json
  temps,     \* temporary files a crash left
  writer,    \* RunAuditWriter: last sequence and last hash
  todo,      \* operations left of the call under way
  running,   \* the process of the run
  phase,     \* "recording", "finalizing" from the first attempt, "finalized"
  contents,  \* counted for the bound
  expired,   \* the run is older than retention_days
  retention, \* "idle", "planned" or "deleting"
  \* history
  acked,     \* events whose append returned, in order
  kept,      \* what the last write of an artifact that returned wrote
  soiled,    \* a failed append left bytes in the log
  deleted    \* retention removed something

io   == <<files, log, unended, manifest, temps>>
vars == <<io, writer, todo, running, phase, contents, expired, retention,
          acked, kept, soiled, deleted>>

Init ==
  /\ files = [f \in Names |-> None]
  /\ log = <<>> /\ unended = FALSE
  /\ manifest = None /\ temps = {}
  /\ writer = [seq |-> 0, hash |-> None]
  /\ todo = <<>> /\ running = TRUE /\ phase = "recording"
  /\ contents = 0
  /\ expired = FALSE /\ retention = "idle"
  /\ acked = <<>> /\ kept = [f \in Names |-> None]
  /\ soiled = FALSE /\ deleted = FALSE

-----------------------------------------------------------------------------
(* Verification.                                                           *)

\* verify_event_chain returns no error
ChainHolds ==
  /\ log # <<>>
  /\ \A i \in DOMAIN log :
       /\ log[i] # Torn
       /\ log[i].seq = (IF i = 1 THEN 1 ELSE log[i - 1].seq + 1)
       /\ log[i].prev = (IF i = 1 THEN None ELSE log[i - 1].id)

\* digest_artifacts: every file but the manifest
Digests == [files |-> files, temps |-> temps, log |-> log, unended |-> unended]

\* AuditCatalog._load: verify_manifest and verify_event_chain.  The defect trusts
\* the manifest.
TrustsManifest ==
  /\ manifest # None
  /\ manifest.digests = Digests
Intact ==
  /\ manifest # None
  /\ manifest.digests = Digests
  /\ ChainHolds

-----------------------------------------------------------------------------
(* Calls of the run.  None begins while another one is under way.          *)

Writes(names) == [i \in DOMAIN names |-> [op |-> "write", name |-> names[i]]]

\* record_review, record_preview and the like
Record(names) ==
  /\ running /\ todo = <<>> /\ phase = "recording"
  /\ todo' = Writes(names) \o <<[op |-> "append", outcome |-> None]>>
  /\ UNCHANGED <<io, writer, running, phase, contents, expired, retention,
                 acked, kept, soiled, deleted>>

\* AttendedRunAudit.finalize, AuditFinalizationService.finalize and
\* DryRunAuditFinalizationService.finalize.  After a failure the run may
\* finalize again, with another status.
Finalize(names, status) ==
  /\ running /\ todo = <<>> /\ phase # "finalized"
  /\ phase' = "finalizing"
  /\ todo' = Writes(names) \o <<[op |-> "append", outcome |-> status],
                                [op |-> "manifest", status |-> status]>>
  /\ UNCHANGED <<io, writer, running, contents, expired, retention,
                 acked, kept, soiled, deleted>>

\* How an operation ends: it returns, raises AuditWriteFailure (what is left
\* of the call is skipped), or the process ends in it.
Ends == {"returns", "raises", "crashes"}

\* The defect leaves the rest of the call of a process that ended.
LeavesWork(end) ==
  /\ todo' = IF end = "returns" THEN Tail(todo) ELSE todo
  /\ running' = (end # "crashes")
Continue(end) ==
  /\ todo' = IF end = "returns" THEN Tail(todo) ELSE <<>>
  /\ running' = (end # "crashes")

\* A temporary file that did not replace its target is there after a crash, or
\* when it could not be removed either.
Leftovers(end, replaced, name) ==
  IF end # "returns" /\ ~replaced THEN {temps, temps \cup {name}} ELSE {temps}

\* write_text: a temporary file replaces the artifact; the permissions are
\* set after that, so a failure may leave the new content in place.
WriteText(end, replaced) ==
  /\ todo # <<>> /\ Head(todo).op = "write"
  /\ contents < MaxContents
  /\ end = "returns" => replaced
  /\ contents' = contents + 1
  /\ files' = IF replaced THEN [files EXCEPT ![Head(todo).name] = contents + 1] ELSE files
  /\ temps' \in Leftovers(end, replaced, Head(todo).name)
  /\ kept' = IF end = "returns" THEN [kept EXCEPT ![Head(todo).name] = contents + 1] ELSE kept
  /\ Continue(end)
  /\ UNCHANGED <<log, unended, manifest, writer, phase, expired, retention,
                 acked, soiled, deleted>>

\* The bytes an append puts at the end of the log: all of the line, the event
\* without its newline, a part of it, or nothing.  They continue a line that
\* was not ended.
Written == {"line", "event", "part", "nothing"}
LogWith(event, bytes) ==
  CASE bytes = "nothing" -> log
    [] bytes # "nothing" /\ unended -> [log EXCEPT ![Len(log)] = Torn]
    [] OTHER -> Append(log, IF bytes = "part" THEN Torn ELSE event)

\* RunAuditWriter.append.  The writer's state advances only when it returns.
AppendEvent(end, bytes) ==
  LET event == [seq |-> writer.seq + 1, prev |-> writer.hash,
                id |-> contents + 1, outcome |-> Head(todo).outcome]
  IN /\ todo # <<>> /\ Head(todo).op = "append"
     /\ contents < MaxContents
     /\ end = "returns" => bytes = "line"
     /\ contents' = contents + 1
     /\ log' = LogWith(event, bytes)
     /\ unended' = IF bytes = "nothing" THEN unended ELSE bytes # "line"
     /\ IF end = "returns"
          THEN /\ writer' = [seq |-> event.seq, hash |-> event.id]
               /\ acked' = Append(acked, event)
          ELSE UNCHANGED <<writer, acked>>
     /\ soiled' = (soiled \/ (end # "returns" /\ bytes # "nothing"))
     /\ Continue(end)
     /\ UNCHANGED <<files, manifest, temps, phase, expired, retention, kept, deleted>>

\* The manifest takes the digests as they are now and is written like an
\* artifact.  The defect keeps the digests of an earlier manifest.
KeepsDigests(status) ==
  IF manifest = None THEN [status |-> status, digests |-> Digests]
  ELSE [manifest EXCEPT !.status = status]
NewManifest(status) == [status |-> status, digests |-> Digests]

WriteManifest(end, replaced) ==
  /\ todo # <<>> /\ Head(todo).op = "manifest"
  /\ end = "returns" => replaced
  /\ manifest' = IF replaced THEN NewManifest(Head(todo).status) ELSE manifest
  /\ temps' \in Leftovers(end, replaced, "manifest")
  /\ phase' = IF end = "returns" THEN "finalized" ELSE phase
  /\ Continue(end)
  /\ UNCHANGED <<files, log, unended, writer, contents, expired, retention,
                 acked, kept, soiled, deleted>>

\* The process ends between two operations.
Crash ==
  /\ running
  /\ running' = FALSE
  /\ todo' = <<>>
  /\ UNCHANGED <<io, writer, phase, contents, expired, retention, acked, kept,
                 soiled, deleted>>

-----------------------------------------------------------------------------
(* Retention.                                                              *)

\* The clock of the machine, which may be set back.  retention_days is at least
\* one day, and a run is over by then.
Clock ==
  /\ ~running
  /\ expired' = ~expired
  /\ UNCHANGED <<io, writer, todo, running, phase, contents, retention, acked,
                 kept, soiled, deleted>>

\* find_expired, then delete_expired, which checks the candidate again.
FindExpired ==
  /\ retention = "idle" /\ expired
  /\ retention' = "planned"
  /\ UNCHANGED <<io, writer, todo, running, phase, contents, expired, acked,
                 kept, soiled, deleted>>
DeleteExpired ==
  /\ retention = "planned"
  /\ retention' = IF expired THEN "deleting" ELSE "idle"
  /\ UNCHANGED <<io, writer, todo, running, phase, contents, expired, acked,
                 kept, soiled, deleted>>

\* shutil.rmtree removes one file after the other, in any order, and may fail
\* at each of them.
RemoveFile ==
  /\ retention = "deleting"
  /\ \/ \E f \in Names : /\ files[f] # None
                         /\ files' = [files EXCEPT ![f] = None]
                         /\ UNCHANGED <<log, unended, manifest, temps>>
     \/ /\ log # <<>>
        /\ log' = <<>> /\ unended' = FALSE
        /\ UNCHANGED <<files, manifest, temps>>
     \/ /\ manifest # None
        /\ manifest' = None
        /\ UNCHANGED <<files, log, unended, temps>>
     \/ \E t \in temps : /\ temps' = temps \ {t}
                         /\ UNCHANGED <<files, log, unended, manifest>>
  /\ deleted' = TRUE
  /\ UNCHANGED <<writer, todo, running, phase, contents, expired, retention,
                 acked, kept, soiled>>
RemovalEnds ==
  /\ retention = "deleting"
  /\ retention' = "idle"
  /\ UNCHANGED <<io, writer, todo, running, phase, contents, expired, acked,
                 kept, soiled, deleted>>

Next ==
  \/ \E names \in Records : Record(names)
  \/ \E names \in Reports, status \in Statuses : Finalize(names, status)
  \/ \E end \in Ends, replaced \in BOOLEAN :
       WriteText(end, replaced) \/ WriteManifest(end, replaced)
  \/ \E end \in Ends, bytes \in Written : AppendEvent(end, bytes)
  \/ Crash
  \/ Clock \/ FindExpired \/ DeleteExpired \/ RemoveFile \/ RemovalEnds

Spec == Init /\ [][Next]_vars

-----------------------------------------------------------------------------
(* Properties.                                                             *)

\* Every variable has its type.
TypeOK ==
  /\ files \in [Names -> 1 .. MaxContents \cup {None}]
  /\ log \in Seq(Event \cup {Torn}) /\ unended \in BOOLEAN
  /\ manifest \in Manifest \cup {None}
  /\ temps \subseteq Names \cup {"manifest"}
  /\ writer \in [seq : 0 .. MaxContents, hash : 1 .. MaxContents \cup {None}]
  /\ todo \in Seq(Operations)
  /\ running \in BOOLEAN /\ phase \in {"recording", "finalizing", "finalized"}
  /\ expired \in BOOLEAN
  /\ contents \in 0 .. MaxContents
  /\ retention \in {"idle", "planned", "deleting"}
  /\ acked \in Seq(Event)
  /\ kept \in [Names -> 1 .. MaxContents \cup {None}]
  /\ soiled \in BOOLEAN /\ deleted \in BOOLEAN
  /\ running \/ todo = <<>>

\* A package that verifies is complete: its log is exactly the events that
\* were acknowledged, its status is the outcome of the last of them, and every
\* artifact is at least as new as the last one that was acknowledged.  So no
\* torn, repeated or lost line, no half-done retry of finalize and no partly
\* deleted directory of a finalized run ever passes for an intact one.
IntactIsComplete ==
  Intact =>
    /\ log = acked
    /\ manifest.status = Last(log).outcome
    /\ phase = "finalized" \/ ~deleted =>
         \A f \in Names : kept[f] # None => files[f] # None /\ files[f] >= kept[f]

\* A finalize that returned leaves a package that verifies, whatever failed
\* before it, unless a failed append had left bytes in the log or retention
\* got at the directory.
FinalizedVerifies == phase = "finalized" /\ ~soiled /\ ~deleted => Intact

=============================================================================
