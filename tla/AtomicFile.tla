----------------------------- MODULE AtomicFile -----------------------------
(***************************************************************************)
(* internal/atomicfile/write.go: WriteFile writes a temporary file beside  *)
(* the target, syncs and closes it, renames it over the target and syncs   *)
(* the directory.  adoption.env is written this way by the presence loop   *)
(* and by the SSH sessions at the same time, and so is the status file.    *)
(*                                                                         *)
(* The file system is external: a write is in the page cache until it is   *)
(* synced, a rename until the directory is; a power loss keeps any part of *)
(* what is not synced, killing the process keeps all.  os.CreateTemp gives *)
(* every call a name of its own.                                           *)
(***************************************************************************)
CONSTANTS
  Writer,   \* concurrent calls of WriteFile for one path
  Content,  \* complete file contents
  Torn      \* a file with only part of its content

ASSUME TornAssumption == Torn \notin Content

VARIABLES
  file,       \* the file at path: its content, and whether that is synced
  durable,    \* the contents a power loss may leave at path
  writer,     \* the calls: where they are and what they write
  since,      \* history: the contents put in place since a call's own
              \* rename, until it returns
  supported   \* the file system can sync a directory

vars == <<file, durable, writer, since, supported>>

idle == [pc |-> "idle"]

Call(pc, c, synced) == [pc |-> pc, content |-> c, synced |-> synced]

\* What is left of a file when power fails after it has become visible.
Remains(f) == IF f.synced THEN f.content ELSE Torn

Init ==
  /\ \E c \in Content : file = [content |-> c, synced |-> TRUE] /\ durable = {c}
  /\ writer = [w \in Writer |-> idle]
  /\ since = [w \in Writer |-> {}]
  /\ supported \in BOOLEAN
----------------------------------------------------------------------------
\* The directory exists or is created, and the temporary file is created.
CreateTemp(w, c) ==
  /\ writer[w] = idle
  /\ writer' = [writer EXCEPT ![w] = Call("created", c, FALSE)]
  /\ UNCHANGED <<file, durable, since, supported>>

Advance(w, from, to) ==
  /\ writer[w].pc = from
  /\ writer' = [writer EXCEPT ![w].pc = to]
  /\ UNCHANGED <<file, durable, since, supported>>

\* Chmod and Write.
Write(w) == Advance(w, "created", "written")

\* Mutant: the data is not synced before the rename.
SyncFile_skipped(w) == Advance(w, "written", "synced")

SyncFile(w) ==
  /\ writer[w].pc = "written"
  /\ writer' = [writer EXCEPT ![w].pc = "synced", ![w].synced = TRUE]
  /\ UNCHANGED <<file, durable, since, supported>>

CloseFile(w) == Advance(w, "synced", "closed")

Rename(w) ==
  /\ writer[w].pc = "closed"
  /\ file' = [content |-> writer[w].content, synced |-> writer[w].synced]
  /\ durable' = durable \cup {Remains(file')}
  /\ writer' = [writer EXCEPT ![w].pc = "renamed"]
  /\ since' = [v \in Writer |-> IF v = w THEN {file'.content}
                                ELSE IF writer[v].pc \in {"renamed", "ok"}
                                  THEN since[v] \cup {file'.content}
                                ELSE {}]
  /\ UNCHANGED supported

\* Any step up to the rename fails: the deferred calls close and remove the
\* temporary file, and the caller gets an error.
Fail(w) ==
  /\ writer[w].pc \in {"created", "written", "synced", "closed"}
  /\ writer' = [writer EXCEPT ![w] = idle]
  /\ UNCHANGED <<file, durable, since, supported>>

\* Mutant: the error of the directory sync is taken for success.
SyncDirectory_ignored(w) ==
  /\ writer[w].pc = "renamed"
  /\ writer' = [writer EXCEPT ![w] = [pc |-> "ok"]]
  /\ UNCHANGED <<file, durable, since, supported>>

\* syncDirectory: done, or (EINVAL, ENOTSUP) not supported and not needed.
SyncDirectory(w) ==
  /\ writer[w].pc = "renamed"
  /\ durable' = IF supported THEN {Remains(file)} ELSE durable
  /\ writer' = [writer EXCEPT ![w] = [pc |-> "ok"]]
  /\ UNCHANGED <<file, since, supported>>

\* It fails: WriteFile returns an error although the file has been replaced.
SyncDirectoryFails(w) ==
  /\ writer[w].pc = "renamed"
  /\ writer' = [writer EXCEPT ![w] = idle]
  /\ since' = [since EXCEPT ![w] = {}]
  /\ UNCHANGED <<file, durable, supported>>

Returned(w) ==
  /\ writer[w].pc = "ok"
  /\ writer' = [writer EXCEPT ![w] = idle]
  /\ since' = [since EXCEPT ![w] = {}]
  /\ UNCHANGED <<file, durable, supported>>

Kill ==
  /\ writer' = [w \in Writer |-> idle]
  /\ since' = [w \in Writer |-> {}]
  /\ UNCHANGED <<file, durable, supported>>

PowerLoss ==
  /\ \E c \in durable : file' = [content |-> c, synced |-> TRUE] /\ durable' = {c}
  /\ writer' = [w \in Writer |-> idle]
  /\ since' = [w \in Writer |-> {}]
  /\ UNCHANGED supported

Next ==
  \/ \E w \in Writer :
       \/ \E c \in Content : CreateTemp(w, c)
       \/ Write(w) \/ SyncFile(w) \/ CloseFile(w) \/ Rename(w) \/ Fail(w)
       \/ SyncDirectory(w) \/ SyncDirectoryFails(w) \/ Returned(w)
  \/ Kill
  \/ PowerLoss

Spec == Init /\ [][Next]_vars
----------------------------------------------------------------------------
(* Properties.                                                             *)

TypeOK ==
  /\ file \in [content : Content, synced : BOOLEAN]
  /\ durable \in SUBSET Content
  /\ writer \in [Writer -> {idle, [pc |-> "ok"]} \cup
                   [pc : {"created", "written", "synced", "closed", "renamed"},
                    content : Content, synced : BOOLEAN]]
  /\ since \in [Writer -> SUBSET Content]
  /\ supported \in BOOLEAN

\* When WriteFile has returned without an error and the file system syncs
\* directories, no power loss brings back a content older than the one it
\* wrote, also when other calls have replaced the file in between.
AcknowledgedIsDurable ==
  \A w \in Writer : (writer[w].pc = "ok" /\ supported) => durable \subseteq since[w]

\* The register a caller sees: a call is writing until its rename.
phaseOf(call) ==
  CASE call.pc \in {"idle", "ok"}  -> [phase |-> "resting"]
    [] call.pc = "renamed"         -> [phase |-> "replaced"]
    [] OTHER                       -> [phase |-> "writing", content |-> call.content]

Register == INSTANCE AtomicRegister WITH
              value     <- file.content,
              survivors <- durable,
              op        <- [w \in Writer |-> phaseOf(writer[w])]

\* WriteFile implements the atomic register: readers, restarts and power
\* losses only ever meet a complete content that some call was given.
ImplementsRegister == Register!RegisterSpec
=============================================================================
