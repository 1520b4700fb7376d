-------------------------- MODULE AtomicFileProofs --------------------------
(***************************************************************************)
(* Proofs about AtomicFile.tla for any number of concurrent calls and any  *)
(* set of contents.                                                        *)
(***************************************************************************)
EXTENDS AtomicFile, TLAPS

CallRecord == [pc : {"created", "written", "synced", "closed", "renamed"},
               content : Content, synced : BOOLEAN]

\* What is visible has been synced, and so has what is about to be.
DataSynced ==
  /\ file.synced = TRUE
  /\ \A w \in Writer : writer[w].pc \in {"synced", "closed", "renamed"} => writer[w].synced = TRUE

\* The file holds something put in place since every unfinished rename.
CurrentSinceRename ==
  \A w \in Writer : writer[w].pc \in {"renamed", "ok"} => file.content \in since[w]

AInv == TypeOK /\ DataSynced /\ CurrentSinceRename /\ AcknowledgedIsDurable

\* A call that is under way is a record with a content.
LEMMA CallTypes ==
  ASSUME TypeOK, NEW w \in Writer
  PROVE  /\ writer[w].pc \in {"created", "written", "synced", "closed", "renamed"} =>
              writer[w] \in CallRecord
         /\ writer[w].pc \in {"idle", "ok", "created", "written", "synced", "closed", "renamed"}
<1>1. writer[w] \in {idle, [pc |-> "ok"]} \cup CallRecord
  BY DEF TypeOK, CallRecord
<1>2. idle.pc = "idle" /\ [pc |-> "ok"].pc = "ok"
  BY DEF idle
<1>3. QED
  BY <1>1, <1>2 DEF CallRecord

\* The invariant holds initially.
LEMMA InitAInv == Init => AInv
<1> SUFFICES ASSUME Init PROVE AInv
  OBVIOUS
<1>1. \A w \in Writer : writer[w].pc = "idle"
  BY DEF Init, idle
<1>2. PICK c \in Content : file = [content |-> c, synced |-> TRUE] /\ durable = {c}
  BY DEF Init
<1>3. TypeOK
  BY <1>2 DEF Init, TypeOK
<1>4. QED
  BY <1>1, <1>2, <1>3 DEF AInv, DataSynced, CurrentSinceRename, AcknowledgedIsDurable

\* When all calls end at once, only the file is left.
LEMMA EndKeeps ==
  ASSUME AInv, writer' = [w \in Writer |-> idle], since' = [w \in Writer |-> {}],
         supported' = supported,
         \/ UNCHANGED <<file, durable>>
         \/ \E c \in durable : file' = [content |-> c, synced |-> TRUE] /\ durable' = {c}
  PROVE  AInv'
<1>1. \A w \in Writer : writer'[w].pc = "idle"
  BY DEF idle
<1>2. /\ file' \in [content : Content, synced : BOOLEAN] /\ durable' \in SUBSET Content
      /\ file'.synced = TRUE
  <2>1. CASE UNCHANGED <<file, durable>>
    BY <2>1 DEF AInv, TypeOK, DataSynced
  <2>2. ASSUME NEW c \in durable, file' = [content |-> c, synced |-> TRUE], durable' = {c}
        PROVE  /\ file' \in [content : Content, synced : BOOLEAN] /\ durable' \in SUBSET Content
               /\ file'.synced = TRUE
    <3>1. c \in Content
      BY DEF AInv, TypeOK
    <3>2. QED BY <2>2, <3>1
  <2>3. QED BY <2>1, <2>2
<1>3. TypeOK'
  BY <1>2 DEF AInv, TypeOK
<1>4. QED
  BY <1>1, <1>2, <1>3 DEF AInv, DataSynced, CurrentSinceRename, AcknowledgedIsDurable

\* A step of one call that changes neither the file nor its history.
LEMMA CallKeeps ==
  ASSUME AInv, NEW w \in Writer, NEW call \in {idle} \cup CallRecord,
         writer' = [writer EXCEPT ![w] = call],
         since' = since \/ since' = [since EXCEPT ![w] = {}],
         call.pc \notin {"renamed", "ok"},
         call.pc \in {"synced", "closed"} => call.synced = TRUE,
         UNCHANGED <<file, durable, supported>>
  PROVE  AInv'
<1>1. /\ writer'[w] = call /\ \A v \in Writer \ {w} : writer'[v] = writer[v]
      /\ \A v \in Writer \ {w} : since'[v] = since[v]
  BY DEF AInv, TypeOK
<1>2. since' \in [Writer -> SUBSET Content]
  BY DEF AInv, TypeOK
<1>3. writer' \in [Writer -> {idle, [pc |-> "ok"]} \cup CallRecord]
  BY DEF AInv, TypeOK, CallRecord
<1>4. TypeOK'
  BY <1>2, <1>3 DEF AInv, TypeOK, CallRecord
<1>5. DataSynced'
  BY <1>1 DEF AInv, DataSynced
<1>6. CurrentSinceRename' /\ AcknowledgedIsDurable'
  BY <1>1 DEF AInv, CurrentSinceRename, AcknowledgedIsDurable
<1>7. QED BY <1>4, <1>5, <1>6 DEF AInv

\* Every step keeps the invariant.
LEMMA NextAInv == AInv /\ [Next]_vars => AInv'
<1> SUFFICES ASSUME AInv, [Next]_vars PROVE AInv'
  OBVIOUS
<1>1. TypeOK
  BY DEF AInv
<1>2. ASSUME NEW w \in Writer, NEW c \in Content, CreateTemp(w, c) PROVE AInv'
  <2>1. /\ writer' = [writer EXCEPT ![w] = Call("created", c, FALSE)]
        /\ UNCHANGED <<file, durable, since, supported>>
    BY <1>2 DEF CreateTemp
  <2>2. Call("created", c, FALSE) \in CallRecord /\ Call("created", c, FALSE).pc = "created"
    BY DEF Call, CallRecord
  <2>3. QED
    BY <2>1, <2>2, CallKeeps
<1>3. ASSUME NEW w \in Writer, Write(w) \/ SyncFile(w) \/ CloseFile(w) PROVE AInv'
  <2>1. /\ writer[w].pc \in {"created", "written", "synced"}
        /\ UNCHANGED <<file, durable, since, supported>>
    BY <1>3 DEF Write, SyncFile, CloseFile, Advance
  <2>2. writer[w] \in CallRecord
    BY <1>1, <2>1, CallTypes
  <2>3. PICK call \in CallRecord : /\ writer' = [writer EXCEPT ![w] = call]
                                   /\ call.pc \in {"written", "synced", "closed"}
                                   /\ call.pc \in {"synced", "closed"} => call.synced = TRUE
    <3>1. CASE Write(w)
      <4>1. writer' = [writer EXCEPT ![w] = [writer[w] EXCEPT !.pc = "written"]]
        BY <3>1 DEF Write, Advance
      <4>2. /\ [writer[w] EXCEPT !.pc = "written"] \in CallRecord
            /\ [writer[w] EXCEPT !.pc = "written"].pc = "written"
        BY <2>2 DEF CallRecord
      <4>3. QED BY <4>1, <4>2
    <3>2. CASE SyncFile(w)
      <4>1. writer' = [writer EXCEPT ![w] = [writer[w] EXCEPT !.pc = "synced", !.synced = TRUE]]
        BY <3>2 DEF SyncFile
      <4>2. /\ [writer[w] EXCEPT !.pc = "synced", !.synced = TRUE] \in CallRecord
            /\ [writer[w] EXCEPT !.pc = "synced", !.synced = TRUE].pc = "synced"
            /\ [writer[w] EXCEPT !.pc = "synced", !.synced = TRUE].synced = TRUE
        BY <2>2 DEF CallRecord
      <4>3. QED BY <4>1, <4>2
    <3>3. CASE CloseFile(w)
      <4>1. writer' = [writer EXCEPT ![w] = [writer[w] EXCEPT !.pc = "closed"]]
        BY <3>3 DEF CloseFile, Advance
      <4>2. writer[w].synced = TRUE
        BY <3>3 DEF CloseFile, Advance, AInv, DataSynced
      <4>3. /\ [writer[w] EXCEPT !.pc = "closed"] \in CallRecord
            /\ [writer[w] EXCEPT !.pc = "closed"].pc = "closed"
            /\ [writer[w] EXCEPT !.pc = "closed"].synced = TRUE
        BY <2>2, <4>2 DEF CallRecord
      <4>4. QED BY <4>1, <4>3
    <3>4. QED BY <1>3, <3>1, <3>2, <3>3
  <2>4. QED
    BY <2>1, <2>3, CallKeeps
<1>4. ASSUME NEW w \in Writer, Fail(w) \/ SyncDirectoryFails(w) \/ Returned(w) PROVE AInv'
  <2>1. /\ writer' = [writer EXCEPT ![w] = idle] /\ UNCHANGED <<file, durable, supported>>
        /\ since' = since \/ since' = [since EXCEPT ![w] = {}]
    BY <1>4 DEF Fail, SyncDirectoryFails, Returned
  <2>2. idle.pc = "idle"
    BY DEF idle
  <2>3. QED
    BY <2>1, <2>2, CallKeeps
<1>5. ASSUME NEW w \in Writer, Rename(w) PROVE AInv'
  <2>1. writer[w] \in CallRecord /\ writer[w].pc = "closed" /\ writer[w].synced = TRUE
    BY <1>1, <1>5, CallTypes DEF Rename, AInv, DataSynced
  <2> DEFINE c == writer[w].content
             call == [writer[w] EXCEPT !.pc = "renamed"]
  <2>2. c \in Content
    BY <2>1 DEF CallRecord
  <2>3. file' = [content |-> c, synced |-> TRUE]
    BY <1>5, <2>1 DEF Rename
  <2>4. durable' = durable \cup {c}
    BY <1>5, <2>3 DEF Rename, Remains
  <2>5. /\ call \in CallRecord /\ call.pc = "renamed" /\ call.synced = TRUE
        /\ writer' = [writer EXCEPT ![w] = call] /\ supported' = supported
    BY <1>5, <2>1 DEF Rename, CallRecord
  <2>6. since' = [v \in Writer |-> IF v = w THEN {c}
                                   ELSE IF writer[v].pc \in {"renamed", "ok"}
                                     THEN since[v] \cup {c} ELSE {}]
    BY <1>5, <2>3 DEF Rename
  <2> HIDE DEF c, call
  <2>7. writer'[w] = call /\ \A v \in Writer \ {w} : writer'[v] = writer[v]
    BY <1>1, <2>5 DEF TypeOK
  <2>8. TypeOK'
    <3>1. writer' \in [Writer -> {idle, [pc |-> "ok"]} \cup CallRecord]
      BY <1>1, <2>5 DEF TypeOK, CallRecord
    <3>2. since' \in [Writer -> SUBSET Content]
      BY <1>1, <2>2, <2>6 DEF TypeOK
    <3>3. file' \in [content : Content, synced : BOOLEAN]
      BY <2>2, <2>3
    <3>4. QED BY <1>1, <2>2, <2>4, <2>5, <3>1, <3>2, <3>3 DEF TypeOK, CallRecord
  <2>9. DataSynced'
    BY <2>3, <2>5, <2>7 DEF AInv, DataSynced
  <2>10. CurrentSinceRename'
    BY <2>3, <2>6, <2>7 DEF CurrentSinceRename
  <2>11. AcknowledgedIsDurable'
    BY <2>4, <2>5, <2>6, <2>7 DEF AInv, AcknowledgedIsDurable
  <2>12. QED BY <2>8, <2>9, <2>10, <2>11 DEF AInv
<1>6. ASSUME NEW w \in Writer, SyncDirectory(w) PROVE AInv'
  <2>1. /\ writer[w].pc = "renamed" /\ writer' = [writer EXCEPT ![w] = [pc |-> "ok"]]
        /\ UNCHANGED <<file, since, supported>>
    BY <1>6 DEF SyncDirectory
  <2>2. durable' = IF supported THEN {file.content} ELSE durable
    BY <1>6 DEF SyncDirectory, Remains, AInv, DataSynced
  <2>3. writer'[w].pc = "ok" /\ \A v \in Writer \ {w} : writer'[v] = writer[v]
    BY <1>1, <2>1 DEF TypeOK
  <2>4. writer' \in [Writer -> {idle, [pc |-> "ok"]} \cup CallRecord]
    BY <1>1, <2>1 DEF TypeOK, CallRecord
  <2>5. durable' \in SUBSET Content
    BY <1>1, <2>2 DEF TypeOK
  <2>6. TypeOK'
    BY <1>1, <2>1, <2>4, <2>5 DEF TypeOK, CallRecord
  <2>7. DataSynced'
    BY <2>1, <2>3 DEF AInv, DataSynced
  <2>8. CurrentSinceRename'
    BY <2>1, <2>3 DEF AInv, CurrentSinceRename
  <2>9. AcknowledgedIsDurable'
    BY <2>1, <2>2, <2>3 DEF AInv, AcknowledgedIsDurable, CurrentSinceRename
  <2>10. QED BY <2>6, <2>7, <2>8, <2>9 DEF AInv
<1>7. CASE Kill \/ PowerLoss
  BY <1>7, EndKeeps DEF Kill, PowerLoss
<1>8. CASE UNCHANGED vars
  BY <1>8 DEF vars, AInv, TypeOK, DataSynced, CurrentSinceRename, AcknowledgedIsDurable
<1>9. QED
  BY <1>2, <1>3, <1>4, <1>5, <1>6, <1>7, <1>8 DEF Next

\* The invariant holds of every behaviour.
LEMMA FileInvariance == Spec => []AInv
BY InitAInv, NextAInv, PTL DEF Spec

\* After WriteFile has returned nil, a power loss cannot bring back anything
\* older than what it wrote, for any number of concurrent calls.
THEOREM AcknowledgedWritesSurvive == Spec => []AcknowledgedIsDurable
<1>1. AInv => AcknowledgedIsDurable  BY DEF AInv
<1>2. QED BY <1>1, FileInvariance, PTL

(***************************************************************************)
(* The refinement.                                                         *)
(***************************************************************************)

\* What a call is to the register when it goes from one step to another.
LEMMA Phases ==
  /\ phaseOf(idle) = [phase |-> "resting"]
  /\ phaseOf([pc |-> "ok"]) = [phase |-> "resting"]
  /\ \A call \in CallRecord :
       phaseOf(call) = IF call.pc = "renamed" THEN [phase |-> "replaced"]
                       ELSE [phase |-> "writing", content |-> call.content]
<1>1. idle.pc = "idle" /\ [pc |-> "ok"].pc = "ok"
  BY DEF idle
<1>2. phaseOf(idle) = [phase |-> "resting"] /\ phaseOf([pc |-> "ok"]) = [phase |-> "resting"]
  BY <1>1 DEF phaseOf
<1>3. ASSUME NEW call \in CallRecord
      PROVE  phaseOf(call) = IF call.pc = "renamed" THEN [phase |-> "replaced"]
                             ELSE [phase |-> "writing", content |-> call.content]
  BY <1>3 DEF phaseOf, CallRecord
<1>4. QED BY <1>2, <1>3

\* The register's view of a step of one call.
LEMMA OpStep ==
  ASSUME AInv, NEW w \in Writer, NEW call, writer' = [writer EXCEPT ![w] = call]
  PROVE  [v \in Writer |-> phaseOf(writer'[v])] =
           [[v \in Writer |-> phaseOf(writer[v])] EXCEPT ![w] = phaseOf(call)]
<1>1. writer'[w] = call /\ \A v \in Writer \ {w} : writer'[v] = writer[v]
  BY DEF AInv, TypeOK
<1>2. phaseOf(writer'[w]) = phaseOf(call)
  BY <1>1
<1>3. \A v \in Writer \ {w} : phaseOf(writer'[v]) = phaseOf(writer[v])
  BY <1>1
<1>4. QED BY <1>2, <1>3

\* WriteFile, with any number of concurrent callers, kills and power losses,
\* implements the atomic register.
THEOREM FileImplementsRegister == Spec => ImplementsRegister
<1> DEFINE op == [w \in Writer |-> phaseOf(writer[w])]
<1>1. Init => Register!RegisterInit
  <2> SUFFICES ASSUME Init PROVE Register!RegisterInit
    OBVIOUS
  <2>1. op = [w \in Writer |-> [phase |-> "resting"]]
    BY Phases DEF Init
  <2>2. PICK c \in Content : file = [content |-> c, synced |-> TRUE] /\ durable = {c}
    BY DEF Init
  <2>3. QED BY <2>1, <2>2 DEF Register!RegisterInit, Register!Resting
<1>2. AInv /\ [Next]_vars => [Register!RegisterNext]_(Register!registerVars)
  <2> SUFFICES ASSUME AInv, [Next]_vars
               PROVE  [Register!RegisterNext]_(Register!registerVars)
    OBVIOUS
  <2>1. TypeOK
    BY DEF AInv
  <2>2. ASSUME NEW w \in Writer, NEW c \in Content, CreateTemp(w, c)
        PROVE  Register!StartWrite(w)
    <3>1. /\ writer[w] = idle /\ writer' = [writer EXCEPT ![w] = Call("created", c, FALSE)]
          /\ UNCHANGED <<file, durable>>
      BY <2>2 DEF CreateTemp
    <3>2. Call("created", c, FALSE) \in CallRecord
      BY DEF Call, CallRecord
    <3>3. phaseOf(Call("created", c, FALSE)) = [phase |-> "writing", content |-> c]
      BY <3>2, Phases DEF Call
    <3>4. op' = [op EXCEPT ![w] = [phase |-> "writing", content |-> c]]
      BY <3>1, <3>3, OpStep
    <3>5. op[w] = [phase |-> "resting"]
      BY <3>1, Phases
    <3>6. QED BY <3>1, <3>4, <3>5 DEF Register!StartWrite, Register!Resting
  <2>3. ASSUME NEW w \in Writer, Write(w) \/ SyncFile(w) \/ CloseFile(w)
        PROVE  UNCHANGED Register!registerVars
    <3>1. /\ writer[w] \in CallRecord /\ writer[w].pc # "renamed" /\ UNCHANGED <<file, durable>>
      BY <2>1, <2>3, CallTypes DEF Write, SyncFile, CloseFile, Advance
    <3>2. PICK call \in CallRecord : /\ writer' = [writer EXCEPT ![w] = call]
                                     /\ call.pc # "renamed" /\ call.content = writer[w].content
      <4>1. \A pc \in {"written", "synced", "closed"} :
              LET call == [writer[w] EXCEPT !.pc = pc]
              IN call \in CallRecord /\ call.pc = pc /\ call.content = writer[w].content
        BY <3>1 DEF CallRecord
      <4>2. LET call == [writer[w] EXCEPT !.pc = "synced", !.synced = TRUE]
            IN call \in CallRecord /\ call.pc = "synced" /\ call.content = writer[w].content
        BY <3>1 DEF CallRecord
      <4>3. \/ \E pc \in {"written", "synced", "closed"} :
                 writer' = [writer EXCEPT ![w] = [writer[w] EXCEPT !.pc = pc]]
            \/ writer' = [writer EXCEPT ![w] = [writer[w] EXCEPT !.pc = "synced", !.synced = TRUE]]
        BY <2>3 DEF Write, SyncFile, CloseFile, Advance
      <4>4. QED BY <4>1, <4>2, <4>3
    <3>3. phaseOf(call) = phaseOf(writer[w])
      BY <3>1, <3>2, Phases
    <3>4. op' = [op EXCEPT ![w] = op[w]]
      BY <3>2, <3>3, OpStep
    <3>5. op' = op
      BY <3>4
    <3>6. QED BY <3>1, <3>5 DEF Register!registerVars
  <2>4. ASSUME NEW w \in Writer, Rename(w) PROVE Register!Replace(w)
    <3>1. writer[w] \in CallRecord /\ writer[w].pc = "closed" /\ writer[w].synced = TRUE
      BY <2>1, <2>4, CallTypes DEF Rename, AInv, DataSynced
    <3>2. file' = [content |-> writer[w].content, synced |-> TRUE]
      BY <2>4, <3>1 DEF Rename
    <3>3. durable' = durable \cup {writer[w].content}
      BY <2>4, <3>2 DEF Rename, Remains
    <3>4. /\ [writer[w] EXCEPT !.pc = "renamed"] \in CallRecord
          /\ [writer[w] EXCEPT !.pc = "renamed"].pc = "renamed"
      BY <3>1 DEF CallRecord
    <3>5. writer' = [writer EXCEPT ![w] = [writer[w] EXCEPT !.pc = "renamed"]]
      BY <2>4 DEF Rename
    <3>6. op' = [op EXCEPT ![w] = [phase |-> "replaced"]]
      <4>1. phaseOf([writer[w] EXCEPT !.pc = "renamed"]) = [phase |-> "replaced"]
        BY <3>4, Phases
      <4>2. QED BY <3>5, <4>1, OpStep
    <3>7. op[w] = [phase |-> "writing", content |-> writer[w].content]
      BY <3>1, Phases
    <3>8. op[w].phase = "writing" /\ op[w].content = writer[w].content
      BY <3>7
    <3>9. QED BY <3>2, <3>3, <3>6, <3>8 DEF Register!Replace
  <2>5. ASSUME NEW w \in Writer, Fail(w) PROVE Register!GiveUp(w)
    <3>1. /\ writer[w] \in CallRecord /\ writer[w].pc # "renamed"
          /\ writer' = [writer EXCEPT ![w] = idle] /\ UNCHANGED <<file, durable>>
      BY <2>1, <2>5, CallTypes DEF Fail
    <3>2. op[w] = [phase |-> "writing", content |-> writer[w].content]
      BY <3>1, Phases
    <3>3. op[w].phase = "writing"
      BY <3>2
    <3>4. op' = [op EXCEPT ![w] = [phase |-> "resting"]]
      <4>1. phaseOf(idle) = [phase |-> "resting"]
        BY Phases
      <4>2. QED BY <3>1, <4>1, OpStep
    <3>5. QED BY <3>1, <3>3, <3>4 DEF Register!GiveUp, Register!Resting
  <2>6. ASSUME NEW w \in Writer, SyncDirectory(w) \/ SyncDirectoryFails(w)
        PROVE  Register!Return(w)
    <3>1. writer[w] \in CallRecord /\ writer[w].pc = "renamed" /\ UNCHANGED file
      BY <2>1, <2>6, CallTypes DEF SyncDirectory, SyncDirectoryFails
    <3>2. op[w] = [phase |-> "replaced"]
      BY <3>1, Phases
    <3>3. op[w].phase = "replaced"
      BY <3>2
    <3>4. \E call \in {idle, [pc |-> "ok"]} : writer' = [writer EXCEPT ![w] = call]
      BY <2>6 DEF SyncDirectory, SyncDirectoryFails
    <3>5. op' = [op EXCEPT ![w] = [phase |-> "resting"]]
      <4>1. \A call \in {idle, [pc |-> "ok"]} : phaseOf(call) = [phase |-> "resting"]
        BY Phases
      <4>2. PICK call \in {idle, [pc |-> "ok"]} : writer' = [writer EXCEPT ![w] = call]
        BY <3>4
      <4>3. op' = [op EXCEPT ![w] = phaseOf(call)]
        BY <4>2, OpStep
      <4>4. phaseOf(call) = [phase |-> "resting"]
        BY <4>1
      <4>5. QED BY <4>3, <4>4
    <3>6. durable' \in {durable, {file.content}}
      BY <2>6 DEF SyncDirectory, SyncDirectoryFails, Remains, AInv, DataSynced
    <3>7. QED BY <3>1, <3>3, <3>5, <3>6 DEF Register!Return, Register!Resting
  <2>7. ASSUME NEW w \in Writer, Returned(w) PROVE UNCHANGED Register!registerVars
    <3>1. /\ writer[w].pc = "ok" /\ writer' = [writer EXCEPT ![w] = idle]
          /\ UNCHANGED <<file, durable>>
      BY <2>7 DEF Returned
    <3>2. phaseOf(writer[w]) = [phase |-> "resting"]
      BY <3>1 DEF phaseOf
    <3>3. op' = [op EXCEPT ![w] = op[w]]
      BY <3>1, <3>2, Phases, OpStep
    <3>4. op' = op
      BY <3>3
    <3>5. QED BY <3>1, <3>4 DEF Register!registerVars
  <2>8. ASSUME Kill \/ PowerLoss PROVE Register!EndAll
    <3>1. op' = [w \in Writer |-> [phase |-> "resting"]]
      BY <2>8, Phases DEF Kill, PowerLoss
    <3>2. \/ UNCHANGED <<file, durable>>
          \/ \E c \in durable : file' = [content |-> c, synced |-> TRUE] /\ durable' = {c}
      BY <2>8 DEF Kill, PowerLoss
    <3>3. \/ UNCHANGED <<file, durable>>
          \/ file'.content \in durable /\ durable' = {file'.content}
      BY <3>2
    <3>4. QED BY <3>1, <3>3 DEF Register!EndAll, Register!Resting
  <2>9. CASE UNCHANGED vars
    BY <2>9 DEF vars, Register!registerVars
  <2>10. QED
    BY <2>2, <2>3, <2>4, <2>5, <2>6, <2>7, <2>8, <2>9 DEF Next, Register!RegisterNext
<1>3. QED
  BY <1>1, <1>2, FileInvariance, PTL DEF Spec, ImplementsRegister, Register!RegisterSpec
=============================================================================
