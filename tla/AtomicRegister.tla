--------------------------- MODULE AtomicRegister ---------------------------
(***************************************************************************)
(* What internal/atomicfile promises its callers: a file whose content is  *)
(* replaced as a whole.  A write that has returned without an error has    *)
(* replaced the content; one that has returned an error may have; a crash  *)
(* leaves a content that was there since the last durable one.             *)
(***************************************************************************)
CONSTANTS Writer, Content

VARIABLES
  value,      \* what a reader sees
  survivors,  \* what a power loss may leave
  op          \* what each writer is doing

registerVars == <<value, survivors, op>>

Resting == [phase |-> "resting"]

RegisterInit ==
  /\ value \in Content
  /\ survivors = {value}
  /\ op = [w \in Writer |-> Resting]

StartWrite(w) ==
  /\ op[w] = Resting
  /\ \E c \in Content : op' = [op EXCEPT ![w] = [phase |-> "writing", content |-> c]]
  /\ UNCHANGED <<value, survivors>>

Replace(w) ==
  /\ op[w].phase = "writing"
  /\ value' = op[w].content
  /\ survivors' = survivors \cup {value'}
  /\ op' = [op EXCEPT ![w] = [phase |-> "replaced"]]

GiveUp(w) ==
  /\ op[w].phase = "writing"
  /\ op' = [op EXCEPT ![w] = Resting]
  /\ UNCHANGED <<value, survivors>>

Return(w) ==
  /\ op[w].phase = "replaced"
  /\ survivors' \in {survivors, {value}}
  /\ op' = [op EXCEPT ![w] = Resting]
  /\ UNCHANGED value

EndAll ==
  /\ \/ UNCHANGED <<value, survivors>>
     \/ value' \in survivors /\ survivors' = {value'}
  /\ op' = [w \in Writer |-> Resting]

RegisterNext ==
  \/ \E w \in Writer : StartWrite(w) \/ Replace(w) \/ GiveUp(w) \/ Return(w)
  \/ EndAll

RegisterSpec == RegisterInit /\ [][RegisterNext]_registerVars
=============================================================================
