---------------------------- MODULE RevisionPromise ----------------------------
(***************************************************************************)
(* What the repository of a workspace promises to those who publish in it: *)
(* one line of revisions, each made on top of the one before it and only   *)
(* for a call that named that one; an operation is in the line once; and a *)
(* call is told a revision only if it made it or repeats the call that     *)
(* did, and is refused only if it made none.                               *)
(***************************************************************************)
EXTENDS Naturals, Sequences

CONSTANTS Calls, Operation, None

VARIABLES
    line,       \* calls whose revision was published, in order
    basis,      \* the revision each call names as the one it changes
    reply       \* a revision, "refused", "lost", or None

promised == <<line, basis, reply>>

Newest == IF line = <<>> THEN None ELSE line[Len(line)]

InLine == {line[i] : i \in 1..Len(line)}

Repeats(c, d) == Operation[c] = Operation[d] /\ basis[c] = basis[d]

PromisedInit == line = <<>> /\ reply = [c \in Calls |-> None] /\ basis = [c \in Calls |-> None]

Ask(c) == /\ reply[c] = None /\ c \notin InLine
          /\ \E r \in {None} \cup InLine : basis' = [basis EXCEPT ![c] = r]
          /\ UNCHANGED <<line, reply>>

Publish(c) == /\ reply[c] = None /\ basis[c] = Newest
              /\ \A d \in InLine : Operation[d] # Operation[c]
              /\ line' = Append(line, c) /\ UNCHANGED basis
              /\ reply' \in {[reply EXCEPT ![c] = c], [reply EXCEPT ![c] = "lost"]}

Answer(c) == /\ reply[c] = None
             /\ \E d \in InLine : Repeats(c, d) /\ reply' = [reply EXCEPT ![c] = d]
             /\ UNCHANGED <<line, basis>>

Refuse(c) == /\ reply[c] = None /\ c \notin InLine
             /\ reply' \in {[reply EXCEPT ![c] = "refused"], [reply EXCEPT ![c] = "lost"]}
             /\ UNCHANGED <<line, basis>>

PromisedNext == \E c \in Calls : Ask(c) \/ Publish(c) \/ Answer(c) \/ Refuse(c)

PromisedSpec == PromisedInit /\ [][PromisedNext]_promised
=============================================================================
