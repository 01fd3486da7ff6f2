--------------------------- MODULE InputLifecycle ---------------------------
(***************************************************************************)
(* What a conversation of packages/agent/src/harness/pico3 promises about  *)
(* an input, with no task, boundary or queue mode in sight.  An input is   *)
(* queued or placed when it is accepted, a question is placed in the       *)
(* transcript before it is answered, a write is done once it is placed,    *)
(* and an input is settled at most once.  TurnInbox is shown to implement  *)
(* this specification.                                                     *)
(***************************************************************************)
CONSTANT Input          \* the identifiers of the inputs

VARIABLE result         \* the stored result of each input

Status == {"absent", "queued", "placed", "done", "unanswered"}

Init == result = [i \in Input |-> [status |-> "absent", write |-> FALSE, answered |-> FALSE]]

\* Accepted: queued behind a turn, or taken at once.
Accept(i) ==
  /\ result[i].status = "absent"
  /\ \E write \in BOOLEAN :
       \E status \in {"queued", IF write THEN "done" ELSE "placed"} :
         result'[i] = [status |-> status, write |-> write, answered |-> FALSE]

Place(i) ==
  /\ result[i].status = "queued"
  /\ result'[i] = [result[i] EXCEPT !.status = IF result[i].write THEN "done" ELSE "placed"]

Answer(i) ==
  /\ result[i].status = "placed"
  /\ result'[i] = [status |-> "done", write |-> result[i].write, answered |-> TRUE]

\* Withdrawn or stale while queued; aborted, failed or terminated once placed.
GiveUp(i) ==
  /\ result[i].status \in {"queued", "placed"}
  /\ result'[i] = [result[i] EXCEPT !.status = "unanswered"]

\* One commit may move several inputs.
Next ==
  /\ DOMAIN result' = Input
  /\ \A i \in Input : \/ result'[i] = result[i]
                      \/ Accept(i)
                      \/ Place(i)
                      \/ Answer(i)
                      \/ GiveUp(i)

Spec == Init /\ [][Next]_result
=============================================================================
