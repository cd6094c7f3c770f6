--------------------------- MODULE JournaledStore ---------------------------
(***************************************************************************)
(* What the logging layer promises its callers, without the log: a set of  *)
(* blocks with a current and a durable content.  Operations write the      *)
(* current content; the durable content changes only as a whole, only to   *)
(* the current content, and only while no operation is in progress, so a   *)
(* crash can never expose part of an operation (log.c, header comment).    *)
(***************************************************************************)
CONSTANTS Ops,       \* file-system operations (processes inside a call)
          Blocks,    \* home block numbers
          Data       \* block contents

VARIABLES durable,   \* what a restart after a crash would find
          current,   \* what a reader sees now
          active     \* operations between begin_op and end_op

vars == <<durable, current, active>>

Init ==
  /\ durable \in [Blocks -> Data]
  /\ current = durable
  /\ active = {}

Begin(p) ==
  /\ p \notin active
  /\ active' = active \cup {p}
  /\ UNCHANGED <<durable, current>>

Write(p, b, d) ==
  /\ p \in active
  /\ current' = [current EXCEPT ![b] = d]
  /\ UNCHANGED <<durable, active>>

End(p) ==
  /\ p \in active
  /\ active' = active \ {p}
  /\ UNCHANGED <<durable, current>>

\* One indivisible step, for all operations since the previous commit.
Commit ==
  /\ active = {}
  /\ durable' = current
  /\ UNCHANGED <<current, active>>

Crash ==
  /\ current' = durable
  /\ active' = {}
  /\ UNCHANGED durable

Next ==
  \/ \E p \in Ops : Begin(p) \/ End(p)
  \/ \E p \in Ops, b \in Blocks, d \in Data : Write(p, b, d)
  \/ Commit
  \/ Crash

Spec == Init /\ [][Next]_vars
=============================================================================
