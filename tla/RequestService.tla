--------------------------- MODULE RequestService ---------------------------
(***************************************************************************)
(* What the dispatcher of src/src/main.rs promises its host, without the   *)
(* tasks and channels that make it work: a request line read from stdin is *)
(* answered by one line on stdout, in any order; and unless stdout broke,  *)
(* the process does not end while an answer is owed.                       *)
(***************************************************************************)
CONSTANT Requests    \* the lines the host may write, each one distinct

VARIABLES accepted,  \* requests read from stdin
          answered,  \* requests whose response line reached stdout
          open,      \* stdin has not ended
          broken,    \* a write to stdout failed
          exited     \* the process ended

vars == <<accepted, answered, open, broken, exited>>

Init ==
    /\ accepted = {}
    /\ answered = {}
    /\ open = TRUE
    /\ broken = FALSE
    /\ exited = FALSE

Accept(r) ==
    /\ open
    /\ r \notin accepted
    /\ accepted' = accepted \cup {r}
    /\ UNCHANGED <<answered, open, broken, exited>>

Answer(r) ==
    /\ ~broken /\ ~exited
    /\ r \in accepted \ answered
    /\ answered' = answered \cup {r}
    /\ UNCHANGED <<accepted, open, broken, exited>>

EndOfInput ==
    /\ open
    /\ open' = FALSE
    /\ UNCHANGED <<accepted, answered, broken, exited>>

Break ==
    /\ ~broken /\ ~exited
    /\ broken' = TRUE
    /\ UNCHANGED <<accepted, answered, open, exited>>

Exit ==
    /\ ~open /\ ~exited
    /\ broken \/ answered = accepted
    /\ exited' = TRUE
    /\ UNCHANGED <<accepted, answered, open, broken>>

Next ==
    \/ \E r \in Requests : Accept(r) \/ Answer(r)
    \/ EndOfInput
    \/ Break
    \/ Exit

Spec == Init /\ [][Next]_vars

=============================================================================
