--------------------------- MODULE OrderedStream ---------------------------
(***************************************************************************)
(* What a training loop may rely on when it iterates: batch n + 1 follows  *)
(* batch n, nothing is skipped, the end comes after the last batch that    *)
(* was obtained and never before the coordinator stopped giving batches,   *)
(* and nothing follows an end, an error or a close.                        *)
(***************************************************************************)
EXTENDS Integers, Sequences

VARIABLES yielded,   \* the sequence numbers handed to the training loop
          obtained,  \* the number of batches obtained from the coordinator
          giving,    \* the coordinator may still give batches
          outcome    \* "open", "ended", "failed" or "closed"

vars == <<yielded, obtained, giving, outcome>>

Init == /\ yielded = <<>>
        /\ obtained = 0
        /\ giving = TRUE
        /\ outcome = "open"

Obtain == /\ giving
          /\ obtained' = obtained + 1
          /\ UNCHANGED <<yielded, giving, outcome>>

Exhaust == /\ giving
           /\ giving' = FALSE
           /\ UNCHANGED <<yielded, obtained, outcome>>

Yield == /\ outcome = "open"
         /\ Len(yielded) < obtained
         /\ yielded' = Append(yielded, Len(yielded))
         /\ UNCHANGED <<obtained, giving, outcome>>

End == /\ outcome = "open"
       /\ ~giving
       /\ Len(yielded) = obtained
       /\ outcome' = "ended"
       /\ UNCHANGED <<yielded, obtained, giving>>

Break == /\ outcome = "open"
         /\ outcome' \in {"failed", "closed"}
         /\ UNCHANGED <<yielded, obtained, giving>>

Next == Obtain \/ Exhaust \/ Yield \/ End \/ Break

Spec == Init /\ [][Next]_vars
=============================================================================
