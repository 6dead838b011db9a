----------------------------- MODULE StepJournal -----------------------------
(***************************************************************************)
(* What step() promises (README.md:397, docs/design.md:48-61): the result  *)
(* of a named step is recorded once, and every handler that gets a result  *)
(* for the name, in whatever process and however often, gets that one.     *)
(***************************************************************************)
CONSTANTS Names, Values, None

VARIABLES journal,   \* the recorded result of each step
          returned   \* the results handlers were given for each step

Init == /\ journal = [n \in Names |-> None]
        /\ returned = [n \in Names |-> {}]

Commit(n, v) == /\ journal[n] = None
                /\ journal' = [journal EXCEPT ![n] = v]
                /\ UNCHANGED returned

Return(n) == /\ journal[n] # None
             /\ returned' = [returned EXCEPT ![n] = @ \cup {journal[n]}]
             /\ UNCHANGED journal

Next == \E n \in Names : Return(n) \/ \E v \in Values : Commit(n, v)

Spec == Init /\ [][Next]_<<journal, returned>>
=============================================================================
