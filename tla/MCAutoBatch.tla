----------------------------- MODULE MCAutoBatch -----------------------------
(* Commands for model checking AutoBatch: one key, each kind of command.    *)
EXTENDS AutoBatch

Command(kind, reads, writes) == [kind |-> kind, reads |-> reads, writes |-> writes]

MCKeys == {"x"}

SetX == Command("batch", {}, {"x"})
GetX == Command("batch", {"x"}, {})
Unkeyed == Command("batch", {}, {})
Fence == Command("fence", {}, {})
Blocking == Command("block", {}, {})
Helper == Command("helper", {}, {})

MCCommands == {SetX, GetX, Unkeyed, Fence, Blocking, Helper}
WriteOrFence == {SetX, Fence}
==============================================================================
