---------------------------- MODULE AgentMemory ----------------------------
(***************************************************************************)
(* What the agent adapters promise of the memory they keep in FerricStore  *)
(* (docs/agent-frameworks.md): every call changes it at one moment, and    *)
(* once, whatever becomes of its locks, its commands and its process.      *)
(*                                                                         *)
(* The memory is one of three: the history of an OpenAI Agents session,    *)
(* the checkpoints of a LangGraph thread, the items of a LangGraph store.  *)
(***************************************************************************)
EXTENDS Integers, Sequences, SequencesExt

CONSTANTS Writers, None,
          First       \* an item of the session's history before any call

VARIABLES call,       \* what each writer is to do, [kind, of]
          memory,
          applied     \* the parts of its call that have had their effect

\* A batch of the store puts two items, each on its own.
Parts(c) == IF c.kind = "batch" THEN {1, 2} ELSE {1}

SessionKinds == {"add", "compact", "pop", "clear", "rewrite", "append", "replace"}
SaverKinds == {"put", "putWrites", "deleteThread"}
Transactions == {"append", "replace"}

Family(c) == CASE c.kind \in SessionKinds -> "session"
               [] c.kind \in SaverKinds -> "saver"
               [] OTHER -> "store"

---------------------------------------------------------------------------
(* The history of a session, its items and the receipts of its             *)
(* transactions, [of, kind].                                               *)

Receipt(c) == [of |-> c.of, kind |-> c.kind]

\* A transaction is refused when its identifier was used for another, or when the last item
\* is not the one it replaces.
Refused(c, h) ==
    /\ c.kind \in Transactions /\ Receipt(c) \notin h.receipts
    /\ \/ \E r \in h.receipts : r.of = c.of
       \/ c.kind = "replace" /\ (h.items = <<>> \/ Last(h.items) # First)

\* A rewrite replaces the item in question and removes its copies.
Rewrite(items, w) ==
    LET i == SelectInSeq(items, LAMBDA x : x = First)
    IN IF i = 0 THEN items
       ELSE Append(SubSeq(items, 1, i - 1), w) \o Remove(SubSeq(items, i + 1, Len(items)), First)

SessionEffect(w, c, h) ==
    CASE c.kind = "add" -> [h EXCEPT !.items = Append(@, w)]
      [] c.kind = "compact" -> [h EXCEPT !.items = <<w>>]
      [] c.kind = "rewrite" -> [h EXCEPT !.items = Rewrite(@, w)]
      [] c.kind = "pop" -> [h EXCEPT !.items = IF @ = <<>> THEN @ ELSE Front(@)]
      [] c.kind = "clear" -> [items |-> <<>>, receipts |-> {}]
      [] Receipt(c) \in h.receipts -> h
      [] c.kind = "append" -> [items |-> Append(h.items, c.of),
                               receipts |-> h.receipts \cup {Receipt(c)}]
      [] c.kind = "replace" -> [items |-> Append(Front(h.items), c.of),
                                receipts |-> h.receipts \cup {Receipt(c)}]

(* A checkpoint of a thread, and its pending writes by index: a negative   *)
(* one is replaced, another is written once.                               *)

SaverEffect(w, c, t) ==
    CASE c.kind = "put" -> [t EXCEPT !.checkpoint = w]
      [] c.kind = "deleteThread" -> [checkpoint |-> None, writes |-> [i \in DOMAIN t.writes |-> None]]
      [] OTHER -> [t EXCEPT !.writes[c.of] = IF c.of >= 0 /\ @ # None THEN @ ELSE w]

(* The items of a store; one keeps the moment of its creation, here its    *)
(* creator, until it is deleted.                                           *)

ItemEffect(w, c, item) ==
    IF c.kind = "deleteItem" THEN None
    ELSE [value |-> w, created |-> IF item = None THEN w ELSE item.created]

ItemOf(c, p) == IF c.kind = "batch" THEN p ELSE c.of

Effect(w, p, m) == LET c == call[w] IN
    CASE Family(c) = "session" -> SessionEffect(w, c, m)
      [] Family(c) = "saver" -> SaverEffect(w, c, m)
      [] OTHER -> [m EXCEPT ![ItemOf(c, p)] = ItemEffect(w, c, @)]

---------------------------------------------------------------------------
\* clearSession() also clears the receipts: a transaction may then have its effect again.
TakeEffect(w, p) ==
    /\ p \in Parts(call[w]) \ applied[w]
    /\ memory' = Effect(w, p, memory)
    /\ applied' = [v \in Writers |->
                     IF v = w THEN applied[w] \cup {p}
                     ELSE IF call[w].kind = "clear" /\ call[v].kind \in Transactions THEN {}
                     ELSE applied[v]]
    /\ UNCHANGED call

Init == applied = [w \in Writers |-> {}]
Next == \E w \in Writers : \E p \in Parts(call[w]) : TakeEffect(w, p)
Step == [Next]_<<call, memory, applied>>
Spec == Init /\ [][Step]_<<call, memory, applied>>
=============================================================================
