------------------------------ MODULE FlowCalls ------------------------------
(***************************************************************************)
(* What the Flow modules speak of: calls, and the tokens of a command.     *)
(*                                                                         *)
(* A call is a command, its options and its items.  Options, and the       *)
(* parts of an item, are a function from the names they have on the wire   *)
(* to what was given: a sequence of entries, one for an option that is     *)
(* given once, one for each state, name or pair of one that is a list or a *)
(* map; an entry is its tokens.  A token is a string, bytes, a number or   *)
(* an object; what an encoded value says is its text.                      *)
(***************************************************************************)
EXTENDS Integers, Sequences, SequencesExt, FiniteSets, TLC

Str(text) == [is |-> "string", text |-> text]
Bytes(text) == [is |-> "bytes", text |-> text]
Obj(text) == [is |-> "object", text |-> text]
Num(n) == [is |-> "number", text |-> ToString(n)]
One(token) == <<<<token>>>>

Has(fields, name) == name \in DOMAIN fields
The(fields, name) == fields[name][1][1]
Or(fields, name, token) == IF Has(fields, name) THEN The(fields, name) ELSE token
Says(fields, name, text) == Has(fields, name) /\ The(fields, name).text = text

Clock == 9        \* what Date.now() says while a call is built

Refused == [refused |-> TRUE]
Args(args) == [refused |-> FALSE, args |-> args]

\* The numbers of a model: 99 stands for the largest integer that is exact.
Numbers == 0..99
MaxExact == 99
IsNumber(token) == \E n \in Numbers : ToString(n) = token.text
ValueOf(token) == CHOOSE n \in Numbers : ToString(n) = token.text
=============================================================================
