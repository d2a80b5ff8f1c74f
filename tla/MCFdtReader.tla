---------------------------- MODULE MCFdtReader ----------------------------
(***************************************************************************)
(* Instances of FdtReader: every node name of up to 4 characters with an @ *)
(* or without and a few longer ones, properties of 0 to 5 bytes, and       *)
(* property names of at most 4.                                            *)
(***************************************************************************)
EXTENDS FdtReader

Names(n) == UNION {[1 .. k -> {"a", "1", "@", "/"}] : k \in 0 .. n}

Value(n) == [k \in 1 .. n |-> "v"]

\* The strings block: a name, a name of 4, one with a property's character, one
\* with none of the characters, and one that is not terminated.
MCTable == <<"a", "1", "nul", "a", "a", "a", "a", "nul", "#", "nul", "@", "nul", "a">>

Root == Begin(<< >>)

\* One node name of every form.
Named(name) == <<Root, Begin(name), Other("END_NODE"), Other("END_NODE"), Other("END")>>

\* Nodes and properties of every padding, in every order.
Mixed == {Begin(<<"a">>), Begin(<<"a", "1", "a">>), Begin(<<"a", "@", "1", "1", "1">>),
          Prop(0, Value(0)), Prop(1, Value(1)), Prop(8, Value(5)), Other("NOP")}

Long == <<"a", "a", "a", "a">>

MCDocuments ==
  {Named(name) : name \in Names(4) \cup {Long, Long \o <<"@", "a">>, <<"a", "a", "a", "@", "a">>}}
    \cup {<<Root, x, y, z, Other("END")>> : x, y, z \in Mixed}
    \cup {<<Root, Prop(k, Value(k % 4)), Other("END_NODE"), Other("END")>> : k \in 0 .. 13}
    \cup {<<Begin(<<"a">>), Other("END")>>}

=============================================================================
