---------------------------- MODULE FdtStructure ----------------------------
(***************************************************************************)
(* Validation of an FDT structure block and navigation of the result       *)
(* (fdt/src/structure.rs, fdt/src/structure/view.rs).                      *)
(*                                                                         *)
(* Structure::new makes one pass over the tokens of the block.  For every  *)
(* node it scans the prefix again for an earlier sibling of that name, for *)
(* every property the node's properties.  The iterators of the view later  *)
(* walk the same tokens without any error path: whatever validation let    *)
(* through and they cannot handle is a panic.                              *)
(*                                                                         *)
(* The block is a sequence of items, a token with its payload each; the    *)
(* item is chosen when the reader gets to it, so every block that is not   *)
(* rejected earlier is explored.  A name is a member of Names, or empty,   *)
(* or Bad: rejected by the rules for names.  A payload that the end of the *)
(* block cuts short, padding included, is Cut.                             *)
(***************************************************************************)
EXTENDS Integers, Sequences, FiniteSets

CONSTANTS
  Names,          \* valid names of nodes and of properties
  Bad,            \* stands for every name the rules reject
  Cut,            \* a payload the block is too short for
  MaxSize         \* bound: size of a block

VARIABLES
  block,            \* the items read so far
  depth,            \* open nodes
  phase,            \* NodePhase of the innermost one
  properties_start, \* where its properties begin
  at,               \* where the pass is: "root", "tree", "end", "Ok" or an error
  node,             \* the Node in hand: the item that opens it
  view              \* the iterator in hand

vars == <<block, depth, phase, properties_start, at, node, view>>

Empty == "empty"

Item(token, name) == [token |-> token, name |-> name]

Nop == Item("Nop", Empty)

Last == Item("End", Empty)

\* What may be found where a token is expected: a token and its payload, an
\* unknown value, or less than a token.
Items ==
  {Item("BeginNode", name) : name \in Names \cup {Empty, Bad, Cut}}
    \cup {Item("Property", name) : name \in Names \cup {Bad, Cut}}
    \cup {Item("EndNode", Empty), Nop, Last, Item("Invalid", Empty), Item("Nothing", Empty)}

\* Nops and properties count double: nodes take two items each.
Size == Len(block) + Cardinality({i \in DOMAIN block : block[i].token \in {"Nop", "Property"}})

\* No iterator is open.
Closed == [kind |-> "none", position |-> 0, depth |-> 0, finished |-> FALSE, yielded |-> << >>]

Init ==
  /\ block = << >>
  /\ depth = 0
  /\ phase = "Properties"
  /\ properties_start = 0
  /\ at = "root"
  /\ node = 0
  /\ view = Closed

-----------------------------------------------------------------------------
(* Structure::new.                                                         *)

\* The item that opens the root: the first that is not a Nop.
RootAt == CHOOSE i \in DOMAIN block : block[i] # Nop /\ \A j \in 1 .. i - 1 : block[j] = Nop

\* Variant: a match below an earlier parent of the same depth is kept.
MatchKept(scan, i, parent_depth, name) ==
  IF scan.depth = parent_depth /\ block[i].name = name THEN i ELSE scan.match

\* The sibling recorded after the node opened by item i: entering a node that
\* may be the parent discards what was found under an earlier one.
MatchAfter(scan, i, parent_depth, name) ==
  IF scan.depth + 1 = parent_depth THEN 0
  ELSE IF scan.depth = parent_depth /\ block[i].name = name THEN i
  ELSE scan.match

\* The scan of the prefix for a sibling of that name, 0 when there is none.
FindPriorSiblingNode(parent_depth, name) ==
  LET Scan[i \in RootAt .. Len(block)] ==
        IF i = RootAt THEN [depth |-> 1, match |-> 0]
        ELSE LET scan == Scan[i - 1]
             IN  CASE block[i].token = "BeginNode" ->
                        [depth |-> scan.depth + 1, match |-> MatchAfter(scan, i, parent_depth, name)]
                   [] block[i].token = "EndNode" -> [scan EXCEPT !.depth = @ - 1]
                   [] OTHER -> scan
  IN  Scan[Len(block)].match

\* The scan of the node's properties: every item but a Nop is taken for one.
FindProperty(name) ==
  \E i \in properties_start .. Len(block) : block[i] # Nop /\ block[i].name = name

\* Why an item ends the pass, whatever was expected.
Unreadable(item) ==
  CASE item.token = "Nothing" -> "Read"
    [] item.token = "Invalid" -> "InvalidToken"
    [] item.name = Cut -> "Read"
    [] item.name = Bad -> "InvalidName"
    [] OTHER -> "Ok"

Read(item) ==
  /\ Size < MaxSize
  /\ block' = Append(block, item)
  /\ UNCHANGED <<node, view>>

Reject(error) == at' = error /\ UNCHANGED <<depth, phase, properties_start>>

EnterNode ==
  /\ depth' = depth + 1
  /\ phase' = "Properties"
  /\ properties_start' = Len(block) + 2
  /\ at' = "tree"

\* Up to the root node, whose name is empty.
ReadRoot(item) ==
  /\ at = "root"
  /\ Read(item)
  /\ \/ item = Nop /\ UNCHANGED <<depth, phase, properties_start, at>>
     \/ item = Item("BeginNode", Empty) /\ EnterNode
     \/ item.token = "BeginNode" /\ item.name # Empty
          /\ Reject(IF item.name = Cut THEN "Read" ELSE "RootNameNotEmpty")
     \/ item.token \notin {"Nop", "BeginNode"}
          /\ Reject(IF item.token \in {"Nothing", "Invalid"} THEN Unreadable(item)
                    ELSE "ExpectedRootNode")

BeginNode(item) ==
  /\ at = "tree"
  /\ item.token = "BeginNode"
  /\ Read(item)
  /\ \/ item.name \notin Names
          /\ Reject(IF item.name = Cut THEN "Read" ELSE "InvalidName")
     \/ /\ item.name \in Names
        /\ FindPriorSiblingNode(depth, item.name) # 0
        /\ Reject("DuplicateNodeName")
     \/ /\ item.name \in Names
        /\ FindPriorSiblingNode(depth, item.name) = 0
        /\ EnterNode

EndNode ==
  /\ at = "tree"
  /\ Read(Item("EndNode", Empty))
  /\ depth' = depth - 1
  /\ phase' = IF depth > 1 THEN "Children" ELSE phase
  /\ at' = IF depth > 1 THEN "tree" ELSE "end"
  /\ UNCHANGED properties_start

Property(item) ==
  /\ at = "tree"
  /\ item.token = "Property"
  /\ Read(item)
  /\ \/ phase = "Children" /\ Reject("PropertyAfterChild")
     \/ phase = "Properties" /\ item.name \notin Names /\ Reject(Unreadable(item))
     \/ /\ phase = "Properties"
        /\ item.name \in Names
        /\ IF FindProperty(item.name) THEN Reject("DuplicatePropertyName")
           ELSE UNCHANGED <<depth, phase, properties_start, at>>

OtherToken(item) ==
  /\ at = "tree"
  /\ item.token \in {"Nop", "End", "Invalid", "Nothing"}
  /\ Read(item)
  /\ IF item = Nop THEN UNCHANGED <<depth, phase, properties_start, at>>
     ELSE Reject(IF item = Last THEN "PrematureEnd" ELSE Unreadable(item))

\* Behind the root node: Nops and the End item, then nothing.
ReadEnd(item) ==
  /\ at = "end"
  /\ \/ item = Nop /\ Read(item) /\ UNCHANGED <<depth, phase, properties_start, at>>
     \/ item = Last /\ Read(item) /\ Reject("Ok")
     \/ /\ item = Last
        /\ block' = block \o <<Last, Item("Trailing", Empty)>>
        /\ Reject("TrailingData")
        /\ UNCHANGED <<node, view>>
     \/ /\ item.token \notin {"Nop", "End"}
        /\ Read(item)
        /\ Reject(IF item.token \in {"Nothing", "Invalid"} THEN Unreadable(item)
                  ELSE "ExpectedEnd")

Validate ==
  \/ EndNode
  \/ \E item \in Items :
       ReadRoot(item) \/ BeginNode(item) \/ Property(item) \/ OtherToken(item) \/ ReadEnd(item)

-----------------------------------------------------------------------------
(* Navigation of a validated structure.                                    *)

Validated == at = "Ok" /\ UNCHANGED <<block, depth, phase, properties_start, at>>

\* Fdt::root.
Root ==
  /\ Validated
  /\ node = 0
  /\ node' = RootAt
  /\ UNCHANGED view

\* Node::properties, children and descendants: an iterator at the content of
\* the node.
Iterate(kind) ==
  /\ Validated
  /\ node # 0
  /\ view = Closed
  /\ view' = [Closed EXCEPT !.kind = kind, !.position = node + 1]
  /\ UNCHANGED node

Advance == [view EXCEPT !.position = @ + 1]

Yield(v) == [v EXCEPT !.yielded = Append(@, view.position)]

Finish == [Advance EXCEPT !.finished = TRUE]

Panic == [view EXCEPT !.kind = "panic"]

\* The token is read and may be an End only by a violated invariant.
Current == IF view.position \in DOMAIN block THEN block[view.position].token ELSE "Nothing"

NextProperty ==
  CASE Current = "Property" -> Yield(Advance)
    [] Current = "Nop" -> Advance
    [] Current \in {"BeginNode", "EndNode"} -> Finish
    [] OTHER -> Panic

Deeper == [Advance EXCEPT !.depth = @ + 1]

Shallower == IF view.depth = 0 THEN Finish ELSE [Advance EXCEPT !.depth = @ - 1]

\* Variant: the end of a child is taken for the end of the node.
NextChildOfFirst ==
  CASE Current \in {"Property", "Nop"} -> Advance
    [] Current = "BeginNode" -> IF view.depth = 0 THEN Yield(Deeper) ELSE Deeper
    [] Current = "EndNode" -> IF view.depth <= 1 THEN Finish ELSE Shallower
    [] OTHER -> Panic

NextChild ==
  CASE Current \in {"Property", "Nop"} -> Advance
    [] Current = "BeginNode" -> IF view.depth = 0 THEN Yield(Deeper) ELSE Deeper
    [] Current = "EndNode" -> Shallower
    [] OTHER -> Panic

NextDescendant ==
  CASE Current \in {"Property", "Nop"} -> Advance
    [] Current = "BeginNode" -> Yield(Deeper)
    [] Current = "EndNode" -> Shallower
    [] OTHER -> Panic

\* One iteration of the loop of next().
Step ==
  /\ Validated
  /\ view.kind \in {"properties", "children", "descendants"}
  /\ ~view.finished
  /\ view' = CASE view.kind = "properties" -> NextProperty
               [] view.kind = "children" -> NextChild
               [] view.kind = "descendants" -> NextDescendant
  /\ UNCHANGED node

\* The caller goes on with the node that next() returned.
Take ==
  /\ Validated
  /\ view.kind \in {"children", "descendants"}
  /\ view.yielded # << >>
  /\ node' = view.yielded[Len(view.yielded)]
  /\ view' = Closed

\* The caller drops the iterator and starts over.
Restart ==
  /\ Validated
  /\ view.finished
  /\ node' = 0
  /\ view' = Closed

Navigate == Root \/ (\E kind \in {"properties", "children", "descendants"} : Iterate(kind)) \/ Step \/ Take \/ Restart

Next == Validate \/ Navigate

Spec == Init /\ [][Next]_vars
-----------------------------------------------------------------------------
(* Reference: what a structure block is, said without a pass over it.      *)

Tokens(token, i, j) == {k \in i .. j : block[k].token = token}

\* The nodes open behind item i.
Level(i) == Cardinality(Tokens("BeginNode", 1, i)) - Cardinality(Tokens("EndNode", 1, i))

\* The level of the node that contains item i.
Outer(i) == IF block[i].token = "BeginNode" THEN Level(i) - 1 ELSE Level(i)

\* The node that contains item i is the latest one opened at its level.
IsParent(k, i) ==
  /\ k \in Tokens("BeginNode", 1, i - 1)
  /\ Level(k) = Outer(i)
  /\ \A j \in Tokens("BeginNode", k + 1, i - 1) : Level(j) # Outer(i)

SameParent(i, j) == \E k \in DOMAIN block : IsParent(k, i) /\ IsParent(k, j)

IsRoot(i) == block[i] = Item("BeginNode", Empty) /\ Level(i) = 1

\* An item that may stand where it stands.
Legal(i) ==
  CASE block[i].token = "Nop" -> TRUE
    [] block[i].token = "BeginNode" ->
         \/ IsRoot(i) /\ Tokens("BeginNode", 1, i - 1) = {}
         \/ block[i].name \in Names /\ \E k \in DOMAIN block : IsParent(k, i)
    [] block[i].token = "EndNode" -> Level(i) >= 0
    [] block[i].token = "Property" ->
         /\ block[i].name \in Names
         /\ \E k \in DOMAIN block : IsParent(k, i)
         /\ \A j \in Tokens("BeginNode", 1, i - 1) : ~SameParent(j, i)
    [] block[i].token = "End" ->
         /\ Level(i) = 0
         /\ Tokens("BeginNode", 1, i) # {}
         /\ i = Len(block)
    [] OTHER -> FALSE

\* The items read so far begin some valid block: each stands where it may, and
\* siblings and the properties of a node have different names.
ValidPrefix ==
  /\ \A i \in DOMAIN block : Legal(i)
  /\ \A i, j \in DOMAIN block :
       i < j /\ block[i].token = block[j].token /\ block[i].token \in {"BeginNode", "Property"}
         /\ SameParent(i, j) => block[i].name # block[j].name

\* Structure::new accepts exactly the valid blocks, and rejects a block at the
\* first item that no valid block could have there: the phase, the depth and
\* the two repeated scans amount to the definition of a tree.
ValidationIsExact ==
  node = 0 =>
    /\ at \in {"root", "tree", "end", "Ok"} <=> ValidPrefix
    /\ at = "Ok" <=> at \in {"root", "tree", "end", "Ok"} /\ block # << >> /\ block[Len(block)] = Last

\* The items that belong to the node opened by item i.
Inside(i) ==
  {j \in i + 1 .. Len(block) : \A k \in i .. j : Level(k) >= Level(i)}

Expected ==
  CASE view.kind = "properties" ->
         {j \in Inside(node) : block[j].token = "Property" /\ Level(j) = Level(node)}
    [] view.kind = "children" ->
         {j \in Inside(node) : block[j].token = "BeginNode" /\ Level(j) = Level(node) + 1}
    [] view.kind = "descendants" -> {j \in Inside(node) : block[j].token = "BeginNode"}

\* The iterators never meet what their panics stand for, and yield the node's
\* own properties, children or descendants in block order, none left out and
\* none of another node.
ViewsAreExact ==
  view.kind # "none" =>
    /\ view.kind # "panic"
    /\ {view.yielded[i] : i \in DOMAIN view.yielded} =
         {j \in Expected : j < view.position \/ view.finished}
    /\ \A i, j \in DOMAIN view.yielded : i < j => view.yielded[i] < view.yielded[j]

=============================================================================
