----------------------------- MODULE FdtReader -----------------------------
(***************************************************************************)
(* How the bytes of a structure block become tokens, names and values:     *)
(* fdt/src/reader.rs, strings.rs, structure/name.rs and the reading parts  *)
(* of structure.rs and structure/view.rs.                                  *)
(*                                                                         *)
(* Every field is padded to 4 bytes, counted from where the reader began.  *)
(* Validation reads the block from its start; a view reads a slice that    *)
(* begins at the content of a node, and has no error path.                 *)
(*                                                                         *)
(* A byte is a cell: one of the four parts of a word, which is a token or  *)
(* a number, or a character. A block is the encoding of a document, cut    *)
(* off anywhere. FdtStructure takes up from the items read here: what it   *)
(* calls Bad and Cut are the errors of this module.                        *)
(***************************************************************************)
EXTENDS Integers, Sequences

CONSTANTS
  Documents,    \* sequences of items
  Table,        \* the strings block
  MaxName       \* 31

VARIABLES
  document,     \* what is encoded
  block,        \* the structure block, possibly cut off
  at,           \* "tokens", "Ok" or an error
  offset,       \* Reader::offset of the validating pass
  found,        \* the items it read, and where they begin and end
  content,      \* where the slice of the view in hand begins, or NoView
  position,     \* the offset of its reader within the slice
  seen          \* the latest item it read

vars == <<document, block, at, offset, found, content, position, seen>>

NoView == -1

Character(c) == [value |-> c, number |-> 0, part |-> 0]

Nul == Character("nul")

Word(value, number) == [k \in 1 .. 4 |-> [value |-> value, number |-> number, part |-> k]]

Item(token, name, name_offset, value) ==
  [token |-> token, name |-> name, name_offset |-> name_offset, value |-> value]

Begin(name) == Item("BEGIN_NODE", name, 0, << >>)

\* A property's name is an offset into the strings block.
Prop(name_offset, value) == Item("PROP", << >>, name_offset, value)

Other(token) == Item(token, << >>, 0, << >>)

-----------------------------------------------------------------------------
(* Encoding, as the Devicetree Specification has it.                       *)

Characters(s) == [k \in DOMAIN s |-> Character(s[k])]

Padded(s) == s \o [k \in 1 .. (4 - (Len(s) % 4)) % 4 |-> Character("junk")]

Encoded(item) ==
  CASE item.token = "BEGIN_NODE" ->
         Word("BEGIN_NODE", 0) \o Padded(Append(Characters(item.name), Nul))
    [] item.token = "PROP" ->
         Word("PROP", 0) \o Word("number", Len(item.value)) \o Word("number", item.name_offset)
           \o Padded(Characters(item.value))
    [] OTHER -> Word(item.token, 0)

Encoding(items) ==
  LET E[n \in 0 .. Len(items)] == IF n = 0 THEN << >> ELSE E[n - 1] \o Encoded(items[n])
  IN  E[Len(items)]

Init ==
  /\ document \in Documents
  /\ \E size \in 0 .. Len(Encoding(document)) : block = SubSeq(Encoding(document), 1, size)
  /\ at = "tokens"
  /\ offset = 0
  /\ found = << >>
  /\ content = NoView
  /\ position = 0
  /\ seen = Other("none")

-----------------------------------------------------------------------------
(* Reader. A read of the slice that begins at base returns the new offset, *)
(* or Truncated.                                                           *)

Truncated == -1

\* read_bytes; the end of a 32-bit length does not overflow.
read_bytes(base, start, length) ==
  IF base + start + length <= Len(block) THEN start + length ELSE Truncated

\* Variant: an aligned position is padded by a whole word.
PaddingAlways(start) == 4 - (start % 4)

Padding(start) == (4 - (start % 4)) % 4

align_to_4(base, start) == read_bytes(base, start, Padding(start))

\* The word that read_u32 finds at an offset that is not truncated; bytes of
\* different words make none.
WordAt(base, start) ==
  LET cells == SubSeq(block, base + start + 1, base + start + 4)
  IN  IF cells = Word(cells[1].value, cells[1].number) THEN cells[1]
      ELSE [value |-> "garbage", number |-> 0, part |-> 1]

\* read_nul_terminated: the offset behind the terminator.
read_nul_terminated(base, start) ==
  LET ends == {k \in base + start + 1 .. Len(block) : block[k] = Nul}
  IN  IF ends = {} THEN Truncated
      ELSE (CHOOSE k \in ends : \A j \in ends : k <= j) - base

\* The bytes between two offsets.
Slice(base, from, to) == [k \in 1 .. to - from |-> block[base + from + k].value]

-----------------------------------------------------------------------------
(* Names.                                                                  *)

Alphabetic == {"a"}

\* is_valid_character.
NameCharacters == Alphabetic \cup {"1"}

\* The characters validate_property_name accepts.
PropertyCharacters == NameCharacters \cup {"#"}

Ats(name) == {k \in DOMAIN name : name[k] = "@"}

FirstAt(name) ==
  IF Ats(name) = {} THEN Len(name) + 1 ELSE CHOOSE k \in Ats(name) : \A j \in Ats(name) : k <= j

\* component and unit_address.
component(name) == SubSeq(name, 1, FirstAt(name) - 1)

unit_address(name) == SubSeq(name, FirstAt(name) + 1, Len(name))

AllIn(s, set) == \A k \in DOMAIN s : s[k] \in set

\* validate: accepts a node name.
ValidateNodeName(name) ==
  LET node_name == component(name)
  IN  /\ Len(node_name) \in 1 .. MaxName
      /\ node_name[1] \in Alphabetic
      /\ AllIn(node_name, NameCharacters)
      /\ Ats(name) # {} =>
           unit_address(name) # << >> /\ AllIn(unit_address(name), NameCharacters)

\* validate_property_name.
ValidatePropertyName(name_offset) ==
  LET ends == {k \in name_offset + 1 .. Len(Table) : Table[k] = "nul"}
      end == CHOOSE k \in ends : \A j \in ends : k <= j
      name == SubSeq(Table, name_offset + 1, end - 1)
  IN  /\ name_offset < Len(Table)
      /\ ends # {}
      /\ Len(name) \in 1 .. MaxName
      /\ AllIn(name, PropertyCharacters)

-----------------------------------------------------------------------------
(* Items.                                                                  *)

Failed(error) == [error |-> error, item |-> Other("none"), end |-> 0]

Read(item, end) ==
  IF end = Truncated THEN Failed("Read") ELSE [error |-> "Ok", item |-> item, end |-> end]

\* The root's name: one byte, which must end it, and the padding.
ReadRootName(base, start) ==
  LET end == read_bytes(base, start, 1)
  IN  IF end = Truncated THEN Failed("Read")
      ELSE IF block[base + start + 1] # Nul THEN Failed("RootNameNotEmpty")
      ELSE Read(Begin(<< >>), align_to_4(base, end))

\* Any other name, validated before its padding is read; a view of a validated
\* block validates none.
ReadNodeName(base, start, reader) ==
  LET end == read_nul_terminated(base, start)
      name == Slice(base, start, end - 1)
  IN  IF end = Truncated THEN Failed("Unterminated")
      ELSE IF reader = "node" /\ ~ValidateNodeName(name) THEN Failed("InvalidName")
      ELSE Read(Begin(name), align_to_4(base, end))

\* A property: length, name, value and padding.
ReadProperty(base, start) ==
  LET header == read_bytes(base, read_bytes(base, start, 4), 4)
      length == WordAt(base, start).number
      name_offset == WordAt(base, start + 4).number
      end == read_bytes(base, header, length)
      value == Slice(base, header, end)
  IN  IF read_bytes(base, start, 8) = Truncated THEN Failed("Read")
      ELSE IF ~ValidatePropertyName(name_offset) THEN Failed("InvalidPropertyName")
      ELSE IF end = Truncated THEN Failed("Read")
      ELSE Read(Prop(name_offset, value), align_to_4(base, end))

\* read_token and what belongs to it.
ReadItem(base, start, reader) ==
  LET next == read_bytes(base, start, 4)
      token == WordAt(base, start).value
  IN  CASE next = Truncated -> Failed("Read")
        [] next # Truncated /\ token = "BEGIN_NODE" ->
             IF reader = "root" THEN ReadRootName(base, next)
             ELSE ReadNodeName(base, next, reader)
        [] next # Truncated /\ token = "PROP" -> ReadProperty(base, next)
        [] next # Truncated /\ token \in {"END_NODE", "NOP", "END"} -> Read(Other(token), next)
        [] OTHER -> Failed("InvalidToken")

\* The node just opened would be the root.
AtRoot == \A i \in DOMAIN found : found[i].item.token # "BEGIN_NODE"

\* One token of Structure::new.
Validate ==
  /\ at = "tokens"
  /\ LET r == ReadItem(0, offset, IF AtRoot THEN "root" ELSE "node")
     IN  \/ /\ r.error # "Ok"
            /\ at' = r.error
            /\ UNCHANGED <<offset, found>>
         \/ /\ r.error = "Ok"
            /\ found' = Append(found, [item |-> r.item, start |-> offset, end |-> r.end])
            /\ offset' = r.end
            /\ at' = IF r.item.token = "END" THEN "Ok" ELSE "tokens"
  /\ UNCHANGED <<document, block, content, position, seen>>

-----------------------------------------------------------------------------
(* Views.                                                                  *)

\* Variant: the slice of a node begins behind its name, before the padding.
ContentUnpadded(i) == found[i].start + 4 + Len(found[i].item.name) + 1

\* remaining_bytes after read_node_name.
ContentOf(i) == found[i].end

\* A view of a node of the validated block.
Open ==
  /\ at = "Ok"
  /\ content = NoView
  /\ \E i \in DOMAIN found :
       /\ found[i].item.token = "BEGIN_NODE"
       /\ content' = ContentOf(i)
  /\ position' = 0
  /\ UNCHANGED <<document, block, at, offset, found, seen>>

\* ValidatedReader: the next token and what belongs to it, or a panic. The
\* iterators stop inside the node; here reading goes on to the end of the tree.
View ==
  /\ content # NoView
  /\ seen.token \notin {"END", "panic"}
  /\ LET r == ReadItem(content, position, "view")
     IN  IF r.error = "Ok" THEN seen' = r.item /\ position' = r.end
         ELSE seen' = Other("panic") /\ UNCHANGED position
  /\ UNCHANGED <<document, block, at, offset, found, content>>

Next == Validate \/ Open \/ View

Spec == Init /\ [][Next]_vars

-----------------------------------------------------------------------------
(* Properties.                                                             *)

\* Reference: a node name is letters and digits behind a letter, at most MaxName
\* of them, and possibly an @ with a nonempty unit address.
NodeName(name) ==
  \E k \in 1 .. MaxName :
    /\ k <= Len(name)
    /\ name[1] \in Alphabetic
    /\ AllIn(SubSeq(name, 1, k), NameCharacters)
    /\ \/ k = Len(name)
       \/ /\ name[k + 1] = "@"
          /\ k + 1 < Len(name)
          /\ AllIn(SubSeq(name, k + 2, Len(name)), NameCharacters)

PropertyName(name_offset) ==
  \E k \in name_offset + 2 .. name_offset + MaxName + 1 :
    /\ k \in DOMAIN Table
    /\ Table[k] = "nul"
    /\ \A j \in name_offset + 1 .. k - 1 : Table[j] \in PropertyCharacters

IsRoot(n) == \A i \in 1 .. n - 1 : document[i].token # "BEGIN_NODE"

Acceptable(n) ==
  CASE document[n].token = "BEGIN_NODE" ->
         IF IsRoot(n) THEN document[n].name = << >> ELSE NodeName(document[n].name)
    [] document[n].token = "PROP" -> PropertyName(document[n].name_offset)
    [] OTHER -> TRUE

\* Reading inverts encoding: whatever the lengths of names and values, and so
\* the padding, the pass finds the items of the document, and it stops early
\* only at an item that is cut off or whose name breaks the rules for names.
ReadsBack ==
  /\ Len(found) <= Len(document)
  /\ \A i \in DOMAIN found : found[i].item = document[i] /\ Acceptable(i)
  /\ at = "Ok" => Len(found) = Len(document)
  /\ at \in {"RootNameNotEmpty", "InvalidName", "InvalidPropertyName"} =>
       ~Acceptable(Len(found) + 1)
  /\ at \in {"Read", "Unterminated"} =>
       offset + Len(Encoded(document[Len(found) + 1])) > Len(block)
  /\ at # "InvalidToken"

\* A view reads what validation read: in a slice that begins at the content of
\* a node, with padding counted from there, every item begins and ends where it
\* did in the block, and no read panics.
SlicesAlign ==
  content # NoView =>
    /\ seen.token # "panic"
    /\ position > 0 =>
         \E i \in DOMAIN found : found[i].end = content + position /\ found[i].item = seen

=============================================================================
