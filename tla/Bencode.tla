------------------------------- MODULE Bencode -------------------------------
(***************************************************************************)
(* The decoder and encoder of lib/bencode, and the search for a key that   *)
(* the program added to it.  Bencoded text is a sequence of tokens:        *)
(*   "d", "l", "e"   the characters that open and close a container        *)
(*   "i"             i<num>e                                               *)
(*   "s"             <num>:<str>, a string of num bytes                    *)
(*   "?"             anything else, a truncated or malformed element       *)
(* All tokens are records with the same fields.  A token is not plain if   *)
(* its number is written in another way than Encoder writes it: i+5e, i-0e *)
(* and 04:abcd are decoded like i5e, i0e and 4:abcd.  Numbers fit the      *)
(* int64 of BInteger: for one that does not the decoder keeps a value it   *)
(* has never set, which is not modelled.                                   *)
(***************************************************************************)
EXTENDS Integers, SequencesExt

CONSTANT KeyOrder      \* the strings that are keys, in the order of `<`

Token(kind) == [kind |-> kind, num |-> 0, str |-> "", plain |-> TRUE]
IntToken(n) == [kind |-> "i", num |-> n, str |-> "", plain |-> TRUE]
StrToken(s, length) == [kind |-> "s", num |-> length, str |-> s, plain |-> TRUE]
NotPlain(token) == [token EXCEPT !.plain = FALSE]
Key(s) == StrToken(s, 1)    \* lengths of keys do not matter

\* The classes derived from BItem.
BInteger(n) == [type |-> "integer", value |-> n]
BString(s, length) == [type |-> "string", str |-> s, length |-> length]
BList(items) == [type |-> "list", items |-> items]
BDictionary(map) == [type |-> "dictionary", map |-> map]

Malformed == [type |-> "DecodingError"]
NoValue == [type |-> "nullptr"]

-----------------------------------------------------------------------------
(* Decoder.  decode of a position yields the item and the position after   *)
(* it, or Malformed: the exception passes through every caller.            *)

Decoded(item, next) == [item |-> item, next |-> next]
Failed == Decoded(Malformed, 0)

IsFailed(d) == d.item = Malformed

CloseAt(input, i) == input[i].kind = "e"

\* A key that came before gets the new value.
Mapped(map, key, value) ==
    [k \in DOMAIN map \union {key} |-> IF k = key THEN value ELSE map[k]]

\* What a malformed integer or string throws is the token "?".  How a number was
\* written is lost.
DecodeInteger(input, i) == Decoded(BInteger(input[i].num), i + 1)
DecodeStringItem(input, i) == Decoded(BString(input[i].str, input[i].num), i + 1)

RECURSIVE DecodeAt(_, _), DecodeList(_, _, _), DecodeDictionary(_, _, _)

\* Variant of DecodeList that prepends.
DecodeListReversed(input, i, items) ==
    IF i > Len(input) THEN Failed
    ELSE IF CloseAt(input, i) THEN Decoded(BList(items), i + 1)
    ELSE LET d == DecodeAt(input, i)
         IN  IF IsFailed(d) THEN Failed ELSE DecodeList(input, d.next, <<d.item>> \o items)

DecodeList(input, i, items) ==
    IF i > Len(input) THEN Failed
    ELSE IF CloseAt(input, i) THEN Decoded(BList(items), i + 1)
    ELSE LET d == DecodeAt(input, i)
         IN  IF IsFailed(d) THEN Failed ELSE DecodeList(input, d.next, Append(items, d.item))

\* Keys in any order.
DecodeDictionary(input, i, map) ==
    IF i > Len(input) THEN Failed
    ELSE IF CloseAt(input, i) THEN Decoded(BDictionary(map), i + 1)
    ELSE LET key == DecodeAt(input, i)
         IN  IF key.item.type # "string" THEN Failed
             ELSE LET value == DecodeAt(input, key.next)
                  IN  IF IsFailed(value) THEN Failed
                      ELSE DecodeDictionary(input, value.next,
                                            Mapped(map, key.item.str, value.item))

DecodeAt(input, i) ==
    IF i > Len(input) THEN Failed
    ELSE CASE input[i].kind = "d" -> DecodeDictionary(input, i + 1, [k \in {} |-> NoValue])
           [] input[i].kind = "l" -> DecodeList(input, i + 1, <<>>)
           [] input[i].kind = "i" -> DecodeInteger(input, i)
           [] input[i].kind = "s" -> DecodeStringItem(input, i)
           [] OTHER -> Failed

\* decode(istream): what follows the first item is left unread.
DecodeStream(input) == DecodeAt(input, 1).item

\* decode(string): the input must have been read to its end.
DecodeString(input) ==
    LET d == DecodeAt(input, 1)
    IN  IF ~IsFailed(d) /\ d.next # Len(input) + 1 THEN Malformed ELSE d.item

-----------------------------------------------------------------------------
(* Encoder: all its tokens are plain.                                      *)

\* Variant of KeysInOrder with the order turned round.
KeysInOrderReversed(map) == Reverse(SelectSeq(KeyOrder, LAMBDA k : k \in DOMAIN map))

KeysInOrder(map) == SelectSeq(KeyOrder, LAMBDA k : k \in DOMAIN map)

RECURSIVE Encode(_)

EncodeItems(items) == FlattenSeq([i \in DOMAIN items |-> Encode(items[i])])

\* A map iterates in the order of its keys.
EncodeMap(map) ==
    LET keys == KeysInOrder(map)
    IN  FlattenSeq([i \in DOMAIN keys |-> <<Key(keys[i])>> \o Encode(map[keys[i]])])

Encode(item) ==
    CASE item.type = "integer" -> <<IntToken(item.value)>>
      [] item.type = "string" -> <<StrToken(item.str, item.length)>>
      [] item.type = "list" -> <<Token("l")>> \o EncodeItems(item.items) \o <<Token("e")>>
      [] item.type = "dictionary" -> <<Token("d")>> \o EncodeMap(item.map) \o <<Token("e")>>

-----------------------------------------------------------------------------
(* BDictionary::getValue and BList::getValue.                              *)

\* The first value found, of those of a sequence of alternatives.
FirstFound(values) ==
    LET found == SelectSeq(values, LAMBDA v : v # NoValue)
    IN  IF found = <<>> THEN NoValue ELSE Head(found)

RECURSIVE GetValue(_, _)

\* A list is searched for dictionaries only: no list within a list.
ListGetValue(items, key) ==
    FirstFound([i \in DOMAIN items |->
        IF items[i].type = "dictionary" THEN GetValue(items[i].map, key) ELSE NoValue])

\* Variant of EntryGetValue that does not look into lists.
EntryGetValueFlat(k, value, key) ==
    CASE k = key -> value
      [] k # key /\ value.type = "dictionary" -> GetValue(value.map, key)
      [] OTHER -> NoValue

\* One round of the loop of BDictionary::getValue.
EntryGetValue(k, value, key) ==
    CASE k = key -> value
      [] k # key /\ value.type = "dictionary" -> GetValue(value.map, key)
      [] k # key /\ value.type = "list" -> ListGetValue(value.items, key)
      [] OTHER -> NoValue

GetValue(map, key) ==
    LET keys == KeysInOrder(map)
    IN  FirstFound([i \in DOMAIN keys |-> EntryGetValue(keys[i], map[keys[i]], key)])

=============================================================================
