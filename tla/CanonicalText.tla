--------------------------- MODULE CanonicalText ---------------------------
(***************************************************************************)
(* Canonical JSON in two languages: what encodeCanonical of internal/      *)
(* license/canonical.go and encode of verifier-node/src/canonical.ts make  *)
(* of a value, given what they make of the values in it.                   *)
(*                                                                         *)
(* A text is a sequence of code points.  Field names, booleans and numbers *)
(* are one character long; all else is as in the code.                     *)
(*                                                                         *)
(* Ten integers stand for all: 8 for one past 2^53 that a double holds, 9  *)
(* for its neighbour that no double holds.  A number is spelt as the       *)
(* encoders spell it or, a Real, as only JavaScript takes it (1.0, 1e2,    *)
(* more than 64 bits); the last Real has no integer for its value (1.5).   *)
(***************************************************************************)
EXTENDS Naturals, Sequences, FiniteSets, SequencesExt

Char(s) == CASE s = "true" -> 116 [] s = "false" -> 102 [] s = "null" -> 110

(* Code points past the first plane take two UTF-16 units, surrogates.     *)
Plane == 256 * 256
High == 216 * 256
Low == 220 * 256

(* A string without lone surrogates, which encoding/json would replace.    *)
Rune == {c \in Nat : c < 17 * Plane /\ (c < High \/ Low + 1024 <= c)}
Text == Seq(Rune)

(* A JSON value; the members of an object are in the order of the file.    *)
Null == [t |-> "null"]
Bool(b) == [t |-> "bool", b |-> b]
Num(n) == [t |-> "num", n |-> n]
Real(n) == [t |-> "real", n |-> n]
Str(s) == [t |-> "str", s |-> s]
Arr(items) == [t |-> "arr", items |-> items]
Obj(members) == [t |-> "obj", members |-> members]

(* The values without values in them, and those with only such in them.    *)
Scalars ==
  {Null} \union [t : {"bool"}, b : BOOLEAN] \union [t : {"num", "real"}, n : 0..9]
    \union [t : {"str"}, s : Text]
Members(V) == Seq(Text \X V)
Holding(V) ==
  Scalars \union [t : {"arr"}, items : Seq(V)] \union [t : {"obj"}, members : Members(V)]
Flat == Holding(Scalars)

(* What json.Unmarshal and JSON.parse keep of the members: the last value  *)
(* of each key.                                                            *)
KeysIn(members) == {members[i][1] : i \in DOMAIN members}
LastOf(members, k) ==
  LET at == {i \in DOMAIN members : members[i][1] = k}
  IN  members[CHOOSE i \in at : \A j \in at : j <= i][2]

(* JSON.parse, given what it makes of the values in the value: it keeps a  *)
(* double, not the spelling of a number.                                   *)
JsNumber(v) ==
  CASE v.t = "real" /\ v.n # 9 -> Num(v.n)
    [] v = Num(9) -> Num(8)
    [] OTHER -> v

JsRead(Read(_), v) ==
  CASE v.t = "arr" -> Arr([i \in DOMAIN v.items |-> Read(v.items[i])])
    [] v.t = "obj" ->
         Obj([i \in DOMAIN v.members |-> <<v.members[i][1], Read(v.members[i][2])>>])
    [] OTHER -> JsNumber(v)

Utf16(c) ==
  IF c < Plane THEN <<c>>
  ELSE <<High + (c - Plane) \div 1024, Low + ((c - Plane) % 1024)>>
Units(s) == FlattenSeq([i \in DOMAIN s |-> Utf16(s[i])])

(* The order of two sequences of numbers, element by element.              *)
Before(a, b) ==
  \/ \E i \in DOMAIN a \intersect DOMAIN b :
       a[i] < b[i] /\ \A j \in 1..(i - 1) : a[j] = b[j]
  \/ Len(a) < Len(b) /\ \A j \in DOMAIN a : a[j] = b[j]

(* The keys in the order of their spellings.                               *)
Sorted(keys, spelling) ==
  [i \in 1..Cardinality(keys) |->
     CHOOSE k \in keys :
       Cardinality({j \in keys : Before(spelling[j], spelling[k])}) = i - 1]

Joined(texts) ==
  FlattenSeq([i \in DOMAIN texts |-> IF i > 1 THEN <<44>> \o texts[i] ELSE texts[i]])

Hex(n) == IF n < 10 THEN 48 + n ELSE 87 + n

(* An encoder that fails makes no text: its error, here a mark that no text*)
(* has in it, is the answer for all that the number is in.                 *)
Failed(v) == <<17 * Plane + v.n>>

-----------------------------------------------------------------------------
(* canonical.go.                                                           *)
BugSortsByCodePoint(keys) == Sorted(keys, [k \in keys |-> k])

SortByUtf16(keys) == Sorted(keys, [k \in keys |-> Units(k)])

ShortEscape(c) ==
  CASE c \in {34, 92} -> <<c>>
    [] c = 8 -> <<98>> [] c = 9 -> <<116>> [] c = 10 -> <<110>>
    [] c = 12 -> <<102>> [] c = 13 -> <<114>>
    [] OTHER -> <<>>

LongEscape(c) == <<92, 117, 48, 48, Hex(c \div 16), Hex(c % 16)>>

BugForgetsQuotes(c) == IF c < 32 THEN LongEscape(c) ELSE <<c>>
BugForgetsControls(c) == IF ShortEscape(c) # <<>> THEN <<92>> \o ShortEscape(c) ELSE <<c>>
BugEscapesHtml(c) ==
  IF c \in {60, 62, 38} \/ c < 32 THEN LongEscape(c)
  ELSE IF ShortEscape(c) # <<>> THEN <<92>> \o ShortEscape(c) ELSE <<c>>

GoRune(c) ==
  IF ShortEscape(c) # <<>> THEN <<92>> \o ShortEscape(c)
  ELSE IF c < 32 THEN LongEscape(c) ELSE <<c>>

GoString(s) == <<34>> \o FlattenSeq([i \in DOMAIN s |-> GoRune(s[i])]) \o <<34>>

GoScalar(v) ==
  CASE v.t = "null" -> <<Char("null")>>
    [] v.t = "bool" -> <<Char(IF v.b THEN "true" ELSE "false")>>
    [] v.t = "num" -> <<48 + v.n>>
    [] v.t = "real" -> Failed(v)
    [] v.t = "str" -> GoString(v.s)

(* encodeCanonical, where Go encodes what is in the value.                 *)
GoValue(Go(_), v) ==
  CASE v.t = "arr" -> <<91>> \o Joined([i \in DOMAIN v.items |-> Go(v.items[i])]) \o <<93>>
    [] v.t = "obj" ->
         LET keys == SortByUtf16(KeysIn(v.members))
             member(k) == GoString(k) \o <<58>> \o Go(LastOf(v.members, k))
         IN  <<123>> \o Joined([i \in DOMAIN keys |-> member(keys[i])]) \o <<125>>
    [] OTHER -> GoScalar(v)

(* canonical.ts.  A string is a sequence of UTF-16 units there, which      *)
(* for (const ch of s) takes apart into code points.                       *)
IsHigh(u) == High <= u /\ u < Low
Pair(high, low) == Plane + (high - High) * 1024 + (low - Low)
CodePoints(u) ==
  FlattenSeq([i \in DOMAIN u |->
    IF i > 1 /\ IsHigh(u[i - 1]) THEN <<>>
    ELSE IF IsHigh(u[i]) THEN <<Pair(u[i], u[i + 1])>>
    ELSE <<u[i]>>])

JsEscapes == [c \in {34, 92, 8, 9, 10, 12, 13} |->
                CASE c = 8 -> 98 [] c = 9 -> 116 [] c = 10 -> 110
                  [] c = 12 -> 102 [] c = 13 -> 114 [] OTHER -> c]

JsCodePoint(c) ==
  IF c \in DOMAIN JsEscapes THEN <<92, JsEscapes[c]>>
  ELSE IF c < 32 THEN LongEscape(c)
  ELSE <<c>>

JsString(u) ==
  LET points == CodePoints(u)
  IN  <<34>> \o FlattenSeq([i \in DOMAIN points |-> JsCodePoint(points[i])]) \o <<34>>

JsScalar(v) ==
  CASE v.t = "null" -> <<Char("null")>>
    [] v.t = "bool" -> <<Char(IF v.b THEN "true" ELSE "false")>>
    [] v.t = "num" -> <<48 + v.n>>
    [] v.t = "real" -> Failed(v)
    [] v.t = "str" -> JsString(Units(v.s))

(* encode, where Js encodes what is in the value.                          *)
JsValue(Js(_), v) ==
  CASE v.t = "arr" -> <<91>> \o Joined([i \in DOMAIN v.items |-> Js(v.items[i])]) \o <<93>>
    [] v.t = "obj" ->
         LET units == {Units(k) : k \in KeysIn(v.members)}
             keys == Sorted(units, [u \in units |-> u])
             member(u) == JsString(u) \o <<58>> \o Js(LastOf(v.members, CodePoints(u)))
         IN  <<123>> \o Joined([i \in DOMAIN keys |-> member(keys[i])]) \o <<125>>
    [] OTHER -> JsScalar(v)
=============================================================================
