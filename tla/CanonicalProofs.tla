-------------------------- MODULE CanonicalProofs --------------------------
(***************************************************************************)
(* Proofs about Canonical, for all names, values, keys and edits.          *)
(***************************************************************************)
EXTENDS Canonical, CanonicalTextProofs

(* What is in a value is encoded alike.                                    *)
LEMMA MemberAlike ==
  ASSUME NEW v \in Flat
  PROVE  JsMember(v) = GoMember(v)
<1>1. CASE v \in Scalars
  <2>1. v.t # "arr" /\ v.t # "obj" /\ JsScalar(v) = GoScalar(v)
    BY <1>1, ScalarAlike
  <2> QED BY <2>1 DEF JsMember, GoMember, JsValue, GoValue
<1>2. CASE v \in [t : {"arr"}, items : Seq(Scalars)]
  <2>1. v.t = "arr" /\ \A i \in DOMAIN v.items : v.items[i] \in Scalars
    BY <1>2
  <2>2. [i \in DOMAIN v.items |-> JsScalar(v.items[i])] =
        [i \in DOMAIN v.items |-> GoScalar(v.items[i])]
    BY <2>1, ScalarAlike
  <2> QED BY <2>1, <2>2 DEF JsMember, GoMember, JsValue, GoValue
<1>3. CASE v \in [t : {"obj"}, members : Members(Scalars)]
  <2> DEFINE m == v.members
             K == KeysIn(m)
             g == [w \in Scalars |-> GoScalar(w)]
  <2>1. v.t = "obj" /\ m \in Members(Scalars)
    BY <1>3
  <2> HIDE DEF m
  <2>2. /\ \A i \in DOMAIN SortByUtf16(K) : LastOf(m, SortByUtf16(K)[i]) \in Scalars
        /\ \A i \in DOMAIN JsKeys(K) : LastOf(m, CodePoints(JsKeys(K)[i])) \in Scalars
    BY <2>1, KeysTyped
  <2>3. [i \in DOMAIN SortByUtf16(K) |->
           GoString(SortByUtf16(K)[i]) \o <<58>> \o GoScalar(LastOf(m, SortByUtf16(K)[i]))] =
        GoMembers(m, g)
    BY <2>2 DEF GoMembers
  <2>4. [i \in DOMAIN JsKeys(K) |->
           JsString(JsKeys(K)[i]) \o <<58>> \o JsScalar(LastOf(m, CodePoints(JsKeys(K)[i])))] =
        JsMembers(m, g)
    BY <2>2, ScalarAlike DEF JsMembers
  <2>5. JsMembers(m, g) = GoMembers(m, g)
    BY <2>1, MembersAlike
  <2>6. GoMember(v) = <<123>> \o Joined(GoMembers(m, g)) \o <<125>>
    BY <2>1, <2>3 DEF GoMember, GoValue, m
  <2>7. JsMember(v) = <<123>> \o Joined(JsMembers(m, g)) \o <<125>>
    BY <2>1, <2>4 DEF JsMember, JsValue, JsKeys, AllUnits, m
  <2> QED BY <2>5, <2>6, <2>7
<1> QED BY <1>1, <1>2, <1>3 DEF Flat, Holding

(* And so is what is in an object: a file is one.                          *)
LEMMA EncodeAlike ==
  ASSUME NEW v \in Holding(Flat)
  PROVE  JsEncode(v) = GoEncode(v)
<1>1. CASE v \in Scalars
  <2>1. v.t # "arr" /\ v.t # "obj" /\ JsScalar(v) = GoScalar(v)
    BY <1>1, ScalarAlike
  <2> QED BY <2>1 DEF JsEncode, GoEncode, JsValue, GoValue
<1>2. CASE v \in [t : {"arr"}, items : Seq(Flat)]
  <2>1. v.t = "arr" /\ \A i \in DOMAIN v.items : v.items[i] \in Flat
    BY <1>2
  <2>2. [i \in DOMAIN v.items |-> JsMember(v.items[i])] =
        [i \in DOMAIN v.items |-> GoMember(v.items[i])]
    BY <2>1, MemberAlike
  <2> QED BY <2>1, <2>2 DEF JsEncode, GoEncode, JsValue, GoValue
<1>3. CASE v \in [t : {"obj"}, members : Members(Flat)]
  <2> DEFINE m == v.members
             K == KeysIn(m)
             g == [w \in Flat |-> GoMember(w)]
  <2>1. v.t = "obj" /\ m \in Members(Flat)
    BY <1>3
  <2> HIDE DEF m
  <2>2. /\ \A i \in DOMAIN SortByUtf16(K) : LastOf(m, SortByUtf16(K)[i]) \in Flat
        /\ \A i \in DOMAIN JsKeys(K) : LastOf(m, CodePoints(JsKeys(K)[i])) \in Flat
    BY <2>1, KeysTyped
  <2>3. [i \in DOMAIN SortByUtf16(K) |->
           GoString(SortByUtf16(K)[i]) \o <<58>> \o GoMember(LastOf(m, SortByUtf16(K)[i]))] =
        GoMembers(m, g)
    BY <2>2 DEF GoMembers
  <2>4. [i \in DOMAIN JsKeys(K) |->
           JsString(JsKeys(K)[i]) \o <<58>> \o JsMember(LastOf(m, CodePoints(JsKeys(K)[i])))] =
        JsMembers(m, g)
    BY <2>2, MemberAlike DEF JsMembers
  <2>5. JsMembers(m, g) = GoMembers(m, g)
    BY <2>1, MembersAlike
  <2>6. GoEncode(v) = <<123>> \o Joined(GoMembers(m, g)) \o <<125>>
    BY <2>1, <2>3 DEF GoEncode, GoValue, m
  <2>7. JsEncode(v) = <<123>> \o Joined(JsMembers(m, g)) \o <<125>>
    BY <2>1, <2>4 DEF JsEncode, JsValue, JsKeys, AllUnits, m
  <2> QED BY <2>5, <2>6, <2>7
<1> QED BY <1>1, <1>2, <1>3 DEF Holding

(* The texts have no control character in them.                            *)
LEMMA GoMemberTyped ==
  ASSUME NEW v \in Flat
  PROVE  GoMember(v) \in Seq(Printable)
<1>1. CASE v \in Scalars
  <2>1. v.t # "arr" /\ v.t # "obj"
    BY <1>1, ScalarAlike
  <2>2. GoMember(v) = GoScalar(v)
    BY <2>1 DEF GoMember, GoValue
  <2> QED BY <1>1, <2>2, ScalarTyped
<1>2. CASE v \in [t : {"arr"}, items : Seq(Scalars)]
  <2> DEFINE g == [w \in Scalars |-> GoScalar(w)]
             q == v.items
  <2>1. v.t = "arr" /\ q \in Seq(Scalars) /\ \A i \in DOMAIN q : q[i] \in Scalars
    BY <1>2
  <2>2. [i \in DOMAIN q |-> GoScalar(q[i])] = Map(g, q)
    BY <2>1 DEF Map
  <2>3. g \in [Scalars -> Seq(Printable)]
    BY ScalarTyped
  <2>4. GoMember(v) = <<91>> \o Joined(Map(g, q)) \o <<93>>
    BY <2>1, <2>2 DEF GoMember, GoValue
  <2> HIDE DEF g, q
  <2>5. Map(g, q) \in Seq(Seq(Printable))
    BY <2>1, <2>3, Mapped
  <2> QED BY <2>4, <2>5, Bracketed
<1>3. CASE v \in [t : {"obj"}, members : Members(Scalars)]
  <2> DEFINE m == v.members
             K == KeysIn(m)
             g == [w \in Scalars |-> GoScalar(w)]
  <2>1. v.t = "obj" /\ m \in Members(Scalars)
    BY <1>3
  <2> HIDE DEF m
  <2>2. \A i \in DOMAIN SortByUtf16(K) : LastOf(m, SortByUtf16(K)[i]) \in Scalars
    BY <2>1, KeysTyped
  <2>3. [i \in DOMAIN SortByUtf16(K) |->
           GoString(SortByUtf16(K)[i]) \o <<58>> \o GoScalar(LastOf(m, SortByUtf16(K)[i]))] =
        GoMembers(m, g)
    BY <2>2 DEF GoMembers
  <2>4. GoMember(v) = <<123>> \o Joined(GoMembers(m, g)) \o <<125>>
    BY <2>1, <2>3 DEF GoMember, GoValue, m
  <2>5. g \in [Scalars -> Seq(Printable)]
    BY ScalarTyped
  <2> HIDE DEF g
  <2>6. GoMembers(m, g) \in Seq(Seq(Printable))
    BY <2>1, <2>5, GoMembersTyped
  <2> QED BY <2>4, <2>6, Bracketed
<1> QED BY <1>1, <1>2, <1>3 DEF Flat, Holding

LEMMA GoEncodeTyped ==
  ASSUME NEW v \in Holding(Flat)
  PROVE  GoEncode(v) \in Seq(Printable)
<1>1. CASE v \in Scalars
  <2>1. v.t # "arr" /\ v.t # "obj"
    BY <1>1, ScalarAlike
  <2>2. GoEncode(v) = GoScalar(v)
    BY <2>1 DEF GoEncode, GoValue
  <2> QED BY <1>1, <2>2, ScalarTyped
<1>2. CASE v \in [t : {"arr"}, items : Seq(Flat)]
  <2> DEFINE g == [w \in Flat |-> GoMember(w)]
             q == v.items
  <2>1. v.t = "arr" /\ q \in Seq(Flat) /\ \A i \in DOMAIN q : q[i] \in Flat
    BY <1>2
  <2>2. [i \in DOMAIN q |-> GoMember(q[i])] = Map(g, q)
    BY <2>1 DEF Map
  <2>3. g \in [Flat -> Seq(Printable)]
    BY GoMemberTyped
  <2>4. GoEncode(v) = <<91>> \o Joined(Map(g, q)) \o <<93>>
    BY <2>1, <2>2 DEF GoEncode, GoValue
  <2> HIDE DEF g, q
  <2>5. Map(g, q) \in Seq(Seq(Printable))
    BY <2>1, <2>3, Mapped
  <2> QED BY <2>4, <2>5, Bracketed
<1>3. CASE v \in [t : {"obj"}, members : Members(Flat)]
  <2> DEFINE m == v.members
             K == KeysIn(m)
             g == [w \in Flat |-> GoMember(w)]
  <2>1. v.t = "obj" /\ m \in Members(Flat)
    BY <1>3
  <2> HIDE DEF m
  <2>2. \A i \in DOMAIN SortByUtf16(K) : LastOf(m, SortByUtf16(K)[i]) \in Flat
    BY <2>1, KeysTyped
  <2>3. [i \in DOMAIN SortByUtf16(K) |->
           GoString(SortByUtf16(K)[i]) \o <<58>> \o GoMember(LastOf(m, SortByUtf16(K)[i]))] =
        GoMembers(m, g)
    BY <2>2 DEF GoMembers
  <2>4. GoEncode(v) = <<123>> \o Joined(GoMembers(m, g)) \o <<125>>
    BY <2>1, <2>3 DEF GoEncode, GoValue, m
  <2>5. g \in [Flat -> Seq(Printable)]
    BY GoMemberTyped
  <2> HIDE DEF g
  <2>6. GoMembers(m, g) \in Seq(Seq(Printable))
    BY <2>1, <2>5, GoMembersTyped
  <2> QED BY <2>4, <2>6, Bracketed
<1> QED BY <1>1, <1>2, <1>3 DEF Holding

-----------------------------------------------------------------------------
(* Every file, whatever was done to it, is an object of flat values.       *)
Files == [t : {"obj"}, members : Members(Flat)]

Typed ==
  /\ edits \in 0..MaxEdits
  /\ issued # Null => issued \in Files /\ file \in Files

LEMMA Letters ==
  /\ version \in Text /\ id \in Text /\ notAfter \in Text /\ expires \in Text
  /\ licensee \in Text /\ encryptedPayload \in Text /\ ciphertext \in Text
  /\ signature \in Text
<1>1. \A n \in 0..199 : n \in Rune
  BY Planes DEF Rune
<1>2. \A n \in 0..199 : <<n>> \in Text
  BY <1>1 DEF Text
<1> QED
  BY <1>2 DEF version, id, notAfter, expires, licensee, encryptedPayload, ciphertext, signature

LEMMA SomeText == \A n \in 0..199 : <<n>> \in Text
<1>1. \A n \in 0..199 : n \in Rune
  BY Planes DEF Rune
<1> QED BY <1>1 DEF Text

LEMMA SomeFlat ==
  /\ Null \in Scalars /\ \A b \in BOOLEAN : Bool(b) \in Scalars
  /\ \A n \in 0..9 : Num(n) \in Scalars /\ Real(n) \in Scalars
  /\ \A s \in Text : Str(s) \in Scalars
  /\ \A v \in Scalars : v \in Flat
  /\ \A m \in Members(Scalars) : Obj(m) \in Flat
  /\ \A m \in Members(Flat) : Obj(m) \in Files
BY DEF Null, Bool, Num, Real, Str, Obj, Scalars, Flat, Holding, Files

LEMMA LicenseTyped ==
  ASSUME NEW a \in Flat, NEW b \in Flat, NEW c \in Flat, NEW d \in Flat,
         NEW e \in Scalars, NEW f \in Flat
  PROVE  License(a, b, c, d, e, f) \in Files
<1>1. FormatVersion \in Flat
  BY SomeFlat DEF FormatVersion
<1>2. Obj(<< <<ciphertext, e>> >>) \in Flat
  <2>1. << <<ciphertext, e>> >> \in Members(Scalars)
    BY Letters DEF Members
  <2> QED BY <2>1, SomeFlat
<1> DEFINE o == Obj(<< <<ciphertext, e>> >>)
           m == << <<version, FormatVersion>>, <<id, a>>, <<notAfter, b>>,
                   <<expires, c>>, <<licensee, d>>, <<encryptedPayload, o>>, <<signature, f>> >>
<1>3. o \in Flat
  BY <1>2
<1> HIDE DEF o
<1>4. m \in Members(Flat)
  BY <1>1, <1>3, Letters DEF Members
<1>5. Obj(m) \in Files
  BY <1>4, SomeFlat
<1> QED BY <1>5 DEF License, o

LEMMA UpperTyped ==
  ASSUME NEW k \in Text
  PROVE  Upper(k) \in Text
<1>1. Len(k) \in Nat /\ DOMAIN k = 1..Len(k) /\ \A i \in 1..Len(k) : k[i] \in Rune
  BY DEF Text
<1>2. ASSUME NEW c \in Rune, c \in 97..122 PROVE c - 32 \in Rune
  BY <1>2, Planes DEF Rune
<1>3. Upper(k) \in [1..Len(k) -> Rune]
  BY <1>1, <1>2 DEF Upper
<1> QED BY <1>1, <1>3 DEF Text

LEMMA RemoveTyped ==
  ASSUME NEW T, NEW m \in Seq(T), NEW i \in DOMAIN m
  PROVE  RemoveAt(m, i) \in Seq(T)
<1>1. i \in 1..Len(m) /\ Len(m) \in Nat
  OBVIOUS
<1>2. SubSeq(m, 1, i - 1) \in Seq(T)
  BY <1>1
<1>3. SubSeq(m, i + 1, Len(m)) \in Seq(T)
  BY <1>1
<1> QED BY <1>2, <1>3, ConcatProperties DEF RemoveAt

LEMMA ValueTyped ==
  ASSUME NEW V, NEW m \in Members(V), NEW i \in DOMAIN m, NEW v \in V
  PROVE  [m EXCEPT ![i][2] = v] \in Members(V)
<1> DEFINE T == Text \X V
           p == [m[i] EXCEPT ![2] = v]
<1>1. m \in Seq(T) /\ i \in 1..Len(m) /\ m[i] \in T
  BY DEF Members
<1>2. p \in T
  BY <1>1
<1> HIDE DEF T, p
<1>3. [m EXCEPT ![i] = p] \in Seq(T)
  BY <1>1, <1>2, ExceptSeq
<1> QED BY <1>3 DEF p, T, Members

LEMMA KeyTyped ==
  ASSUME NEW V, NEW m \in Members(V), NEW i \in DOMAIN m
  PROVE  [m EXCEPT ![i][1] = Upper(@)] \in Members(V)
<1> DEFINE T == Text \X V
           p == [m[i] EXCEPT ![1] = Upper(@)]
<1>1. m \in Seq(T) /\ i \in 1..Len(m) /\ m[i] \in T
  BY DEF Members
<1>2. p \in T
  BY <1>1, UpperTyped
<1> HIDE DEF T, p
<1>3. [m EXCEPT ![i] = p] \in Seq(T)
  BY <1>1, <1>2, ExceptSeq
<1> QED BY <1>3 DEF p, T, Members

LEMMA FieldsTyped == Fields \subseteq Text
<1> DEFINE z == ZeroLicense.members
<1>1. /\ DOMAIN z = 1..7
      /\ z[1][1] = version /\ z[2][1] = id /\ z[3][1] = notAfter /\ z[4][1] = expires
      /\ z[5][1] = licensee /\ z[6][1] = encryptedPayload /\ z[7][1] = signature
  BY DEF ZeroLicense, License, Obj
<1>2. \A i \in DOMAIN z : z[i][1] \in Text
  <2> HIDE DEF z
  <2> QED BY <1>1, Letters
<1> QED BY <1>2 DEF Fields

(* The license SignLicense is given.                                       *)
Issuable(name, permanent) ==
  License(Str(<<97>>), IF permanent THEN ZeroTime ELSE Str(<<53>>),
          Bool(~permanent), Str(name), Str(<<97>>), Genuine)

LEMMA IssuableTyped ==
  ASSUME NEW name \in Names, NEW permanent \in BOOLEAN
  PROVE  Issuable(name, permanent) \in Files
<1>1. Str(<<97>>) \in Scalars /\ ZeroTime \in Scalars /\ Str(<<53>>) \in Scalars /\ Genuine \in Scalars
  BY SomeText, SomeFlat DEF ZeroTime, Genuine
<1>2. Str(name) \in Scalars /\ Bool(~permanent) \in Scalars
  BY SomeFlat, CanonicalAssumption
<1> DEFINE b == IF permanent THEN ZeroTime ELSE Str(<<53>>)
           c == Bool(~permanent)
           d == Str(name)
           a == Str(<<97>>)
<1>3. b \in Scalars
  BY <1>1
<1>4. a \in Flat /\ b \in Flat /\ c \in Flat /\ d \in Flat /\ Genuine \in Flat
  BY <1>1, <1>2, <1>3, SomeFlat
<1>5. a \in Scalars
  BY <1>1
<1> HIDE DEF a, b, c, d
<1>6. License(a, b, c, d, a, Genuine) \in Files
  BY <1>4, <1>5, LicenseTyped
<1> QED BY <1>6 DEF Issuable, a, b, c, d

LEMMA EditedTyped ==
  ASSUME NEW m \in Members(Flat), Typed, issued # Null, Edited(m)
  PROVE  Typed'
<1>1. edits' \in 0..MaxEdits
  BY CanonicalAssumption DEF Edited, Typed
<1>2. file' \in Files /\ issued' \in Files
  BY SomeFlat DEF Edited, Typed
<1> QED BY <1>1, <1>2 DEF Typed

LEMMA TypedStep ==
  ASSUME Typed, [Next]_vars
  PROVE  Typed'
<1>1. CASE Sign
  <2>1. PICK name \in Names, permanent \in BOOLEAN :
          issued' = Issuable(name, permanent) /\ file' = Issuable(name, permanent)
    BY <1>1 DEF Sign, Issuable
  <2>2. edits' \in 0..MaxEdits
    BY <1>1, CanonicalAssumption DEF Sign
  <2> QED BY <2>1, <2>2, IssuableTyped DEF Typed
<1>2. CASE Edit
  <2> DEFINE m == file.members
  <2>1. issued # Null /\ m \in Members(Flat)
    BY <1>2 DEF Edit, Typed, Files
  <2>2. ASSUME NEW i \in DOMAIN m, Edited(RemoveAt(m, i)) PROVE Typed'
    <3>1. RemoveAt(m, i) \in Members(Flat)
      BY <2>1, RemoveTyped DEF Members
    <3> QED BY <2>1, <2>2, <3>1, EditedTyped
  <2>3. ASSUME NEW i \in DOMAIN m, NEW v \in Values, Edited([m EXCEPT ![i][2] = v])
        PROVE  Typed'
    <3>1. [m EXCEPT ![i][2] = v] \in Members(Flat)
      BY <2>1, ValueTyped, CanonicalAssumption
    <3> QED BY <2>1, <2>3, <3>1, EditedTyped
  <2>4. ASSUME NEW i \in DOMAIN m, Edited([m EXCEPT ![i][1] = Upper(@)]) PROVE Typed'
    <3>1. [m EXCEPT ![i][1] = Upper(@)] \in Members(Flat)
      BY <2>1, KeyTyped
    <3> QED BY <2>1, <2>4, <3>1, EditedTyped
  <2>5. ASSUME NEW k \in Text, NEW v \in Flat, Edited(Append(m, <<k, v>>)) PROVE Typed'
    <3>1. Append(m, <<k, v>>) \in Members(Flat)
      <4>1. m \in Seq(Text \X Flat) /\ <<k, v>> \in Text \X Flat
        BY <2>1 DEF Members
      <4> QED BY <4>1, AppendProperties DEF Members
    <3> QED BY <2>1, <2>5, <3>1, EditedTyped
  <2>6. \A k \in Fields \union {Upper(f) : f \in Fields} : k \in Text
    BY FieldsTyped, UpperTyped
  <2>7. Values \subseteq Flat /\ Foreign \subseteq Text /\ Null \in Flat
    BY CanonicalAssumption, SomeFlat
  <2> QED BY <1>2, <2>2, <2>3, <2>4, <2>5, <2>6, <2>7 DEF Edit
<1>3. CASE UNCHANGED vars
  BY <1>3 DEF vars, Typed
<1> QED BY <1>1, <1>2, <1>3 DEF Next

LEMMA AlwaysTyped == Spec => []Typed
<1>1. Init => Typed
  BY CanonicalAssumption DEF Init, Typed
<1>2. Typed /\ [Next]_vars => Typed'
  BY TypedStep
<1> QED BY <1>1, <1>2, PTL DEF Spec

(* Both verifiers hash the same bytes for every file whose numbers JSON    *)
(* .parse keeps, whatever its keys, strings and integers are and however   *)
(* they are ordered: canonical.go and canonical.ts agree.  Of other        *)
(* numbers (1.0, 1e2, past 2^53) it says nothing: there they differ.       *)
THEOREM TwinEncoders == Spec => []EncodersAgree
<1>1. Typed => EncodersAgree
  <2>1. \A o \in Files : o \in Holding(Flat)
    BY DEF Files, Holding
  <2> QED BY <2>1, EncodeAlike DEF Typed, EncodersAgree
<1> QED BY <1>1, AlwaysTyped, PTL

(* What is signed is the text of the license that was issued.              *)
Signed ==
  /\ issued = Null => signed = <<>>
  /\ issued # Null => signed = GoText(issued)

LEMMA UnsignedTyped ==
  ASSUME NEW o \in Files
  PROVE  Unsigned(o) \in Files
<1>1. o.members \in Seq(Text \X Flat)
  BY DEF Files, Members
<1>2. Str(<<>>) \in Flat
  <2>1. <<>> \in Text
    BY DEF Text
  <2> QED BY <2>1, SomeFlat
<1>3. <<signature, Str(<<>>)>> \in Text \X Flat
  BY <1>2, Letters
<1> DEFINE x == <<signature, Str(<<>>)>>
           T == Text \X Flat
<1>4. o.members \in Seq(T) /\ x \in T
  BY <1>1, <1>3
<1> HIDE DEF x, T
<1>5. Append(o.members, x) \in Seq(T)
  BY <1>4, AppendProperties
<1> QED BY <1>5, SomeFlat DEF Unsigned, x, T, Members

LEMMA TextIs ==
  ASSUME NEW o \in Files
  PROVE  GoText(o) \in Seq(Printable) /\ GoText(o) # <<>>
<1> DEFINE u == Unsigned(o)
           m == u.members
           K == KeysIn(m)
           body == Joined([i \in DOMAIN SortByUtf16(K) |->
                     GoString(SortByUtf16(K)[i]) \o <<58>> \o
                       GoMember(LastOf(m, SortByUtf16(K)[i]))])
<1>1. u \in Files /\ u \in Holding(Flat) /\ u.t = "obj"
  BY UnsignedTyped DEF Files, Holding
<1>2. GoText(o) \in Seq(Printable)
  BY <1>1, GoEncodeTyped DEF GoText
<1>3. GoText(o) = <<123>> \o body \o <<125>>
  BY <1>1 DEF GoText, GoEncode, GoValue
<1> QED BY <1>2, <1>3

LEMMA SignedStep ==
  ASSUME Typed, Signed, [Next]_vars
  PROVE  Signed'
<1>1. CASE Sign
  <2>1. PICK name \in Names, permanent \in BOOLEAN :
          issued' = Issuable(name, permanent) /\ signed' = GoText(Issuable(name, permanent))
    BY <1>1 DEF Sign, Issuable
  <2>2. issued' # Null
    BY <2>1 DEF Issuable, License, Obj, Null
  <2> QED BY <2>1, <2>2 DEF Signed
<1>2. CASE Edit
  <2>1. issued' = issued /\ signed' = signed
    BY <1>2 DEF Edit, Edited
  <2> QED BY <2>1 DEF Signed
<1>3. CASE UNCHANGED vars
  BY <1>3 DEF vars, Signed
<1> QED BY <1>1, <1>2, <1>3 DEF Next

LEMMA AlwaysSigned == Spec => []Signed
<1>1. Init => Signed
  BY DEF Init, Signed
<1> QED BY <1>1, SignedStep, AlwaysTyped, PTL DEF Spec

-----------------------------------------------------------------------------
(* The text of a file tells its keys and what each is worth.               *)
scalarText == [w \in Scalars |-> GoScalar(w)]
flatText == [w \in Flat |-> GoMember(w)]

LEMMA ScalarTextTyped ==
  /\ scalarText \in [Scalars -> ScalarTexts]
  /\ \A v \in Scalars : scalarText[v] = GoScalar(v)
BY DEF scalarText, ScalarTexts

Array(v) ==
  /\ v.t = "arr" /\ v.items \in Seq(Scalars)
  /\ Map(scalarText, v.items) \in Seq(ScalarTexts)
  /\ GoMember(v) = Cat(Cat(<<91>>, Joined(Map(scalarText, v.items))), <<93>>)
Object(v) ==
  /\ v.t = "obj" /\ v = Obj(v.members) /\ v.members \in Members(Scalars)
  /\ GoMember(v) = Cat(Cat(<<123>>, Joined(GoMembers(v.members, scalarText))), <<125>>)

LEMMA FlatIs ==
  ASSUME NEW v \in Flat
  PROVE  \/ v \in Scalars /\ GoMember(v) = GoScalar(v)
         \/ Array(v)
         \/ Object(v)
<1>1. CASE v \in Scalars
  <2>1. v.t # "arr" /\ v.t # "obj"
    BY <1>1, ScalarAlike
  <2> QED BY <1>1, <2>1 DEF GoMember, GoValue
<1>2. CASE v \in [t : {"arr"}, items : Seq(Scalars)]
  <2> DEFINE q == v.items
  <2>1. v.t = "arr" /\ q \in Seq(Scalars) /\ \A i \in DOMAIN q : q[i] \in Scalars
    BY <1>2
  <2>2. [i \in DOMAIN q |-> GoScalar(q[i])] = Map(scalarText, q)
    BY <2>1, ScalarTextTyped DEF Map
  <2>3. GoMember(v) = <<91>> \o Joined(Map(scalarText, q)) \o <<93>>
    BY <2>1, <2>2 DEF GoMember, GoValue
  <2>4. Map(scalarText, q) \in Seq(ScalarTexts)
    BY <2>1, ScalarTextTyped, Mapped
  <2> QED BY <2>1, <2>3, <2>4 DEF Cat, Array
<1>3. CASE v \in [t : {"obj"}, members : Members(Scalars)]
  <2> DEFINE m == v.members
             K == KeysIn(m)
  <2>1. v.t = "obj" /\ m \in Members(Scalars) /\ v = Obj(m)
    BY <1>3 DEF Obj
  <2> HIDE DEF m
  <2>2. \A i \in DOMAIN SortByUtf16(K) : LastOf(m, SortByUtf16(K)[i]) \in Scalars
    BY <2>1, KeysTyped
  <2>3. [i \in DOMAIN SortByUtf16(K) |->
           GoString(SortByUtf16(K)[i]) \o <<58>> \o GoScalar(LastOf(m, SortByUtf16(K)[i]))] =
        GoMembers(m, scalarText)
    BY <2>2, ScalarTextTyped DEF GoMembers
  <2>4. GoMember(v) = <<123>> \o Joined(GoMembers(m, scalarText)) \o <<125>>
    BY <2>1, <2>3 DEF GoMember, GoValue, m
  <2> QED BY <2>1, <2>4 DEF Cat, Object, m
<1> QED BY <1>1, <1>2, <1>3 DEF Flat, Holding

(* It begins with a character that tells the kind of value.                *)
LEMMA Enclosed ==
  ASSUME NEW b \in Printable, NEW x, NEW e, NEW t, t = Cat(Cat(<<b>>, x), <<e>>),
         t \in Seq(Printable), x \in Seq(Printable), e \in Printable
  PROVE  t # <<>> /\ t[1] = b
BY DEF Cat

LEMMA FlatStarts ==
  ASSUME NEW v \in Flat
  PROVE  /\ GoMember(v) # <<>>
         /\ v \in Scalars => GoMember(v)[1] = Mark(v) /\ Mark(v) \notin {91, 123}
         /\ Array(v) => GoMember(v)[1] = 91
         /\ Object(v) => GoMember(v)[1] = 123
<1>0. /\ GoMember(v) \in Seq(Printable)
      /\ 91 \in Printable /\ 93 \in Printable /\ 123 \in Printable /\ 125 \in Printable
  BY GoMemberTyped, Ascii
<1>1. ASSUME v \in Scalars
      PROVE  GoMember(v) # <<>> /\ GoMember(v)[1] = Mark(v) /\ Mark(v) \notin {91, 123}
  <2>1. GoMember(v) = GoScalar(v)
    BY <1>1, FlatIs, ScalarAlike DEF Array, Object
  <2>2. Mark(v) \notin {91, 123}
    <3>1. CASE v = Null
      BY <3>1 DEF Null, Mark
    <3>2. CASE v \in [t : {"bool"}, b : BOOLEAN]
      BY <3>2 DEF Mark
    <3>3. CASE v \in [t : {"num"}, n : 0..9]
      BY <3>3 DEF Mark
    <3>4. CASE v \in [t : {"real"}, n : 0..9]
      <4>1. Mark(v) = 17 * Plane + v.n /\ v.n \in 0..9
        BY <3>4 DEF Mark
      <4>2. 17 * Plane \in Nat /\ 17 * Plane > 200
        BY Planes
      <4> QED BY <4>1, <4>2
    <3>5. CASE v \in [t : {"str"}, s : Text]
      BY <3>5 DEF Mark
    <3> QED BY <1>1, <3>1, <3>2, <3>3, <3>4, <3>5 DEF Scalars
  <2> QED BY <1>1, <2>1, <2>2, MarkIs
<1>2. ASSUME Array(v)
      PROVE  GoMember(v) # <<>> /\ GoMember(v)[1] = 91
  <2> DEFINE x == Joined(Map(scalarText, v.items))
             T == Seq(Printable)
  <2>1. x \in T
    <3>1. Map(scalarText, v.items) \in Seq(ScalarTexts) /\ ScalarTexts \subseteq T
      BY <1>2, ScalarTextsFree DEF Array, PrefixFree
    <3>2. Map(scalarText, v.items) \in Seq(T)
      <4> HIDE DEF T
      <4> QED BY <3>1
    <3>3. 44 \in Printable
      BY Ascii
    <3> QED BY <3>2, <3>3, JoinedTyped
  <2>2. GoMember(v) = Cat(Cat(<<91>>, x), <<93>>)
    BY <1>2 DEF Array
  <2> HIDE DEF x
  <2> QED BY <1>0, <2>1, <2>2, Enclosed
<1>3. ASSUME Object(v)
      PROVE  GoMember(v) # <<>> /\ GoMember(v)[1] = 123
  <2> DEFINE x == Joined(GoMembers(v.members, scalarText))
  <2>1. x \in Seq(Printable)
    <3>1. scalarText \in [Scalars -> Seq(Printable)]
      BY ScalarTextTyped, ScalarTyped DEF scalarText
    <3>2. GoMembers(v.members, scalarText) \in Seq(Seq(Printable))
      BY <1>3, <3>1, GoMembersTyped DEF Object
    <3>3. 44 \in Printable
      BY Ascii
    <3> QED BY <3>2, <3>3, JoinedTyped
  <2>2. GoMember(v) = Cat(Cat(<<123>>, x), <<125>>)
    BY <1>3 DEF Object
  <2> HIDE DEF x
  <2> QED BY <1>0, <2>1, <2>2, Enclosed
<1> QED BY <1>1, <1>2, <1>3, FlatIs

LEMMA SameStart ==
  ASSUME NEW a \in Seq(Printable), NEW b \in Seq(Printable),
         NEW r \in Seq(Printable), NEW q \in Seq(Printable),
         a # <<>>, b # <<>>, Cat(a, r) = Cat(b, q)
  PROVE  a[1] = b[1]
<1>1. 1 \in 1..Len(a) /\ 1 \in 1..Len(b)
  BY EmptySeq, LenProperties
<1>2. Cat(a, r)[1] = a[1]
  BY <1>1, Readable DEF Cat
<1>3. Cat(b, q)[1] = b[1]
  BY <1>1, Readable DEF Cat
<1> QED BY <1>2, <1>3

LEMMA SameKind ==
  ASSUME NEW v \in Flat, NEW w \in Flat, GoMember(v)[1] = GoMember(w)[1]
  PROVE  \/ /\ v \in Scalars /\ w \in Scalars
            /\ GoMember(v) = GoScalar(v) /\ GoMember(w) = GoScalar(w)
         \/ Array(v) /\ Array(w)
         \/ Object(v) /\ Object(w)
BY FlatIs, FlatStarts

LEMMA FlatApart ==
  ASSUME NEW v \in Flat, NEW w \in Flat, NEW r \in Seq(Printable), NEW q \in Seq(Printable),
         Cat(GoMember(v), r) = Cat(GoMember(w), q)
  PROVE  GoMember(v) = GoMember(w)
<1>1. GoMember(v)[1] = GoMember(w)[1]
  BY SameStart, GoMemberTyped, FlatStarts
<1>2. CASE v \in Scalars /\ w \in Scalars /\ GoMember(v) = GoScalar(v) /\ GoMember(w) = GoScalar(w)
  <2>1. GoMember(v) \in ScalarTexts /\ GoMember(w) \in ScalarTexts
    BY <1>2 DEF ScalarTexts
  <2> QED BY <2>1, ScalarTextsFree, CatFree
<1>3. CASE Array(v) /\ Array(w)
  <2> DEFINE s == Map(scalarText, v.items)
             t == Map(scalarText, w.items)
  <2>1. /\ s \in Seq(ScalarTexts) /\ t \in Seq(ScalarTexts)
        /\ GoMember(v) = Cat(Cat(<<91>>, Joined(s)), <<93>>)
        /\ GoMember(w) = Cat(Cat(<<91>>, Joined(t)), <<93>>)
    BY <1>3 DEF Array
  <2> HIDE DEF s, t
  <2>2. 91 \in Printable
    BY Ascii
  <2>3. s = t
    BY <2>1, <2>2, ScalarTextsClose, EnclosedApart
  <2> QED BY <2>1, <2>3
<1>4. CASE Object(v) /\ Object(w)
  <2>1. GoMembers(v.members, scalarText) = GoMembers(w.members, scalarText)
    <3> DEFINE m == v.members
               n == w.members
    <3>1. /\ m \in Members(Scalars) /\ n \in Members(Scalars)
          /\ Cat(Cat(Cat(<<123>>, Joined(GoMembers(m, scalarText))), <<125>>), r) =
               Cat(Cat(Cat(<<123>>, Joined(GoMembers(n, scalarText))), <<125>>), q)
      BY <1>4 DEF Object
    <3> HIDE DEF m, n
    <3>2. GoMembers(m, scalarText) = GoMembers(n, scalarText)
      BY <3>1, ScalarTextTyped, ScalarTextsFree, ObjectApart
    <3> QED BY <3>2 DEF m, n
  <2> QED BY <1>4, <2>1 DEF Object
<1> QED BY <1>1, <1>2, <1>3, <1>4, SameKind

FlatTexts == {GoMember(v) : v \in Flat}

LEMMA FlatTextsFree ==
  /\ PrefixFree(FlatTexts)
  /\ flatText \in [Flat -> FlatTexts]
  /\ \A v \in Flat : flatText[v] = GoMember(v)
<1>1. \A x \in FlatTexts : x \in Seq(Printable) /\ x # <<>>
  BY GoMemberTyped, FlatStarts DEF FlatTexts
<1>2. ASSUME NEW x \in FlatTexts, NEW y \in FlatTexts, NEW r \in Seq(Printable), NEW q \in Seq(Printable),
             Cat(x, r) = Cat(y, q)
      PROVE  x = y
  BY <1>2, FlatApart DEF FlatTexts
<1>3. PrefixFree(FlatTexts)
  BY <1>1, <1>2, FreeIs
<1> QED BY <1>3 DEF flatText, FlatTexts

LEMMA ScalarKnown ==
  ASSUME NEW v \in Scalars, NEW w \in Flat, GoMember(w) = GoMember(v)
  PROVE  w = v
<1>1. v \in Flat /\ v.t \notin {"arr", "obj"}
  BY SomeFlat, ScalarAlike
<1>2. w \in Scalars /\ GoScalar(w) = GoScalar(v)
  BY <1>1, SameKind DEF Array, Object
<1>3. <<>> \in Seq(Printable) /\ GoScalar(w) \o <<>> = GoScalar(v) \o <<>>
  BY <1>2
<1> QED BY <1>2, <1>3, ScalarApart

LEMMA ObjectKnown ==
  ASSUME NEW m \in Members(Scalars), NEW w \in Flat, GoMember(w) = GoMember(Obj(m))
  PROVE  /\ w.t = "obj" /\ w.members \in Members(Scalars)
         /\ KeysIn(w.members) = KeysIn(m)
         /\ \A k \in KeysIn(m) : LastOf(w.members, k) = LastOf(m, k)
<1> DEFINE v == Obj(m)
           n == w.members
<1>1. v \in Flat /\ v.t = "obj" /\ v.members = m
  BY SomeFlat DEF Obj
<1>2. Object(v) /\ Object(w)
  BY <1>1, SameKind, ScalarAlike DEF Array
<1>3. n \in Members(Scalars) /\ w.t = "obj"
  BY <1>2 DEF Object
<1>4. GoMembers(n, scalarText) = GoMembers(m, scalarText)
  <2> DEFINE e == <<>>
  <2>1. Cat(Cat(Cat(<<123>>, Joined(GoMembers(n, scalarText))), <<125>>), e) =
          Cat(Cat(Cat(<<123>>, Joined(GoMembers(m, scalarText))), <<125>>), e)
    BY <1>1, <1>2 DEF Object
  <2>2. e \in Seq(Printable)
    OBVIOUS
  <2> HIDE DEF e
  <2> QED BY <1>3, <2>1, <2>2, ScalarTextTyped, ScalarTextsFree, ObjectApart
<1>5. /\ KeysIn(n) = KeysIn(m)
      /\ \A k \in KeysIn(n) : scalarText[LastOf(n, k)] = scalarText[LastOf(m, k)]
  BY <1>3, <1>4, ScalarTextTyped, ScalarTextsFree, SameMembers
<1>6. ASSUME NEW k \in KeysIn(m) PROVE LastOf(n, k) = LastOf(m, k)
  <2> DEFINE a == LastOf(n, k)
             b == LastOf(m, k)
  <2>1. a \in Scalars /\ b \in Scalars
    BY <1>3, <1>5, LastOfTyped
  <2>2. scalarText[a] = scalarText[b]
    BY <1>5
  <2> HIDE DEF a, b
  <2>3. <<>> \in Seq(Printable) /\ GoScalar(a) \o <<>> = GoScalar(b) \o <<>>
    BY <2>1, <2>2, ScalarTextTyped
  <2>4. a = b
    BY <2>1, <2>3, ScalarApart
  <2> QED BY <2>4 DEF a, b
<1> QED BY <1>3, <1>5, <1>6

LEMMA FileKnown ==
  ASSUME NEW o \in Files, NEW u \in Files, GoEncode(o) = GoEncode(u)
  PROVE  /\ KeysIn(o.members) = KeysIn(u.members)
         /\ \A k \in KeysIn(o.members) :
              GoMember(LastOf(o.members, k)) = GoMember(LastOf(u.members, k))
<1>1. ASSUME NEW f \in Files
      PROVE  /\ f.members \in Members(Flat)
             /\ GoEncode(f) = Cat(Cat(<<123>>, Joined(GoMembers(f.members, flatText))), <<125>>)
  <2> DEFINE m == f.members
             K == KeysIn(m)
  <2>1. f.t = "obj" /\ m \in Members(Flat)
    BY DEF Files
  <2> HIDE DEF m
  <2>2. \A i \in DOMAIN SortByUtf16(K) : LastOf(m, SortByUtf16(K)[i]) \in Flat
    BY <2>1, KeysTyped
  <2>3. [i \in DOMAIN SortByUtf16(K) |->
           GoString(SortByUtf16(K)[i]) \o <<58>> \o GoMember(LastOf(m, SortByUtf16(K)[i]))] =
        GoMembers(m, flatText)
    BY <2>2 DEF GoMembers, flatText
  <2>4. GoEncode(f) = <<123>> \o Joined(GoMembers(m, flatText)) \o <<125>>
    BY <2>1, <2>3 DEF GoEncode, GoValue, m
  <2> QED BY <2>1, <2>4 DEF Cat, m
<1> DEFINE m == o.members
           n == u.members
           e == <<>>
<1>2. m \in Members(Flat) /\ n \in Members(Flat) /\ e \in Seq(Printable)
  BY <1>1
<1>3. Cat(Cat(Cat(<<123>>, Joined(GoMembers(m, flatText))), <<125>>), e) =
        Cat(Cat(Cat(<<123>>, Joined(GoMembers(n, flatText))), <<125>>), e)
  BY <1>1
<1> HIDE DEF m, n, e
<1>4. GoMembers(m, flatText) = GoMembers(n, flatText)
  BY <1>2, <1>3, FlatTextsFree, ObjectApart
<1>5. /\ KeysIn(m) = KeysIn(n)
      /\ \A k \in KeysIn(m) : flatText[LastOf(m, k)] = flatText[LastOf(n, k)]
  BY <1>2, <1>4, FlatTextsFree, SameMembers
<1>6. \A k \in KeysIn(m) : LastOf(m, k) \in Flat /\ LastOf(n, k) \in Flat
  BY <1>2, <1>5, LastOfTyped
<1> QED BY <1>5, <1>6, FlatTextsFree DEF m, n

(* A struct has each of its fields once, in their order.                   *)
fields == <<version, id, notAfter, expires, licensee, encryptedPayload, signature>>

Payload(x) == Obj(<< <<ciphertext, x>> >>)
Payloads == {Payload(x) : x \in Scalars}

Structs ==
  {o \in Files :
     /\ Len(o.members) = 7
     /\ \A i \in 1..7 : o.members[i][1] = fields[i]
     /\ \A i \in 1..7 \ {6} : o.members[i][2] \in Scalars
     /\ o.members[6][2] \in Payloads}

LEMMA FieldsApart ==
  /\ \A i \in 1..7, j \in 1..7 : fields[i] = fields[j] => i = j
  /\ \A i \in 1..7 : fields[i] \in Text
  /\ fields[1] = version /\ fields[2] = id /\ fields[3] = notAfter /\ fields[4] = expires
  /\ fields[5] = licensee /\ fields[6] = encryptedPayload /\ fields[7] = signature
<1>1. \A i \in 1..7, j \in 1..7 : fields[i] = fields[j] => i = j
  BY DEF fields, version, id, notAfter, expires, licensee, encryptedPayload, signature
<1>2. \A i \in 1..7 : fields[i] \in Text
  BY Letters DEF fields
<1> QED BY <1>1, <1>2 DEF fields

LEMMA FieldsAre == Fields = {fields[i] : i \in 1..7}
<1> DEFINE z == ZeroLicense.members
<1>1. /\ DOMAIN z = 1..7
      /\ z[1][1] = version /\ z[2][1] = id /\ z[3][1] = notAfter /\ z[4][1] = expires
      /\ z[5][1] = licensee /\ z[6][1] = encryptedPayload /\ z[7][1] = signature
  BY DEF ZeroLicense, License, Obj
<1>2. \A i \in 1..7 : z[i][1] = fields[i]
  <2> HIDE DEF z
  <2> QED BY <1>1, FieldsApart
<1> HIDE DEF z
<1>3. {z[i][1] : i \in DOMAIN z} = {fields[i] : i \in 1..7}
  BY <1>1, <1>2
<1> QED BY <1>3 DEF Fields, z

LEMMA StructRead ==
  ASSUME NEW o \in Structs
  PROVE  /\ KeysIn(o.members) = Fields
         /\ \A i \in 1..7 : LastOf(o.members, fields[i]) = o.members[i][2]
         /\ \A i \in 1..7 : Get(o, fields[i]) = o.members[i][2]
<1> DEFINE m == o.members
<1>1. m \in Members(Flat) /\ Len(m) = 7 /\ DOMAIN m = 1..7 /\ \A i \in 1..7 : m[i][1] = fields[i]
  BY DEF Structs, Files, Members
<1> HIDE DEF m
<1>2. KeysIn(m) = Fields
  BY <1>1, FieldsAre DEF KeysIn
<1>3. ASSUME NEW i \in 1..7 PROVE LastOf(m, fields[i]) = m[i][2]
  <2>1. fields[i] \in KeysIn(m)
    BY <1>2, FieldsAre
  <2>2. PICK j \in 1..Len(m) : m[j][1] = fields[i] /\ LastOf(m, fields[i]) = m[j][2]
    BY <1>1, <2>1, LastOfIs
  <2>3. j = i
    BY <1>1, <2>2, FieldsApart
  <2> QED BY <2>2, <2>3
<1>4. ASSUME NEW i \in 1..7 PROVE Get(o, fields[i]) = m[i][2]
  BY <1>2, <1>3, FieldsAre DEF Get, m
<1> QED BY <1>2, <1>3, <1>4 DEF m

Slot(i) == IF i = 6 THEN Payloads ELSE Scalars

LEMMA StructSlots ==
  ASSUME NEW o \in Structs, NEW i \in 1..7
  PROVE  o.members[i][2] \in Slot(i) /\ o.members[i] = <<fields[i], o.members[i][2]>>
<1> DEFINE m == o.members
           x == m[i]
           T == Text \X Flat
<1>1. m \in Seq(T) /\ Len(m) = 7 /\ m[i][1] = fields[i]
  BY DEF Structs, Files, Members
<1>2. m[i][2] \in Slot(i)
  BY DEF Structs, Slot
<1> HIDE DEF m, T
<1>3. x \in T /\ x[1] = fields[i]
  BY <1>1, ElementOfSeq
<1> HIDE DEF x
<1>4. x = <<fields[i], x[2]>>
  BY <1>3 DEF T
<1> QED BY <1>2, <1>4 DEF m, x

LEMMA LicenseIs ==
  ASSUME NEW a \in Scalars, NEW b \in Scalars, NEW c \in Scalars, NEW d \in Scalars,
         NEW e \in Scalars, NEW f \in Scalars
  PROVE  License(a, b, c, d, e, f) \in Structs
<1> DEFINE o == License(a, b, c, d, e, f)
           p == Payload(e)
           m == << <<version, FormatVersion>>, <<id, a>>, <<notAfter, b>>,
                   <<expires, c>>, <<licensee, d>>, <<encryptedPayload, p>>, <<signature, f>> >>
<1>1. FormatVersion \in Scalars /\ p \in Payloads
  BY SomeFlat DEF FormatVersion, Payloads
<1>2. o = Obj(m)
  BY DEF License, Payload
<1>3. o \in Files
  BY SomeFlat, LicenseTyped
<1> HIDE DEF o, p
<1>4. o.members = m
  BY <1>2 DEF Obj
<1>5. \A i \in 1..7 : m[i][1] = fields[i]
  BY DEF fields
<1>6. \A i \in 1..7 \ {6} : m[i][2] \in Scalars
  BY <1>1
<1>7. Len(m) = 7 /\ m[6][2] = p
  OBVIOUS
<1>8. o \in Structs
  BY <1>1, <1>3, <1>4, <1>5, <1>6, <1>7 DEF Structs
<1> QED BY <1>8 DEF o

(* The license that was issued, with another spelling of its signature.    *)
Respelt(name, permanent, spelling) ==
  License(Str(<<97>>), IF permanent THEN ZeroTime ELSE Str(<<53>>),
          Bool(~permanent), Str(name), Str(<<97>>), spelling)

LEMMA SpellingsAre ==
  /\ \A g \in GoSpellings : g \in Scalars /\ g.t = "str"
  /\ Genuine \in GoSpellings /\ GoSpellings \subseteq NodeSpellings /\ Null \notin NodeSpellings
<1>1. <<61>> \in Text /\ <<61, 10>> \in Text
  <2>1. 61 \in Rune /\ 10 \in Rune
    BY Planes DEF Rune
  <2> QED BY <2>1 DEF Text
<1>2. \A g \in GoSpellings : g \in Scalars
  BY <1>1, SomeFlat DEF GoSpellings, Genuine, Wrapped
<1>3. \A g \in GoSpellings : g.t = "str"
  BY DEF GoSpellings, Genuine, Wrapped, Str
<1>4. Null \notin NodeSpellings
  BY DEF Null, NodeSpellings, GoSpellings, Genuine, Wrapped, Unpadded, Bytes, Str, Arr
<1> QED BY <1>2, <1>3, <1>4 DEF GoSpellings, NodeSpellings

LEMMA RespeltIs ==
  ASSUME NEW name \in Names, NEW permanent \in BOOLEAN, NEW g \in GoSpellings
  PROVE  LET o == Respelt(name, permanent, g)
             m == o.members
         IN  /\ o \in Structs
             /\ m[1][2] = FormatVersion /\ m[2][2] = Str(<<97>>)
             /\ m[3][2] = (IF permanent THEN ZeroTime ELSE Str(<<53>>))
             /\ m[4][2] = Bool(~permanent) /\ m[5][2] = Str(name)
             /\ m[6][2] = Payload(Str(<<97>>)) /\ m[7][2] = g
<1> DEFINE o == Respelt(name, permanent, g)
           a == Str(<<97>>)
           b == IF permanent THEN ZeroTime ELSE Str(<<53>>)
           c == Bool(~permanent)
           d == Str(name)
           p == Payload(a)
           m == << <<version, FormatVersion>>, <<id, a>>, <<notAfter, b>>,
                   <<expires, c>>, <<licensee, d>>, <<encryptedPayload, p>>, <<signature, g>> >>
<1>1. a \in Scalars /\ b \in Scalars /\ g \in Scalars
  BY SomeText, SomeFlat, SpellingsAre DEF ZeroTime
<1>2. c \in Scalars /\ d \in Scalars
  BY SomeFlat, CanonicalAssumption
<1>3. o = Obj(m)
  BY DEF Respelt, License, Payload
<1>4. o = License(a, b, c, d, a, g)
  BY DEF Respelt
<1> HIDE DEF a, b, c, d, p, o
<1>5. o \in Structs
  BY <1>1, <1>2, <1>4, LicenseIs
<1>6. o.members = m
  BY <1>3 DEF Obj
<1>7. /\ m[1][2] = FormatVersion /\ m[2][2] = a /\ m[3][2] = b /\ m[4][2] = c
      /\ m[5][2] = d /\ m[6][2] = p /\ m[7][2] = g
  OBVIOUS
<1> HIDE DEF m
<1> QED BY <1>5, <1>6, <1>7 DEF o, a, b, c, d, p

LEMMA IssuableIs ==
  ASSUME NEW name \in Names, NEW permanent \in BOOLEAN
  PROVE  LET o == Issuable(name, permanent)
             m == o.members
         IN  /\ o = Respelt(name, permanent, Genuine) /\ o \in Structs
             /\ m[1][2] = FormatVersion /\ m[2][2] = Str(<<97>>)
             /\ m[3][2] = (IF permanent THEN ZeroTime ELSE Str(<<53>>))
             /\ m[4][2] = Bool(~permanent) /\ m[5][2] = Str(name)
             /\ m[6][2] = Payload(Str(<<97>>)) /\ m[7][2] = Genuine
<1>1. Issuable(name, permanent) = Respelt(name, permanent, Genuine)
  BY DEF Issuable, Respelt
<1> QED BY <1>1, RespeltIs, SpellingsAre

(* The invariant: the issued license is one the issuer makes, and as long  *)
(* as nobody edits it the file is that license.                            *)
Genuinely ==
  issued # Null =>
    /\ \E name \in Names, permanent \in BOOLEAN : issued = Issuable(name, permanent)
    /\ edits = 0 => file = issued

LEMMA AlwaysGenuine == Spec => []Genuinely
<1>1. Init => Genuinely
  BY DEF Init, Genuinely
<1>2. ASSUME Typed, Genuinely, [Next]_vars PROVE Genuinely'
  <2>1. CASE Sign
    BY <2>1 DEF Sign, Issuable, Genuinely
  <2>2. CASE Edit
    <3>1. issued' = issued /\ edits' = edits + 1 /\ issued # Null
      BY <2>2 DEF Edit, Edited
    <3>2. edits' # 0
      BY <1>2, <3>1, CanonicalAssumption DEF Typed
    <3> QED BY <1>2, <3>1, <3>2 DEF Genuinely
  <2>3. CASE UNCHANGED vars
    BY <1>2, <2>3 DEF vars, Genuinely
  <2> QED BY <1>2, <2>1, <2>2, <2>3 DEF Next
<1> QED BY <1>1, <1>2, AlwaysTyped, PTL DEF Spec

LEMMA UnsignedRead ==
  ASSUME NEW o \in Files
  PROVE  LET m == Unsigned(o).members
         IN  /\ KeysIn(m) = KeysIn(o.members) \union {signature}
             /\ LastOf(m, signature) = Str(<<>>)
             /\ \A k \in KeysIn(o.members) \ {signature} : LastOf(m, k) = LastOf(o.members, k)
<1> DEFINE u == Unsigned(o)
           n == o.members
           m == u.members
           x == <<signature, Str(<<>>)>>
           c == Len(n)
           T == Text \X Flat
<1>1. n \in Members(Flat) /\ m \in Members(Flat)
  BY UnsignedTyped DEF Files
<1>2. m = Append(n, x)
  BY DEF Unsigned, Obj
<1>a. Str(<<>>) \in Flat
  <2>1. <<>> \in Text
    BY DEF Text
  <2> QED BY <2>1, SomeFlat
<1>b. x \in T
  BY <1>a, Letters
<1>c. x[1] = signature /\ x[2] = Str(<<>>)
  OBVIOUS
<1>d. n \in Seq(T)
  BY <1>1 DEF Members
<1> HIDE DEF u, n, m, x, T
<1>3. /\ c \in Nat /\ Len(m) = c + 1 /\ DOMAIN m = 1..(c + 1) /\ DOMAIN n = 1..c
      /\ \A i \in 1..c : m[i] = n[i]
      /\ m[c + 1] = x
  BY <1>2, <1>b, <1>d, Appended
<1> HIDE DEF c
<1>4. KeysIn(m) = KeysIn(n) \union {signature}
  <2>1. ASSUME NEW k \in KeysIn(m) PROVE k \in KeysIn(n) \union {signature}
    <3>1. PICK i \in 1..(c + 1) : m[i][1] = k
      BY <1>3 DEF KeysIn
    <3>2. CASE i = c + 1
      BY <1>3, <1>c, <3>1, <3>2
    <3>3. CASE i # c + 1
      <4>1. i \in 1..c
        BY <1>3, <3>3
      <4> QED BY <1>3, <3>1, <4>1 DEF KeysIn
    <3> QED BY <3>2, <3>3
  <2>2. ASSUME NEW k \in KeysIn(n) PROVE k \in KeysIn(m)
    <3>1. PICK i \in 1..c : n[i][1] = k
      BY <1>3 DEF KeysIn
    <3>2. i \in 1..(c + 1) /\ m[i][1] = k
      BY <1>3, <3>1
    <3> QED BY <1>3, <3>2 DEF KeysIn
  <2>3. signature \in KeysIn(m)
    <3>1. c + 1 \in 1..(c + 1) /\ m[c + 1][1] = signature
      BY <1>3, <1>c
    <3> QED BY <1>3, <3>1 DEF KeysIn
  <2> QED BY <2>1, <2>2, <2>3
<1>5. LastOf(m, signature) = Str(<<>>)
  <2>1. signature \in KeysIn(m)
    BY <1>4
  <2>2. PICK i \in 1..Len(m) :
          /\ m[i][1] = signature /\ LastOf(m, signature) = m[i][2]
          /\ \A j \in 1..Len(m) : m[j][1] = signature => j <= i
    BY <1>1, <2>1, LastOfIs
  <2>3. c + 1 \in 1..Len(m) /\ m[c + 1][1] = signature
    BY <1>3, <1>c
  <2>4. i = c + 1
    BY <1>3, <2>2, <2>3
  <2> QED BY <1>3, <1>c, <2>2, <2>4
<1>6. ASSUME NEW k \in KeysIn(n), k # signature PROVE LastOf(m, k) = LastOf(n, k)
  <2>1. PICK i \in 1..Len(m) :
          /\ m[i][1] = k /\ LastOf(m, k) = m[i][2]
          /\ \A j \in 1..Len(m) : m[j][1] = k => j <= i
    BY <1>1, <1>4, LastOfIs
  <2>2. PICK l \in 1..Len(n) :
          /\ n[l][1] = k /\ LastOf(n, k) = n[l][2]
          /\ \A j \in 1..Len(n) : n[j][1] = k => j <= l
    BY <1>1, LastOfIs
  <2>3. Len(n) = c
    BY DEF c
  <2>4. i # c + 1
    BY <1>3, <1>c, <1>6, <2>1
  <2>5. i \in 1..c
    BY <1>3, <2>1, <2>4
  <2>6. i <= l
    BY <1>3, <2>1, <2>2, <2>3, <2>5
  <2>7. l <= i
    <3>1. l \in 1..Len(m) /\ m[l][1] = k
      BY <1>3, <2>2, <2>3
    <3> QED BY <2>1, <3>1
  <2>8. i = l
    BY <1>3, <2>2, <2>3, <2>5, <2>6, <2>7
  <2> QED BY <1>3, <2>1, <2>2, <2>5, <2>8
<1> QED BY <1>4, <1>5, <1>6 DEF n, m, u

(* A file with the text of a struct has its keys and, read as JSON, its    *)
(* values: which file it is may differ, what it says may not.              *)
LEMMA PayloadIs ==
  ASSUME NEW x \in Scalars
  PROVE  LET m == Payload(x).members
         IN  /\ m \in Members(Scalars) /\ Payload(x) = Obj(m) /\ Payload(x) \in Flat
             /\ KeysIn(m) = {ciphertext} /\ LastOf(m, ciphertext) = x
             /\ Len(m) = 1 /\ DOMAIN m = {1} /\ m[1] = <<ciphertext, x>>
<1> DEFINE p == <<ciphertext, x>>
           m == <<p>>
           T == Text \X Scalars
<1>1. p \in T /\ p[1] = ciphertext /\ p[2] = x
  BY Letters
<1>2. Payload(x) = Obj(m) /\ Payload(x).members = m
  BY DEF Payload, Obj
<1> HIDE DEF p, T
<1>3. m \in Seq(T) /\ Len(m) = 1 /\ DOMAIN m = {1} /\ m[1] = p
  BY <1>1
<1> HIDE DEF m
<1>4. m \in Members(Scalars)
  BY <1>3 DEF Members, T
<1>5. KeysIn(m) = {ciphertext}
  BY <1>1, <1>3 DEF KeysIn
<1>6. LastOf(m, ciphertext) = x
  <2>1. PICK i \in 1..Len(m) : LastOf(m, ciphertext) = m[i][2]
    BY <1>4, <1>5, LastOfIs
  <2>2. i = 1
    BY <1>3, <2>1
  <2> QED BY <1>1, <1>3, <2>1, <2>2
<1>7. Payload(x) \in Flat
  BY <1>2, <1>4, SomeFlat
<1> QED BY <1>2, <1>3, <1>4, <1>5, <1>6, <1>7 DEF p

(* No raw control character and no error is in the text of an issued one.  *)
Sound == {v \in Flat : GoMember(v) \in Seq(Clean)}

LEMMA ScalarSound ==
  ASSUME NEW v \in Scalars, v.t # "real"
  PROVE  v \in Sound
<1>1. v \in Flat /\ v.t # "arr" /\ v.t # "obj"
  BY SomeFlat, ScalarAlike
<1>2. GoMember(v) = GoScalar(v)
  BY <1>1 DEF GoMember, GoValue
<1> QED BY <1>1, <1>2, ScalarTyped DEF Sound

LEMMA PayloadSound ==
  ASSUME NEW x \in Scalars, x.t # "real"
  PROVE  Payload(x) \in Sound
<1> DEFINE v == Payload(x)
           m == v.members
           K == KeysIn(m)
           V == {x}
           g == [w \in V |-> GoScalar(w)]
<1>1. v \in Flat /\ v = Obj(m)
  BY PayloadIs
<1>2. v.t = "obj" /\ m = << <<ciphertext, x>> >>
  BY DEF Payload, Obj
<1>3. m \in Members(V)
  BY <1>2, Letters DEF Members
<1>4. g \in [V -> Seq(Clean)]
  BY ScalarTyped
<1>5. \A i \in DOMAIN SortByUtf16(K) : LastOf(m, SortByUtf16(K)[i]) \in V
  <2> HIDE DEF m, V
  <2> QED BY <1>3, KeysTyped
<1> HIDE DEF m
<1>6. [i \in DOMAIN SortByUtf16(K) |->
         GoString(SortByUtf16(K)[i]) \o <<58>> \o GoScalar(LastOf(m, SortByUtf16(K)[i]))] =
      GoMembers(m, g)
  BY <1>5 DEF GoMembers
<1>7. GoMember(v) = <<123>> \o Joined(GoMembers(m, g)) \o <<125>>
  BY <1>2, <1>6 DEF GoMember, GoValue, m
<1> HIDE DEF g, V
<1>8. GoMembers(m, g) \in Seq(Seq(Clean))
  BY <1>3, <1>4, GoMembersIn
<1>9. GoMember(v) \in Seq(Clean)
  BY <1>7, <1>8, BracketedIn
<1> QED BY <1>1, <1>9 DEF Sound

LEMMA TextSound ==
  ASSUME NEW o \in Files, o.members \in Members(Sound)
  PROVE  GoEncode(o) \in Seq(Clean)
<1> DEFINE m == o.members
           K == KeysIn(m)
           g == [w \in Sound |-> GoMember(w)]
<1>1. o.t = "obj" /\ m \in Members(Sound)
  BY DEF Files
<1> HIDE DEF m
<1>2. \A i \in DOMAIN SortByUtf16(K) : LastOf(m, SortByUtf16(K)[i]) \in Sound
  BY <1>1, KeysTyped
<1>3. [i \in DOMAIN SortByUtf16(K) |->
         GoString(SortByUtf16(K)[i]) \o <<58>> \o GoMember(LastOf(m, SortByUtf16(K)[i]))] =
      GoMembers(m, g)
  BY <1>2 DEF GoMembers
<1>4. GoEncode(o) = <<123>> \o Joined(GoMembers(m, g)) \o <<125>>
  BY <1>1, <1>3 DEF GoEncode, GoValue, m
<1>5. g \in [Sound -> Seq(Clean)]
  BY DEF Sound
<1> HIDE DEF g
<1>6. GoMembers(m, g) \in Seq(Seq(Clean))
  BY <1>1, <1>5, GoMembersIn
<1> QED BY <1>4, <1>6, BracketedIn

LEMMA IssuableSound ==
  ASSUME NEW name \in Names, NEW permanent \in BOOLEAN
  PROVE  GoText(Issuable(name, permanent)) \in Seq(Clean)
<1> DEFINE o == Issuable(name, permanent)
           m == o.members
           T == Text \X Sound
           x == <<signature, Str(<<>>)>>
<1>1. /\ o \in Structs
      /\ m[1][2] = FormatVersion /\ m[2][2] = Str(<<97>>)
      /\ m[3][2] = (IF permanent THEN ZeroTime ELSE Str(<<53>>))
      /\ m[4][2] = Bool(~permanent) /\ m[5][2] = Str(name)
      /\ m[6][2] = Payload(Str(<<97>>)) /\ m[7][2] = Genuine
  BY IssuableIs
<1>2. \A s \in Text : Str(s) \in Scalars /\ Str(s).t = "str" /\ Str(s) \in Sound
  <2>1. \A s \in Text : Str(s) \in Scalars /\ Str(s).t = "str"
    BY SomeFlat DEF Str
  <2> QED BY <2>1, ScalarSound
<1>3. Num(4) \in Sound /\ Bool(~permanent) \in Sound
  <2>1. Num(4).t = "num" /\ Bool(~permanent).t = "bool"
    BY DEF Num, Bool
  <2>2. Num(4) \in Scalars
    BY SomeFlat
  <2>3. Bool(~permanent) \in Scalars
    BY SomeFlat
  <2> QED BY <2>1, <2>2, <2>3, ScalarSound
<1>4. <<97>> \in Text /\ <<53>> \in Text /\ <<48>> \in Text /\ <<61>> \in Text /\ <<>> \in Text
  BY SomeText DEF Text
<1>5. Payload(Str(<<97>>)) \in Sound
  BY <1>2, <1>4, PayloadSound
<1>6. ASSUME NEW i \in 1..7 PROVE m[i] \in T
  <2>1. m[i][2] \in Sound
    <3>1. Str(<<97>>) \in Sound /\ ZeroTime \in Sound /\ Str(<<53>>) \in Sound /\ Genuine \in Sound
      BY <1>2, <1>4 DEF ZeroTime, Genuine
    <3>2. Str(name) \in Sound
      BY <1>2, CanonicalAssumption
    <3> HIDE DEF m, o
    <3> QED BY <1>1, <1>3, <1>5, <3>1, <3>2 DEF FormatVersion
  <2>2. m[i] = <<fields[i], m[i][2]>> /\ fields[i] \in Text
    BY <1>1, StructSlots, FieldsApart
  <2> DEFINE v == m[i][2]
             r == m[i]
  <2> HIDE DEF v
  <2>3. r = <<fields[i], v>>
    BY <2>2 DEF v
  <2>4. v \in Sound
    BY <2>1 DEF v
  <2> HIDE DEF r
  <2>5. r \in T
    BY <2>2, <2>3, <2>4
  <2> QED BY <2>5 DEF r
<1>7. x \in T
  BY <1>2, <1>4, Letters
<1>8. m \in Seq(Text \X Flat) /\ Len(m) = 7
  BY <1>1 DEF Structs, Files, Members
<1>9. o \in Files
  BY <1>1 DEF Structs
<1> DEFINE u == Unsigned(o)
<1>10. u.members = Append(m, x) /\ u \in Files /\ GoText(o) = GoEncode(u)
  BY <1>9, UnsignedTyped DEF Unsigned, Obj, GoText
<1> HIDE DEF m, T, x, u, o
<1>11. m \in Seq(T)
  <2>1. m \in [1..7 -> T] /\ 7 \in Nat
    BY <1>6, <1>8
  <2> QED BY <2>1, SeqDef
<1>12. Append(m, x) \in Seq(T)
  BY <1>7, <1>11, AppendProperties
<1>13. u.members \in Members(Sound)
  BY <1>10, <1>12 DEF Members, T
<1>14. GoText(o) \in Seq(Clean)
  BY <1>10, <1>13, TextSound
<1> QED BY <1>14 DEF o

(* A signed text is JSON: there is a text as soon as a license is issued,  *)
(* and neither a raw control character nor an encoder's error is in it,    *)
(* whatever the licensee is called.                                        *)
THEOREM TypeCorrect == Spec => []TypeOK
<1>1. Typed /\ Signed /\ Genuinely => TypeOK
  <2> SUFFICES ASSUME Typed, Signed, Genuinely PROVE TypeOK
    OBVIOUS
  <2>1. CASE issued = Null
    BY <2>1 DEF Typed, Signed, TypeOK
  <2>2. CASE issued # Null
    <3>1. signed = GoText(issued) /\ signed # <<>>
      BY <2>2, TextIs DEF Typed, Signed
    <3>2. signed \in Seq(Clean)
      BY <2>2, <3>1, IssuableSound DEF Genuinely
    <3>3. \A i \in DOMAIN signed : signed[i] \in Rune /\ 32 <= signed[i]
      BY <3>2 DEF Clean
    <3> QED BY <2>2, <3>1, <3>3 DEF Typed, TypeOK
  <2> QED BY <2>1, <2>2
<1> QED BY <1>1, AlwaysTyped, AlwaysSigned, AlwaysGenuine, PTL

LEMMA SameContent ==
  ASSUME NEW o \in Files, NEW s \in Structs,
         GoEncode(Unsigned(o)) = GoEncode(Unsigned(s))
  PROVE  /\ KeysIn(o.members) \union {signature} = Fields
         /\ \A i \in 1..6 : fields[i] \in KeysIn(o.members)
         /\ \A i \in 1..5 : LastOf(o.members, fields[i]) = s.members[i][2]
         /\ LET w == LastOf(o.members, encryptedPayload)
            IN  /\ w \in Flat /\ w.t = "obj" /\ w.members \in Members(Scalars)
                /\ KeysIn(w.members) = {ciphertext}
                /\ s.members[6][2] = Payload(LastOf(w.members, ciphertext))
<1> DEFINE m == o.members
           n == s.members
           um == Unsigned(o).members
           un == Unsigned(s).members
<1>1. s \in Files /\ m \in Members(Flat) /\ n \in Members(Flat)
  BY DEF Structs, Files
<1>2. Unsigned(o) \in Files /\ Unsigned(s) \in Files
  BY <1>1, UnsignedTyped
<1>3. /\ KeysIn(um) = KeysIn(un)
      /\ \A k \in KeysIn(um) : GoMember(LastOf(um, k)) = GoMember(LastOf(un, k))
  BY <1>2, FileKnown
<1>4. /\ KeysIn(um) = KeysIn(m) \union {signature}
      /\ \A k \in KeysIn(m) \ {signature} : LastOf(um, k) = LastOf(m, k)
  BY UnsignedRead
<1>5. /\ KeysIn(un) = KeysIn(n) \union {signature}
      /\ \A k \in KeysIn(n) \ {signature} : LastOf(un, k) = LastOf(n, k)
  BY <1>1, UnsignedRead
<1>6. /\ KeysIn(n) = Fields
      /\ \A i \in 1..7 : LastOf(n, fields[i]) = n[i][2]
  BY StructRead
<1>7. \A i \in 1..7 : fields[i] \in Fields
  BY FieldsAre
<1>8. \A i \in 1..6 : fields[i] # signature
  BY FieldsApart
<1>9. signature \in Fields
  BY <1>7, FieldsApart
<1>a. /\ \A i \in 1..7 \ {6} : n[i][2] \in Scalars
      /\ n[6][2] \in Payloads
  BY DEF Structs
<1> HIDE DEF m, n, um, un
<1>10. KeysIn(m) \union {signature} = Fields
  BY <1>3, <1>4, <1>5, <1>6, <1>9
<1>11. ASSUME NEW i \in 1..6
       PROVE  /\ fields[i] \in KeysIn(m)
              /\ LastOf(m, fields[i]) \in Flat
              /\ GoMember(LastOf(m, fields[i])) = GoMember(n[i][2])
  <2>1. fields[i] \in Fields /\ fields[i] # signature /\ i \in 1..7
    BY <1>7, <1>8
  <2>2. fields[i] \in KeysIn(m) /\ fields[i] \in KeysIn(um)
    BY <1>4, <1>10, <2>1
  <2>3. LastOf(um, fields[i]) = LastOf(m, fields[i])
    BY <1>4, <2>1, <2>2
  <2>4. LastOf(un, fields[i]) = n[i][2]
    BY <1>5, <1>6, <2>1
  <2>5. LastOf(m, fields[i]) \in Flat
    BY <1>1, <2>2, LastOfTyped
  <2> QED BY <1>3, <2>2, <2>3, <2>4, <2>5
<1>12. ASSUME NEW i \in 1..5
       PROVE  LastOf(m, fields[i]) = n[i][2]
  <2>1. i \in 1..6 /\ i \in 1..7 \ {6}
    OBVIOUS
  <2>2. n[i][2] \in Scalars
    BY <1>a, <2>1
  <2> QED BY <1>11, <2>1, <2>2, ScalarKnown
<1> DEFINE w == LastOf(m, encryptedPayload)
<1>13. w \in Flat /\ GoMember(w) = GoMember(n[6][2])
  <2>1. 6 \in 1..6
    OBVIOUS
  <2> QED BY <1>11, <2>1, FieldsApart
<1> HIDE DEF w
<1>14. PICK x \in Scalars : n[6][2] = Payload(x)
  BY <1>a DEF Payloads
<1> DEFINE p == Payload(x).members
<1>15. /\ p \in Members(Scalars) /\ Payload(x) = Obj(p)
       /\ KeysIn(p) = {ciphertext} /\ LastOf(p, ciphertext) = x
  BY PayloadIs
<1> HIDE DEF p
<1>16. GoMember(w) = GoMember(Obj(p))
  BY <1>13, <1>14, <1>15
<1>17. /\ w.t = "obj" /\ w.members \in Members(Scalars)
       /\ KeysIn(w.members) = KeysIn(p)
       /\ \A k \in KeysIn(p) : LastOf(w.members, k) = LastOf(p, k)
  BY <1>13, <1>15, <1>16, ObjectKnown
<1>18. KeysIn(w.members) = {ciphertext} /\ LastOf(w.members, ciphertext) = x
  BY <1>15, <1>17
<1> QED BY <1>10, <1>11, <1>12, <1>13, <1>14, <1>17, <1>18 DEF m, n, w

(* What JSON.parse makes of a file: its numbers may change, nothing else.  *)
LEMMA JsNumberIs ==
  ASSUME NEW v \in Scalars
  PROVE  /\ JsNumber(v) \in Scalars
         /\ JsNumber(v).t # "num" => JsNumber(v) = v
         /\ v.t \notin {"num", "real"} => JsNumber(v) = v
         /\ JsNumber(v) = Num(4) /\ v.t # "real" => v = Num(4)
         /\ ReadMember(v) = JsNumber(v)
<1>1. ReadMember(v) = JsNumber(v)
  BY ScalarAlike DEF ReadMember, JsRead
<1>2. CASE v.t = "real" /\ v.n # 9
  <2>1. v.n \in 0..9
    <3>1. v \notin {Null} /\ v \notin [t : {"bool"}, b : BOOLEAN] /\ v \notin [t : {"str"}, s : Text]
      BY <1>2 DEF Null
    <3>2. v \in [t : {"num", "real"}, n : 0..9]
      BY <3>1 DEF Scalars
    <3> QED BY <3>2
  <2>2. JsNumber(v) = Num(v.n)
    <3>1. v # Num(9)
      BY <1>2 DEF Num
    <3> QED BY <1>2, <3>1 DEF JsNumber
  <2>3. Num(v.n).t = "num"
    BY DEF Num
  <2> QED BY <1>1, <1>2, <2>1, <2>2, <2>3, SomeFlat
<1>3. CASE v = Num(9)
  <2>1. v.t = "num" /\ Num(8).t = "num" /\ Num(8) # Num(4)
    BY <1>3 DEF Num
  <2>2. JsNumber(v) = Num(8)
    BY <1>3, <2>1 DEF JsNumber
  <2>3. Num(8) \in Scalars
    BY SomeFlat
  <2> QED BY <1>1, <2>1, <2>2, <2>3
<1>4. CASE ~(v.t = "real" /\ v.n # 9) /\ v # Num(9)
  <2>1. JsNumber(v) = v
    BY <1>4 DEF JsNumber
  <2> QED BY <1>1, <2>1
<1> QED BY <1>2, <1>3, <1>4

LEMMA MembersRead ==
  ASSUME NEW V, NEW W, NEW r \in [V -> W], NEW m \in Members(V), NEW n,
         n = [i \in DOMAIN m |-> <<m[i][1], r[m[i][2]]>>]
  PROVE  /\ n \in Members(W) /\ KeysIn(n) = KeysIn(m)
         /\ \A k \in KeysIn(m) : LastOf(n, k) = r[LastOf(m, k)]
<1> DEFINE c == Len(m)
<1>1. c \in Nat /\ DOMAIN m = 1..c /\ \A i \in 1..c : m[i] \in Text \X V
  BY ElementOfSeq DEF Members
<1> HIDE DEF c
<1>2. \A i \in 1..c : m[i][1] \in Text /\ m[i][2] \in V
  BY <1>1
<1>3. /\ n \in [1..c -> Text \X W]
      /\ \A i \in 1..c : n[i][1] = m[i][1] /\ n[i][2] = r[m[i][2]]
  BY <1>1, <1>2
<1>4. n \in Members(W) /\ Len(n) = c /\ DOMAIN n = 1..c
  BY <1>1, <1>3, SeqDef DEF Members
<1>5. KeysIn(n) = KeysIn(m)
  BY <1>1, <1>3, <1>4 DEF KeysIn
<1>6. ASSUME NEW k \in KeysIn(m) PROVE LastOf(n, k) = r[LastOf(m, k)]
  <2>1. PICK i \in 1..c :
          /\ m[i][1] = k /\ LastOf(m, k) = m[i][2]
          /\ \A j \in 1..c : m[j][1] = k => j <= i
    BY LastOfIs DEF c
  <2>2. PICK l \in 1..c :
          /\ n[l][1] = k /\ LastOf(n, k) = n[l][2]
          /\ \A j \in 1..c : n[j][1] = k => j <= l
    BY <1>4, <1>5, LastOfIs
  <2>3. i <= l /\ l <= i
    BY <1>3, <2>1, <2>2
  <2>4. i = l
    BY <1>1, <2>3
  <2> QED BY <1>3, <2>1, <2>2, <2>4
<1> QED BY <1>4, <1>5, <1>6

LEMMA ValueRead ==
  ASSUME NEW v \in Flat
  PROVE  /\ ReadMember(v) \in Flat
         /\ v \in Scalars => ReadMember(v) = JsNumber(v) /\ JsNumber(v) \in Scalars
         /\ v \notin Scalars => ReadMember(v).t = v.t /\ v.t \in {"arr", "obj"}
         /\ v.t = "obj" =>
              LET m == v.members
                  n == ReadMember(v).members
              IN  /\ m \in Members(Scalars) /\ KeysIn(n) = KeysIn(m)
                  /\ \A k \in KeysIn(m) : LastOf(n, k) = JsNumber(LastOf(m, k))
<1> DEFINE r == [w \in Scalars |-> JsNumber(w)]
<1>1. r \in [Scalars -> Scalars]
  BY JsNumberIs
<1>2. CASE v \in Scalars
  <2>1. v.t # "obj" /\ ReadMember(v) = JsNumber(v) /\ JsNumber(v) \in Scalars
    BY <1>2, JsNumberIs, ScalarAlike
  <2> QED BY <1>2, <2>1, SomeFlat
<1>3. CASE v \in [t : {"arr"}, items : Seq(Scalars)]
  <2> DEFINE q == [i \in DOMAIN v.items |-> JsNumber(v.items[i])]
  <2>1. v.t = "arr" /\ v.items \in Seq(Scalars) /\ v \notin Scalars
    BY <1>3, ScalarAlike
  <2>2. q = Map(r, v.items)
    BY <2>1 DEF Map
  <2>3. q \in Seq(Scalars)
    BY <1>1, <2>1, <2>2, Mapped
  <2>4. ReadMember(v) = Arr(q)
    BY <2>1 DEF ReadMember, JsRead
  <2> HIDE DEF q
  <2>5. Arr(q) \in Flat /\ Arr(q).t = "arr"
    BY <2>3 DEF Arr, Flat, Holding
  <2> QED BY <2>1, <2>4, <2>5
<1>4. CASE v \in [t : {"obj"}, members : Members(Scalars)]
  <2> DEFINE m == v.members
             n == [i \in DOMAIN m |-> <<m[i][1], r[m[i][2]]>>]
  <2>1. v.t = "obj" /\ m \in Members(Scalars) /\ v \notin Scalars
    BY <1>4, ScalarAlike
  <2>2. \A i \in DOMAIN m : m[i][2] \in Scalars
    <3>1. \A i \in DOMAIN m : m[i] \in Text \X Scalars
      BY <2>1 DEF Members
    <3> QED BY <3>1
  <2>3. ReadMember(v) = Obj(n)
    BY <2>1, <2>2 DEF ReadMember, JsRead
  <2> HIDE DEF m, r
  <2>4. /\ n \in Members(Scalars) /\ KeysIn(n) = KeysIn(m)
        /\ \A k \in KeysIn(m) : LastOf(n, k) = r[LastOf(m, k)]
    BY <1>1, <2>1, MembersRead
  <2> HIDE DEF n
  <2>5. Obj(n) \in Flat /\ Obj(n).t = "obj" /\ Obj(n).members = n
    BY <2>4, SomeFlat DEF Obj
  <2>6. \A k \in KeysIn(m) : LastOf(n, k) = JsNumber(LastOf(m, k))
    BY <2>1, <2>4, LastOfTyped DEF r
  <2> QED BY <2>1, <2>3, <2>4, <2>5, <2>6 DEF m
<1> QED BY <1>2, <1>3, <1>4 DEF Flat, Holding

LEMMA WordRead ==
  ASSUME NEW v \in Flat, ReadMember(v) \in Scalars, ReadMember(v).t # "num"
  PROVE  v = ReadMember(v)
<1>1. v \in Scalars
  BY ValueRead, ScalarAlike
<1> QED BY <1>1, JsNumberIs

LEMMA ParseIs ==
  ASSUME NEW o \in Files
  PROVE  LET m == o.members
             n == Parse(o).members
         IN  /\ Parse(o) \in Files /\ Parse(o) = Obj(n) /\ KeysIn(n) = KeysIn(m)
             /\ n = [i \in DOMAIN m |-> <<m[i][1], ReadMember(m[i][2])>>]
             /\ \A k \in KeysIn(m) :
                  LastOf(m, k) \in Flat /\ LastOf(n, k) = ReadMember(LastOf(m, k))
<1> DEFINE m == o.members
           r == [w \in Flat |-> ReadMember(w)]
           n == [i \in DOMAIN m |-> <<m[i][1], r[m[i][2]]>>]
<1>1. r \in [Flat -> Flat]
  BY ValueRead
<1>2. o.t = "obj" /\ m \in Members(Flat)
  BY DEF Files
<1>3. \A i \in DOMAIN m : m[i][2] \in Flat
  <2>1. \A i \in DOMAIN m : m[i] \in Text \X Flat
    BY <1>2 DEF Members
  <2> QED BY <2>1
<1>4. n = [i \in DOMAIN m |-> <<m[i][1], ReadMember(m[i][2])>>]
  BY <1>3
<1>5. Parse(o) = Obj(n)
  BY <1>2, <1>4 DEF Parse, JsRead
<1> HIDE DEF m, r
<1>6. /\ n \in Members(Flat) /\ KeysIn(n) = KeysIn(m)
      /\ \A k \in KeysIn(m) : LastOf(n, k) = r[LastOf(m, k)]
  BY <1>1, <1>2, MembersRead
<1> HIDE DEF n
<1>7. Obj(n) \in Files /\ Obj(n).members = n
  BY <1>6, SomeFlat DEF Obj
<1>8. \A k \in KeysIn(m) : LastOf(m, k) \in Flat
  BY <1>2, LastOfTyped
<1>9. \A k \in KeysIn(m) : LastOf(n, k) = ReadMember(LastOf(m, k))
  BY <1>6, <1>8 DEF r
<1> QED BY <1>4, <1>5, <1>6, <1>7, <1>8, <1>9 DEF m

(* What Node goes on with.                                                 *)
LEMMA NodeCovers ==
  ASSUME NEW o \in Files, NEW s \in Structs, signed = GoText(s), NodeAccepts(o)
  PROVE  LET p == Parse(o)
         IN  /\ p \in Files /\ GoEncode(Unsigned(p)) = GoEncode(Unsigned(s))
             /\ KeysIn(p.members) = Fields
             /\ Get(p, signature) = LastOf(p.members, signature)
             /\ \A k \in Fields \ {encryptedPayload, signature} : Get(p, k) = Get(s, k)
             /\ Get(Get(p, encryptedPayload), ciphertext) =
                  Get(Get(s, encryptedPayload), ciphertext)
<1> DEFINE p == Parse(o)
           m == p.members
           w == LastOf(m, encryptedPayload)
           n == s.members
<1>0. p \in Files
  BY ParseIs
<1>1. GoEncode(Unsigned(p)) = GoEncode(Unsigned(s))
  <2>1. Unsigned(p) \in Holding(Flat)
    BY <1>0, UnsignedTyped DEF Files, Holding
  <2>2. JsEncode(Unsigned(p)) = GoEncode(Unsigned(p))
    BY <2>1, EncodeAlike
  <2> QED BY <2>2 DEF NodeAccepts, NodeText, NodeView, GoText
<1>4. Get(p, signature) \in NodeSpellings
  BY DEF NodeAccepts
<1> HIDE DEF p
<1>2. /\ KeysIn(m) \union {signature} = Fields
      /\ \A i \in 1..6 : fields[i] \in KeysIn(m)
      /\ \A i \in 1..5 : LastOf(m, fields[i]) = n[i][2]
  BY <1>0, <1>1, SameContent
<1>3. /\ w \in Flat /\ w.t = "obj" /\ w.members \in Members(Scalars)
      /\ KeysIn(w.members) = {ciphertext}
      /\ n[6][2] = Payload(LastOf(w.members, ciphertext))
  BY <1>0, <1>1, SameContent
<1>5. KeysIn(m) = Fields /\ Get(p, signature) = LastOf(m, signature)
  <2>1. signature \in KeysIn(m)
    BY <1>4, SpellingsAre DEF Get
  <2> QED BY <1>2, <2>1 DEF Get
<1>6. \A i \in 1..7 : Get(s, fields[i]) = n[i][2]
  BY StructRead
<1>7. ASSUME NEW k \in Fields \ {encryptedPayload, signature} PROVE Get(p, k) = Get(s, k)
  <2>1. PICK i \in 1..7 : k = fields[i]
    BY FieldsAre
  <2>2. i # 6 /\ i # 7
    BY <2>1, FieldsApart
  <2>3. Get(p, k) = LastOf(m, k)
    BY <1>5 DEF Get
  <2>4. i \in 1..5
    BY <2>2
  <2> QED BY <1>2, <1>6, <2>1, <2>3, <2>4
<1>8. Get(p, encryptedPayload) = w /\ Get(s, encryptedPayload) = n[6][2]
  <2>1. encryptedPayload \in Fields /\ encryptedPayload = fields[6] /\ 6 \in 1..7
    BY FieldsAre, FieldsApart
  <2> QED BY <1>5, <1>6, <2>1 DEF Get
<1> DEFINE x == LastOf(w.members, ciphertext)
<1>9. Get(w, ciphertext) = x
  BY <1>3 DEF Get
<1>10. Get(n[6][2], ciphertext) = x
  <2>1. x \in Scalars
    BY <1>3, LastOfTyped
  <2>2. n[6][2] = Payload(x)
    BY <1>3
  <2> HIDE DEF x
  <2> QED BY <2>1, <2>2, PayloadIs DEF Get
<1> QED BY <1>0, <1>1, <1>5, <1>7, <1>8, <1>9, <1>10 DEF p

(* What Go goes on with, if it decodes to a struct.                        *)
LEMMA StructEqual ==
  ASSUME NEW o \in Structs, NEW s \in Structs,
         \A i \in 1..7 : o.members[i][2] = s.members[i][2]
  PROVE  o = s
<1> DEFINE m == o.members
           n == s.members
           T == Text \X Flat
<1>1. /\ m \in Seq(T) /\ n \in Seq(T) /\ Len(m) = 7 /\ Len(n) = 7
      /\ \A i \in 1..7 : m[i][1] = fields[i] /\ n[i][1] = fields[i] /\ m[i][2] = n[i][2]
  BY DEF Structs, Files, Members
<1>2. o = [t |-> "obj", members |-> m] /\ s = [t |-> "obj", members |-> n]
  BY DEF Structs, Files
<1> HIDE DEF m, n
<1> HIDE DEF T
<1>3. ASSUME NEW i \in 1..7 PROVE m[i] = n[i]
  <2>1. m[i] \in T
    BY <1>1, ElementOfSeq
  <2>2. n[i] \in T
    BY <1>1, ElementOfSeq
  <2> DEFINE x == m[i]
             y == n[i]
  <2>3. x[1] = y[1] /\ x[2] = y[2] /\ x \in T /\ y \in T
    BY <1>1, <2>1, <2>2
  <2> HIDE DEF x, y
  <2>4. x = y
    BY <2>3 DEF T
  <2> QED BY <2>4 DEF x, y
<1>4. m = n
  BY <1>1, <1>3, SeqEqual
<1> QED BY <1>2, <1>4

LEMMA GoCovers ==
  ASSUME NEW o \in Structs, NEW s \in Structs, GoText(o) = GoText(s)
  PROVE  \A k \in Fields \ {signature} : Get(o, k) = Get(s, k)
<1> DEFINE m == o.members
           n == s.members
           w == LastOf(m, encryptedPayload)
<1>1. o \in Files /\ GoEncode(Unsigned(o)) = GoEncode(Unsigned(s))
  BY DEF Structs, GoText
<1>2. \A i \in 1..7 : LastOf(m, fields[i]) = m[i][2]
  BY StructRead
<1>3. \A i \in 1..5 : m[i][2] = n[i][2]
  BY <1>1, <1>2, SameContent
<1>4. n[6][2] = Payload(LastOf(w.members, ciphertext))
  BY <1>1, SameContent
<1>5. w = m[6][2]
  BY <1>2, FieldsApart
<1>6. PICK x \in Scalars : m[6][2] = Payload(x)
  BY DEF Structs, Payloads
<1>7. LastOf(w.members, ciphertext) = x
  BY <1>5, <1>6, PayloadIs
<1>8. m[6][2] = n[6][2]
  BY <1>4, <1>6, <1>7
<1>9. \A i \in 1..6 : m[i][2] = n[i][2]
  BY <1>3, <1>8
<1>10. \A i \in 1..7 : Get(o, fields[i]) = m[i][2] /\ Get(s, fields[i]) = n[i][2]
  BY StructRead
<1>11. ASSUME NEW k \in Fields \ {signature} PROVE Get(o, k) = Get(s, k)
  <2>1. PICK i \in 1..7 : k = fields[i]
    BY FieldsAre
  <2>2. i \in 1..6
    BY <2>1, FieldsApart
  <2> QED BY <1>9, <1>10, <2>1, <2>2
<1> QED BY <1>11

-----------------------------------------------------------------------------
(* What json.Unmarshal makes of a file, member by member.                  *)

(* What holds at the start of a stretch and is kept along it holds         *)
(* throughout.                                                             *)
LEMMA Upward ==
  ASSUME NEW a \in Nat, NEW n \in Nat, NEW P, a \in P,
         \A i \in (a + 1)..n : i - 1 \in P => i \in P
  PROVE  \A i \in a..n : i \in P
<1> DEFINE Bad == {i \in a..n : i \notin P}
<1>1. CASE Bad = {}
  BY <1>1
<1>2. CASE Bad # {}
  <2>1. Bad \in SUBSET Nat
    OBVIOUS
  <2>2. PICK m \in Bad : \A i \in Bad : m <= i
    <3> HIDE DEF Bad
    <3> QED BY <1>2, <2>1, Least
  <2>3. m \in a..n /\ m \notin P /\ m # a
    OBVIOUS
  <2>4. m - 1 \in a..n /\ m \in (a + 1)..n /\ m - 1 < m
    <3> HIDE DEF Bad
    <3> QED BY <2>3
  <2>5. m - 1 \notin Bad
    <3> HIDE DEF Bad
    <3>1. m \in Nat /\ m - 1 \in Nat
      BY <2>3, <2>4
    <3> QED BY <2>2, <2>4, <3>1
  <2>6. m - 1 \in P
    BY <2>4, <2>5
  <2> QED BY <2>3, <2>4, <2>6
<1> QED BY <1>1, <1>2

LEMMA Lowered ==
  /\ \A i \in 1..7 : Lower(fields[i]) = fields[i]
  /\ Lower(ciphertext) = ciphertext
<1>1. ASSUME NEW n \in 91..200 PROVE Lower(<<n>>) = <<n>>
  BY DEF Lower
<1> QED
  BY <1>1 DEF fields, version, id, notAfter, expires, licensee, encryptedPayload,
              signature, ciphertext

LEMMA KindsAre ==
  /\ Kind(fields[1]) = "num" /\ Kind(fields[2]) = "str" /\ Kind(fields[3]) = "time"
  /\ Kind(fields[4]) = "bool" /\ Kind(fields[5]) = "str" /\ Kind(fields[6]) = "obj"
  /\ Kind(fields[7]) = "str" /\ Kind(ciphertext) = "str"
BY DEF Kind, fields, version, id, notAfter, expires, licensee, encryptedPayload,
       signature, ciphertext

(* The kinds of the fields but the payload's.                              *)
Plain == {"num", "str", "time", "bool"}

LEMMA Rejected == Reject \notin Flat /\ Reject \notin Files /\ Reject \notin Structs
<1>1. \A v \in Flat : v.t \in {"null", "bool", "num", "real", "str", "arr", "obj"}
  BY DEF Flat, Holding, Scalars, Null
<1>2. Reject.t = "reject"
  BY DEF Reject
<1> QED BY <1>1, <1>2 DEF Files, Structs

LEMMA TimeTyped ==
  ASSUME NEW s
  PROVE  TimeOf(s) \in Scalars \union {Reject}
<1>1. CASE \E d \in 48..57 : s \in Spellings(d)
  <2>1. PICK d \in 48..57 : s = <<d>> \/ s = <<d, 46, 48>>
    BY <1>1 DEF Spellings
  <2>2. s[1] = d
    BY <2>1
  <2>3. Str(<<d>>) \in Scalars
    <3>1. d \in 0..199
      OBVIOUS
    <3> QED BY <3>1, SomeText, SomeFlat
  <2> QED BY <1>1, <2>2, <2>3 DEF TimeOf
<1>2. CASE ~ \E d \in 48..57 : s \in Spellings(d)
  BY <1>2 DEF TimeOf
<1> QED BY <1>1, <1>2

LEMMA ScalarDecoded ==
  ASSUME NEW kind \in Plain, NEW old \in Scalars, NEW v \in Flat
  PROVE  /\ DecodeScalar(kind, old, v) \in Scalars \union {Reject}
         /\ v.t = kind => DecodeScalar(kind, old, v) = v
         /\ kind = "time" /\ v.t = "str" => DecodeScalar(kind, old, v) = TimeOf(v.s)
<1>1. CASE v = Null
  BY <1>1 DEF DecodeScalar, Null, Plain
<1>2. CASE v # Null /\ kind = "time" /\ v.t = "str"
  BY <1>2, TimeTyped DEF DecodeScalar
<1>3. CASE v # Null /\ kind # "time" /\ kind = v.t
  <2>1. v \in Scalars
    BY <1>3 DEF Flat, Holding, Plain
  <2>2. DecodeScalar(kind, old, v) = v
    BY <1>3 DEF DecodeScalar, Plain
  <2> QED BY <1>3, <2>1, <2>2
<1>4. CASE v # Null /\ kind # v.t /\ ~(kind = "time" /\ v.t = "str")
  BY <1>4 DEF DecodeScalar
<1>5. ~(kind = "time" /\ kind = v.t)
  BY DEF Flat, Holding, Scalars, Null
<1> QED BY <1>1, <1>2, <1>3, <1>4, <1>5

LEMMA PlainDecoded ==
  ASSUME NEW kind \in Plain, NEW old \in Scalars, NEW v \in Flat
  PROVE  DecodeMember(kind, old, v) = DecodeScalar(kind, old, v)
BY DEF DecodeMember, DecodeValue, Plain

LEMMA Chosen ==
  ASSUME NEW n \in Nat, NEW T, NEW base \in T, NEW step \in [1..n -> [T -> T]],
         NEW f, f = [i \in 0..n |-> f[i]], f[0] = base,
         \A i \in 1..n : f[i - 1] \in T => f[i] = step[i][f[i - 1]]
  PROVE  Recursive(n, T, base, step, f)
<1> DEFINE P == {i \in 0..n : f[i] \in T}
<1>1. 0 \in P
  OBVIOUS
<1>2. ASSUME NEW i \in (0 + 1)..n, i - 1 \in P PROVE i \in P
  <2>1. i \in 1..n /\ i \in 0..n /\ f[i - 1] \in T
    BY <1>2
  <2>2. f[i] = step[i][f[i - 1]] /\ step[i] \in [T -> T]
    BY <2>1
  <2> QED BY <2>1, <2>2
<1>3. \A i \in 0..n : i \in P
  <2> HIDE DEF P
  <2> QED BY <1>1, <1>2, Upward
<1>4. \A i \in 0..n : f[i] \in T
  BY <1>3
<1>5. \A i \in 1..n : f[i - 1] \in T
  BY <1>4
<1> QED BY <1>4, <1>5 DEF Recursive

(* A member of the payload, and all of them.                               *)
LEMMA CiphertextAssigned ==
  ASSUME NEW x \in Scalars, NEW p \in Text \X Flat
  PROVE  Assign(DecodeScalar, Payload(x), p) =
           IF Lower(p[1]) # ciphertext \/ DecodeScalar("str", x, p[2]) = Reject THEN Reject
           ELSE Payload(DecodeScalar("str", x, p[2]))
<1> DEFINE o == Payload(x)
           at == {i \in DOMAIN o.members : o.members[i][1] = Lower(p[1])}
           new == DecodeScalar("str", x, p[2])
<1>1. o.members = << <<ciphertext, x>> >> /\ DOMAIN o.members = {1}
  BY DEF Payload, Obj
<1>2. CASE Lower(p[1]) # ciphertext
  <2>1. at = {}
    BY <1>1, <1>2
  <2> QED BY <1>2, <2>1 DEF Assign
<1>3. CASE Lower(p[1]) = ciphertext
  <2>1. at = {1} /\ (CHOOSE i \in at : TRUE) = 1
    BY <1>1, <1>3
  <2>2. Kind(Lower(p[1])) = "str" /\ o.members[1][2] = x
    BY <1>1, <1>3, KindsAre
  <2>3. Assign(DecodeScalar, o, p) =
          IF new = Reject THEN Reject ELSE [o EXCEPT !.members[1][2] = new]
    BY <2>1, <2>2 DEF Assign
  <2> HIDE DEF new
  <2>4. [o EXCEPT !.members[1][2] = new] = Payload(new)
    BY DEF Payload, Obj
  <2> QED BY <1>3, <2>3, <2>4 DEF new
<1> QED BY <1>2, <1>3

LEMMA PayloadIn == \A x \in Scalars : Payload(x) \in Payloads
BY DEF Payloads

PayloadSteps(m) ==
  [i \in 1..Len(m) |-> [x \in Payloads \union {Reject} |->
     IF x = Reject THEN Reject ELSE Assign(DecodeScalar, x, m[i])]]

LEMMA PayloadStepped ==
  ASSUME NEW m \in Members(Flat)
  PROVE  PayloadSteps(m) \in
           [1..Len(m) -> [Payloads \union {Reject} -> Payloads \union {Reject}]]
<1> DEFINE T == Payloads \union {Reject}
           Step(i, x) == IF x = Reject THEN Reject ELSE Assign(DecodeScalar, x, m[i])
<1>1. ASSUME NEW i \in 1..Len(m), NEW x \in T PROVE Step(i, x) \in T
  <2>1. m[i] \in Text \X Flat /\ m[i][2] \in Flat
    BY ElementOfSeq DEF Members
  <2>2. CASE x = Reject
    BY <2>2
  <2>3. CASE x # Reject
    <3>1. PICK y \in Scalars : x = Payload(y)
      BY <2>3 DEF Payloads
    <3>2. DecodeScalar("str", y, m[i][2]) \in Scalars \union {Reject}
      BY <2>1, ScalarDecoded DEF Plain
    <3>3. Assign(DecodeScalar, x, m[i]) \in T
      BY <2>1, <3>1, <3>2, CiphertextAssigned, PayloadIn
    <3> QED BY <2>3, <3>3
  <2> QED BY <2>2, <2>3
<1>2. PayloadSteps(m) = [i \in 1..Len(m) |-> [x \in T |-> Step(i, x)]]
  BY DEF PayloadSteps
<1> HIDE DEF Step, T
<1>3. [i \in 1..Len(m) |-> [x \in T |-> Step(i, x)]] \in [1..Len(m) -> [T -> T]]
  BY <1>1
<1> QED BY <1>2, <1>3 DEF T

LEMMA PayloadDecoded ==
  ASSUME NEW old \in Payloads, NEW v \in Flat
  PROVE  /\ v.t # "obj" => DecodeMember("obj", old, v) \in {old, Reject}
         /\ v.t = "obj" =>
              /\ v.members \in Members(Flat)
              /\ \E f : /\ Recursive(Len(v.members), Payloads \union {Reject}, old,
                                     PayloadSteps(v.members), f)
                        /\ DecodeMember("obj", old, v) = f[Len(v.members)]
<1>1. CASE v.t # "obj"
  <2>1. DecodeMember("obj", old, v) = DecodeScalar("obj", old, v)
    BY <1>1 DEF DecodeMember, DecodeValue
  <2>2. CASE v = Null
    BY <1>1, <2>1, <2>2 DEF DecodeScalar, Null
  <2>3. CASE v # Null
    BY <1>1, <2>1, <2>3 DEF DecodeScalar
  <2> QED BY <1>1, <2>2, <2>3
<1>2. CASE v.t = "obj"
  <2> DEFINE m == v.members
             n == Len(m)
             T == Payloads \union {Reject}
             step == PayloadSteps(m)
             Step(i, x) == IF x = Reject THEN Reject ELSE Assign(DecodeScalar, x, m[i])
             body(f) == [i \in 0..n |-> IF i = 0 THEN old ELSE Step(i, f[i - 1])]
             after == CHOOSE f : f = body(f)
  <2>1. m \in Members(Scalars)
    BY <1>2, ScalarAlike DEF Flat, Holding
  <2>2. m \in Members(Flat)
    BY <2>1, SomeFlat DEF Members
  <2>3. n \in Nat /\ old \in T
    BY <2>2 DEF Members
  <2>4. step \in [1..n -> [T -> T]]
    BY <2>2, PayloadStepped
  <2>5. \A i \in 1..n, x \in T : step[i][x] = Step(i, x)
    BY DEF PayloadSteps
  <2>6. DecodeMember("obj", old, v) = after[n]
    BY <1>2 DEF DecodeMember, DecodeValue
  <2> HIDE DEF T, step, Step, n, m
  <2>7. \E f : f = body(f)
    <3>1. \E f : Recursive(n, T, old, step, f)
      BY ONLY <2>3, <2>4, Recursion
    <3>2. PICK f : f \in [0..n -> T] /\ f[0] = old /\ \A i \in 1..n : f[i] = step[i][f[i - 1]]
      BY <3>1 DEF Recursive
    <3>3. \A i \in 1..n : f[i] = Step(i, f[i - 1])
      <4> TAKE i \in 1..n
      <4>1. i - 1 \in 0..n
        BY <2>3
      <4> QED BY <2>5, <3>2, <4>1
    <3>4. \A i \in 0..n : f[i] = IF i = 0 THEN old ELSE Step(i, f[i - 1])
      BY <3>2, <3>3
    <3> QED BY <3>2, <3>4
  <2>8. after = body(after)
    BY <2>7
  <2> HIDE DEF after
  <2>9. after = [i \in 0..n |-> after[i]] /\ after[0] = old
    BY <2>3, <2>8
  <2>10. \A i \in 1..n : after[i - 1] \in T => after[i] = step[i][after[i - 1]]
    <3> TAKE i \in 1..n
    <3>1. i \in 0..n /\ i # 0
      BY <2>3
    <3>2. after[i] = Step(i, after[i - 1])
      BY <2>8, <3>1
    <3> QED BY <2>5, <3>2
  <2>11. Recursive(n, T, old, step, after)
    BY ONLY <2>3, <2>4, <2>9, <2>10, Chosen
  <2> QED BY <1>2, <2>2, <2>6, <2>11 DEF m, n, T, step
<1> QED BY <1>1, <1>2

(* A member of the file, and all of them.                                  *)
LEMMA SlotsFlat == \A i \in 1..7 : \A x \in Slot(i) : x \in Flat /\ x # Reject
<1>1. \A x \in Payloads : x \in Flat
  BY PayloadIs DEF Payloads
<1> QED BY <1>1, SomeFlat, Rejected DEF Slot

LEMMA FieldDecoded ==
  ASSUME NEW i \in 1..7, NEW old \in Slot(i), NEW v \in Flat
  PROVE  DecodeMember(Kind(fields[i]), old, v) \in Slot(i) \union {Reject}
<1>1. CASE i = 6
  <2>1. old \in Payloads /\ Kind(fields[i]) = "obj"
    BY <1>1, KindsAre DEF Slot
  <2>2. CASE v.t # "obj"
    <3>1. DecodeMember("obj", old, v) \in {old, Reject}
      BY <2>1, <2>2, PayloadDecoded
    <3> QED BY <2>1, <3>1
  <2>3. CASE v.t = "obj"
    <3> DEFINE n == Len(v.members)
               T == Payloads \union {Reject}
    <3>1. n \in Nat
      BY <2>1, <2>3, PayloadDecoded DEF Members
    <3>2. PICK f : f \in [0..n -> T] /\ DecodeMember("obj", old, v) = f[n]
      BY <2>1, <2>3, PayloadDecoded DEF Recursive
    <3> HIDE DEF T, n
    <3>3. f[n] \in T
      BY <3>1, <3>2
    <3> QED BY <1>1, <2>1, <3>2, <3>3 DEF T, Slot
  <2> QED BY <2>2, <2>3
<1>2. CASE i # 6
  <2>1. Kind(fields[i]) \in Plain /\ old \in Scalars /\ Slot(i) = Scalars
    BY <1>2, KindsAre DEF Slot, Plain
  <2> QED BY <2>1, PlainDecoded, ScalarDecoded
<1> QED BY <1>1, <1>2

LEMMA FieldAssigned ==
  ASSUME NEW o \in Structs, NEW p \in Text \X Flat, NEW i \in 1..7, Lower(p[1]) = fields[i]
  PROVE  LET new == DecodeMember(Kind(fields[i]), o.members[i][2], p[2])
         IN  Assign(DecodeMember, o, p) =
               IF new = Reject THEN Reject ELSE [o EXCEPT !.members[i][2] = new]
<1> DEFINE at == {j \in DOMAIN o.members : o.members[j][1] = Lower(p[1])}
<1>1. DOMAIN o.members = 1..7 /\ \A j \in 1..7 : o.members[j][1] = fields[j]
  BY DEF Structs, Files, Members
<1>2. at = {i}
  BY <1>1, FieldsApart
<1>3. (CHOOSE j \in at : TRUE) = i /\ at # {}
  BY <1>2
<1> QED BY <1>3 DEF Assign

LEMMA NoneAssigned ==
  ASSUME NEW o \in Structs, NEW p \in Text \X Flat, \A i \in 1..7 : Lower(p[1]) # fields[i]
  PROVE  Assign(DecodeMember, o, p) = Reject
<1>1. DOMAIN o.members = 1..7 /\ \A j \in 1..7 : o.members[j][1] = fields[j]
  BY DEF Structs, Files, Members
<1> QED BY <1>1 DEF Assign

LEMMA MemberSet ==
  ASSUME NEW T, NEW m \in Seq(T), NEW i \in 1..Len(m), NEW z \in T
  PROVE  [m EXCEPT ![i] = z] \in Seq(T) /\ Len([m EXCEPT ![i] = z]) = Len(m)
BY ONLY ExceptSeq, m \in Seq(T), i \in 1..Len(m), z \in T

LEMMA FieldSet ==
  ASSUME NEW o \in Structs, NEW i \in 1..7, NEW x \in Slot(i)
  PROVE  LET s == [o EXCEPT !.members[i][2] = x]
         IN  /\ s \in Structs
             /\ s.members[i][2] = x
             /\ \A j \in 1..7 \ {i} : s.members[j][2] = o.members[j][2]
<1> DEFINE m == o.members
           y == [m[i] EXCEPT ![2] = x]
           z == <<fields[i], x>>
           n == [m EXCEPT ![i] = z]
           T == Text \X Flat
           s == [o EXCEPT !.members[i][2] = x]
<1>1. o = [t |-> "obj", members |-> m] /\ m \in Seq(T) /\ Len(m) = 7
  BY DEF Structs, Files, Members
<1>2. y = z
  <2>1. m[i] = <<fields[i], m[i][2]>>
    BY StructSlots
  <2> DEFINE q == m[i][2]
  <2> HIDE DEF q
  <2>2. [<<fields[i], q>> EXCEPT ![2] = x] = <<fields[i], x>>
    OBVIOUS
  <2> QED BY <2>1, <2>2 DEF q
<1>3. s = [t |-> "obj", members |-> n]
  <2>1. [m EXCEPT ![i] = y] = n
    BY <1>2
  <2>2. s = [o EXCEPT !.members = [m EXCEPT ![i] = y]]
    OBVIOUS
  <2>3. s = [o EXCEPT !.members = n]
    BY <2>1, <2>2
  <2> HIDE DEF n, s, m
  <2> QED BY <1>1, <2>3
<1>4. z \in T /\ z[1] = fields[i] /\ z[2] = x
  BY FieldsApart, SlotsFlat
<1>5. \A j \in 1..7 : m[j][1] = fields[j] /\ m[j][2] \in Slot(j)
  BY StructSlots DEF Structs
<1> HIDE DEF z, T, m
<1>6. n \in Seq(T) /\ Len(n) = 7 /\ n[i] = z /\ \A j \in 1..7 \ {i} : n[j] = m[j]
  <2>1. i \in 1..Len(m) /\ DOMAIN m = 1..7
    BY <1>1
  <2>2. n \in Seq(T) /\ Len(n) = Len(m)
    <3>1. m \in Seq(T) /\ z \in T
      BY <1>1, <1>4
    <3>2. i \in 1..Len(m)
      BY <2>1
    <3> QED BY ONLY <3>1, <3>2, MemberSet
  <2> QED BY <1>1, <2>1, <2>2
<1> HIDE DEF n
<1>7. \A j \in 1..7 : n[j][1] = fields[j] /\ n[j][2] \in Slot(j)
  BY <1>4, <1>5, <1>6
<1>8. s.members = n /\ s \in Files
  BY <1>3, <1>6 DEF Files, Members, T
<1> HIDE DEF s
<1>9. s \in Structs
  BY <1>6, <1>7, <1>8 DEF Structs, Slot
<1> QED BY <1>4, <1>6, <1>8, <1>9 DEF s, m

StructSteps(m) ==
  [i \in 1..Len(m) |-> [x \in Structs \union {Reject} |->
     IF x = Reject THEN Reject ELSE Assign(DecodeMember, x, m[i])]]

LEMMA StructStepped ==
  ASSUME NEW m \in Members(Flat)
  PROVE  StructSteps(m) \in
           [1..Len(m) -> [Structs \union {Reject} -> Structs \union {Reject}]]
<1> DEFINE T == Structs \union {Reject}
           Step(i, x) == IF x = Reject THEN Reject ELSE Assign(DecodeMember, x, m[i])
<1>1. ASSUME NEW i \in 1..Len(m), NEW x \in T PROVE Step(i, x) \in T
  <2> DEFINE p == m[i]
  <2>1. p \in Text \X Flat /\ p[2] \in Flat
    BY ElementOfSeq DEF Members
  <2> HIDE DEF p
  <2>2. CASE x = Reject
    BY <2>2
  <2>3. CASE x # Reject /\ \A j \in 1..7 : Lower(p[1]) # fields[j]
    <3>1. Assign(DecodeMember, x, p) = Reject
      BY <2>1, <2>3, NoneAssigned
    <3> QED BY <2>3, <3>1 DEF p
  <2>4. ASSUME x # Reject, NEW j \in 1..7, Lower(p[1]) = fields[j] PROVE Step(i, x) \in T
    <3> DEFINE new == DecodeMember(Kind(fields[j]), x.members[j][2], p[2])
               s == [x EXCEPT !.members[j][2] = new]
    <3>1. x \in Structs
      BY <2>4
    <3>2. x.members[j][2] \in Slot(j)
      BY <3>1, StructSlots
    <3>3. new \in Slot(j) \union {Reject}
      BY <2>1, <3>2, FieldDecoded
    <3>4. Assign(DecodeMember, x, p) = IF new = Reject THEN Reject ELSE s
      BY <2>1, <2>4, <3>1, FieldAssigned, ZenonT(30)
    <3> HIDE DEF new
    <3>5. new # Reject => s \in Structs
      BY <3>1, <3>3, FieldSet
    <3> QED BY <2>4, <3>4, <3>5 DEF p
  <2> QED BY <2>2, <2>3, <2>4
<1>2. StructSteps(m) = [i \in 1..Len(m) |-> [x \in T |-> Step(i, x)]]
  BY DEF StructSteps
<1> HIDE DEF Step, T
<1>3. [i \in 1..Len(m) |-> [x \in T |-> Step(i, x)]] \in [1..Len(m) -> [T -> T]]
  BY <1>1
<1> QED BY <1>2, <1>3 DEF T

LEMMA ZeroIs == ZeroLicense \in Structs
<1> DEFINE e == Str(<<>>)
           b == Bool(FALSE)
           o == License(e, ZeroTime, b, e, e, e)
           z == Num(0)
<1>1. e \in Scalars /\ ZeroTime \in Scalars /\ b \in Scalars /\ z \in Scalars
  <2>1. <<>> \in Text
    BY DEF Text
  <2>2. <<48>> \in Text
    BY SomeText
  <2>3. Str(<<>>) \in Scalars /\ Str(<<48>>) \in Scalars
    BY <2>1, <2>2, SomeFlat
  <2>4. Bool(FALSE) \in Scalars /\ Num(0) \in Scalars
    BY DEF Bool, Num, Scalars
  <2> QED BY <2>3, <2>4 DEF ZeroTime
<1> HIDE DEF e, b, z
<1>2. o \in Structs
  BY <1>1, LicenseIs
<1>3. z \in Slot(1)
  BY <1>1 DEF Slot
<1> HIDE DEF o
<1>4. [o EXCEPT !.members[1][2] = z] \in Structs
  BY <1>2, <1>3, FieldSet
<1> QED BY <1>4 DEF ZeroLicense, o, e, b, z

LEMMA Decoded ==
  ASSUME NEW o \in Files
  PROVE  \E f : /\ Recursive(Len(o.members), Structs \union {Reject}, ZeroLicense,
                             StructSteps(o.members), f)
                /\ GoDecode(o) = f[Len(o.members)]
<1> DEFINE m == o.members
           n == Len(m)
           T == Structs \union {Reject}
           step == StructSteps(m)
           Step(i, x) == IF x = Reject THEN Reject ELSE Assign(DecodeMember, x, m[i])
           body(f) == [i \in 0..n |-> IF i = 0 THEN ZeroLicense ELSE Step(i, f[i - 1])]
           after == CHOOSE f : f = body(f)
<1>1. m \in Members(Flat) /\ o.t = "obj"
  BY DEF Files
<1>2. n \in Nat
  BY <1>1 DEF Members
<1>3. ZeroLicense \in T
  BY ZeroIs
<1>4. step \in [1..n -> [T -> T]]
  BY <1>1, StructStepped
<1>5. \A i \in 1..n, x \in T : step[i][x] = Step(i, x)
  BY DEF StructSteps
<1>6. GoDecode(o) = after[n]
  BY <1>1 DEF GoDecode, DecodeValue
<1> DEFINE old == ZeroLicense
<1> HIDE DEF T, step, Step, n, m, old
<1>7. n \in Nat /\ old \in T
  BY <1>2, <1>3 DEF old
<1>8. \E f : f = body(f)
  <2>1. \E f : Recursive(n, T, old, step, f)
    BY ONLY <1>7, <1>4, Recursion
  <2>2. PICK f : f \in [0..n -> T] /\ f[0] = old /\ \A i \in 1..n : f[i] = step[i][f[i - 1]]
    BY <2>1 DEF Recursive
  <2>3. \A i \in 1..n : f[i] = Step(i, f[i - 1])
    <3> TAKE i \in 1..n
    <3>1. i - 1 \in 0..n
      BY <1>7
    <3> QED BY <1>5, <2>2, <3>1
  <2>4. \A i \in 0..n : f[i] = IF i = 0 THEN old ELSE Step(i, f[i - 1])
    BY <2>2, <2>3
  <2> QED BY <2>2, <2>4 DEF old
<1>9. after = body(after)
  BY <1>8
<1> HIDE DEF after
<1>10. after = [i \in 0..n |-> after[i]] /\ after[0] = old
  BY <1>7, <1>9 DEF old
<1>11. \A i \in 1..n : after[i - 1] \in T => after[i] = step[i][after[i - 1]]
  <2> TAKE i \in 1..n
  <2>1. i \in 0..n /\ i # 0
    BY <1>7
  <2>2. after[i] = Step(i, after[i - 1])
    BY <1>9, <2>1
  <2> QED BY <1>5, <2>2
<1>12. Recursive(n, T, old, step, after)
  BY ONLY <1>7, <1>4, <1>10, <1>11, Chosen
<1> QED BY <1>6, <1>12 DEF m, n, T, step, old

LEMMA DecodedTyped ==
  ASSUME NEW o \in Files
  PROVE  GoDecode(o) \in Structs \union {Reject}
<1> DEFINE n == Len(o.members)
           T == Structs \union {Reject}
<1>1. n \in Nat
  BY DEF Files, Members
<1>2. PICK f : f \in [0..n -> T] /\ GoDecode(o) = f[n]
  BY Decoded DEF Recursive
<1> HIDE DEF n, T
<1>3. GoDecode(o) \in T
  BY <1>1, <1>2
<1> QED BY <1>3 DEF T

(* A license is read off the file that was signed, or not at all: neither  *)
(* an edited value nor a moved border between two fields, a duplicate      *)
(* member or a key in capitals gives another license with the signed text. *)
(* Of a file that either accepts it takes every field, but for the         *)
(* signature, as the issuer put it there.                                  *)
THEOREM SignatureAlwaysCovers == Spec => []SignatureCoversContent
<1>1. Typed /\ Signed /\ Genuinely => SignatureCoversContent
  <2> SUFFICES ASSUME Typed, Signed, Genuinely, issued # Null PROVE SignatureCoversContent
    BY DEF SignatureCoversContent
  <2>1. file \in Files /\ signed = GoText(issued)
    BY DEF Typed, Signed
  <2>2. PICK name \in Names, permanent \in BOOLEAN : issued = Issuable(name, permanent)
    BY DEF Genuinely
  <2>3. issued \in Structs
    BY <2>2, IssuableIs
  <2>4. ASSUME GoAccepts(file)
        PROVE  \A k \in Fields \ {signature} : Get(GoDecode(file), k) = Get(issued, k)
    <3> DEFINE lic == GoDecode(file)
    <3>1. lic \in Structs /\ GoText(lic) = GoText(issued)
      BY <2>1, <2>4, DecodedTyped DEF GoAccepts
    <3> HIDE DEF lic
    <3>2. \A k \in Fields \ {signature} : Get(lic, k) = Get(issued, k)
      BY <2>3, <3>1, GoCovers
    <3> QED BY <3>2 DEF lic
  <2>5. ASSUME NodeAccepts(file)
        PROVE  /\ \A k \in Fields \ {encryptedPayload, signature} :
                    Get(Parse(file), k) = Get(issued, k)
               /\ Get(Get(Parse(file), encryptedPayload), ciphertext) =
                    Get(Get(issued, encryptedPayload), ciphertext)
    BY <2>1, <2>3, <2>5, NodeCovers
  <2> QED BY <2>4, <2>5 DEF SignatureCoversContent
<1> QED BY <1>1, AlwaysTyped, AlwaysSigned, AlwaysGenuine, PTL

-----------------------------------------------------------------------------
(* What Go makes of a file with the text that was signed.                  *)
TakeMember(s, p) == Assign(DecodeMember, s, p)
Takes(s, p, r) ==
  \E x \in 1..7 :
    /\ Lower(p[1]) = fields[x]
    /\ r.members[x][2] = DecodeMember(Kind(fields[x]), s.members[x][2], p[2])
    /\ \A j \in 1..7 \ {x} : r.members[j][2] = s.members[j][2]

LEMMA OneMember ==
  ASSUME NEW s \in Structs, NEW p \in Text \X Flat, NEW r, r = TakeMember(s, p),
         r # Reject
  PROVE  Takes(s, p, r)
<1>1. PICK x \in 1..7 : Lower(p[1]) = fields[x]
  BY NoneAssigned DEF TakeMember
<1> DEFINE new == DecodeMember(Kind(fields[x]), s.members[x][2], p[2])
<1>2. r = IF new = Reject THEN Reject ELSE [s EXCEPT !.members[x][2] = new]
  BY <1>1, FieldAssigned, ZenonT(30) DEF TakeMember
<1>3. new \in Slot(x) \union {Reject}
  <2>1. p[2] \in Flat
    OBVIOUS
  <2> QED BY <2>1, StructSlots, FieldDecoded
<1> HIDE DEF new
<1>4. new # Reject /\ r = [s EXCEPT !.members[x][2] = new] /\ new \in Slot(x)
  BY <1>2, <1>3
<1>5. r \in Structs /\ r.members[x][2] = new /\ \A j \in 1..7 \ {x} : r.members[j][2] = s.members[j][2]
  BY <1>4, FieldSet
<1> QED BY <1>1, <1>5 DEF new, Takes

(* A decoder that does not refuse the file refused none of its members.    *)
LEMMA NeverRejected ==
  ASSUME NEW n \in Nat, NEW f, f[n] # Reject,
         \A l \in 1..n : f[l - 1] = Reject => f[l] = Reject
  PROVE  \A l \in 0..n : f[l] # Reject
<1> SUFFICES ASSUME NEW l \in 0..n, f[l] = Reject PROVE FALSE
  OBVIOUS
<1> DEFINE P == {i \in l..n : f[i] = Reject}
<1>1. l \in P /\ l \in Nat
  OBVIOUS
<1>2. ASSUME NEW i \in (l + 1)..n, i - 1 \in P PROVE i \in P
  <2>1. i \in 1..n /\ i \in l..n
    BY <1>1
  <2> QED BY <1>2, <2>1
<1>3. \A i \in l..n : i \in P
  <2> HIDE DEF P
  <2> QED BY <1>1, <1>2, Upward
<1> QED BY <1>3

LEMMA StructTrace ==
  ASSUME NEW m \in Members(Flat), NEW f,
         Recursive(Len(m), Structs \union {Reject}, ZeroLicense, StructSteps(m), f)
  PROVE  /\ \A l \in 0..Len(m) : f[l] \in Structs \union {Reject}
         /\ \A l \in 1..Len(m) :
              f[l] = IF f[l - 1] = Reject THEN Reject ELSE Assign(DecodeMember, f[l - 1], m[l])
         /\ f[0] = ZeroLicense
<1> DEFINE n == Len(m)
           T == Structs \union {Reject}
           step == StructSteps(m)
           Step(i, x) == IF x = Reject THEN Reject ELSE Assign(DecodeMember, x, m[i])
<1>1. \A i \in 1..n, x \in T : step[i][x] = Step(i, x)
  BY DEF StructSteps
<1>2. n \in Nat
  BY DEF Members
<1>3. f \in [0..n -> T] /\ f[0] = ZeroLicense /\ \A i \in 1..n : f[i] = step[i][f[i - 1]]
  BY DEF Recursive
<1> HIDE DEF n, T, step, Step
<1>4. \A l \in 0..n : f[l] \in T
  BY <1>3
<1>5. ASSUME NEW l \in 1..n PROVE f[l] = Step(l, f[l - 1])
  <2>1. l - 1 \in 0..n
    BY <1>2
  <2> QED BY <1>1, <1>3, <1>4, <2>1
<1> QED BY <1>3, <1>4, <1>5 DEF Step, n, T

LEMMA FieldLast ==
  ASSUME NEW m \in Members(Flat), NEW f,
         Recursive(Len(m), Structs \union {Reject}, ZeroLicense, StructSteps(m), f),
         f[Len(m)] # Reject,
         NEW i \in 1..7, NEW j \in 1..Len(m), Lower(m[j][1]) = fields[i],
         \A l \in 1..Len(m) : Lower(m[l][1]) = fields[i] => l <= j
  PROVE  \E old \in Slot(i) :
           f[Len(m)].members[i][2] = DecodeMember(Kind(fields[i]), old, m[j][2])
<1> DEFINE n == Len(m)
<1>1. n \in Nat
  BY DEF Members
<1>2. /\ \A l \in 0..n : f[l] \in Structs \union {Reject}
      /\ \A l \in 1..n :
           f[l] = IF f[l - 1] = Reject THEN Reject ELSE Assign(DecodeMember, f[l - 1], m[l])
  BY StructTrace
<1>3. \A l \in 1..n : m[l] \in Text \X Flat
  BY ElementOfSeq DEF Members
<1> HIDE DEF n
<1>4. \A l \in 0..n : f[l] # Reject
  <2>1. f[n] # Reject
    BY DEF n
  <2>2. \A l \in 1..n : f[l - 1] = Reject => f[l] = Reject
    BY <1>2
  <2> QED BY <1>1, <2>1, <2>2, NeverRejected
<1>5. \A l \in 0..n : f[l] \in Structs
  BY <1>2, <1>4
<1>6. ASSUME NEW l \in 1..n
      PROVE  \E x \in 1..7 :
               /\ Lower(m[l][1]) = fields[x]
               /\ f[l].members[x][2] = DecodeMember(Kind(fields[x]), f[l - 1].members[x][2], m[l][2])
               /\ \A y \in 1..7 \ {x} : f[l].members[y][2] = f[l - 1].members[y][2]
  <2>1. l - 1 \in 0..n /\ l \in 0..n
    BY <1>1
  <2>2. f[l - 1] \in Structs /\ f[l] = Assign(DecodeMember, f[l - 1], m[l]) /\ f[l] # Reject
    BY <1>2, <1>4, <1>5, <2>1
  <2> DEFINE s == f[l - 1]
             r == f[l]
             p == m[l]
  <2>3. s \in Structs /\ r = TakeMember(s, p) /\ r # Reject /\ p \in Text \X Flat
    BY <1>3, <2>2 DEF TakeMember
  <2> HIDE DEF s, r, p
  <2>4. Takes(s, p, r)
    BY <2>3, OneMember
  <2> QED BY <2>4 DEF s, r, p, Takes
<1>7. j \in 1..n
  BY DEF n
<1> DEFINE new == f[j].members[i][2]
           P == {l \in j..n : f[l].members[i][2] = new}
<1>8. j \in P
  BY <1>1, <1>7
<1>9. ASSUME NEW l \in (j + 1)..n, l - 1 \in P PROVE l \in P
  <2>1. l \in 1..n /\ l \in j..n /\ j < l
    BY <1>1, <1>7
  <2>2. PICK x \in 1..7 :
          /\ Lower(m[l][1]) = fields[x]
          /\ \A y \in 1..7 \ {x} : f[l].members[y][2] = f[l - 1].members[y][2]
    BY <1>6, <2>1
  <2>3. x # i
    <3>1. Lower(m[l][1]) # fields[i]
      BY <1>1, <1>7, <2>1 DEF n
    <3> QED BY <2>2, <3>1
  <2>4. f[l].members[i][2] = f[l - 1].members[i][2]
    BY <2>2, <2>3
  <2> HIDE DEF new
  <2> QED BY <1>9, <2>1, <2>4
<1>10. n \in P
  <2>1. n \in j..n /\ j \in Nat
    BY <1>1, <1>7
  <2> HIDE DEF P
  <2> QED BY <1>1, <1>8, <1>9, <2>1, Upward
<1>11. f[n].members[i][2] = new
  BY <1>10
<1>12. PICK x \in 1..7 :
         /\ Lower(m[j][1]) = fields[x]
         /\ f[j].members[x][2] = DecodeMember(Kind(fields[x]), f[j - 1].members[x][2], m[j][2])
  BY <1>6, <1>7
<1>13. x = i
  BY <1>12, FieldsApart
<1>14. f[j - 1].members[i][2] \in Slot(i)
  <2>1. j - 1 \in 0..n
    BY <1>1, <1>7
  <2> QED BY <1>5, <2>1, StructSlots
<1>15. new = DecodeMember(Kind(fields[i]), f[j - 1].members[i][2], m[j][2])
  BY <1>12, <1>13
<1> HIDE DEF new
<1> QED BY <1>11, <1>14, <1>15 DEF n

PayloadTrace(old, m, f) ==
  /\ \A l \in 0..Len(m) : f[l] \in Payloads \union {Reject}
  /\ \A l \in 1..Len(m) :
       f[l] = IF f[l - 1] = Reject THEN Reject ELSE Assign(DecodeScalar, f[l - 1], m[l])
  /\ f[0] = old

LEMMA PayloadTraced ==
  ASSUME NEW old \in Payloads, NEW m \in Members(Flat), NEW f,
         Recursive(Len(m), Payloads \union {Reject}, old, PayloadSteps(m), f)
  PROVE  PayloadTrace(old, m, f)
<1> DEFINE n == Len(m)
           T == Payloads \union {Reject}
           step == PayloadSteps(m)
           Step(i, x) == IF x = Reject THEN Reject ELSE Assign(DecodeScalar, x, m[i])
<1>1. \A i \in 1..n, x \in T : step[i][x] = Step(i, x)
  BY DEF PayloadSteps
<1>2. n \in Nat
  BY DEF Members
<1>3. f \in [0..n -> T] /\ f[0] = old /\ \A i \in 1..n : f[i] = step[i][f[i - 1]]
  BY DEF Recursive
<1> HIDE DEF n, T, step, Step
<1>4. \A l \in 0..n : f[l] \in T
  BY <1>3
<1>5. ASSUME NEW l \in 1..n PROVE f[l] = Step(l, f[l - 1])
  <2>1. l - 1 \in 0..n
    BY <1>2
  <2> QED BY <1>1, <1>3, <1>4, <2>1
<1> QED BY <1>3, <1>4, <1>5 DEF Step, n, T, PayloadTrace

(* A payload says what its last ciphertext says.                           *)
LEMMA PayloadSays ==
  ASSUME NEW old \in Payloads, NEW w \in Flat, w.t = "obj",
         KeysIn(w.members) = {ciphertext}, NEW x \in Scalars, x.t = "str",
         LastOf(w.members, ciphertext) = x, DecodeMember("obj", old, w) # Reject
  PROVE  DecodeMember("obj", old, w) = Payload(x)
<1> DEFINE m == w.members
           n == Len(m)
<1>1. m \in Members(Flat)
  BY PayloadDecoded
<1>2. n \in Nat
  BY <1>1 DEF Members
<1>3. PICK f : /\ Recursive(n, Payloads \union {Reject}, old, PayloadSteps(m), f)
               /\ DecodeMember("obj", old, w) = f[n]
  BY PayloadDecoded
<1> DEFINE new == DecodeMember("obj", old, w)
<1> HIDE DEF m, new
<1>4. /\ \A l \in 0..n : f[l] \in Payloads \union {Reject}
      /\ \A l \in 1..n :
           f[l] = IF f[l - 1] = Reject THEN Reject ELSE Assign(DecodeScalar, f[l - 1], m[l])
  <2>1. PayloadTrace(old, m, f)
    BY <1>1, <1>3, PayloadTraced
  <2> QED BY <2>1 DEF PayloadTrace
<1>5. n \in 1..n /\ n - 1 \in 0..n /\ m[n][1] = ciphertext /\ m[n][2] = x
  <2>1. ciphertext \in KeysIn(m) /\ KeysIn(m) = {ciphertext}
    BY DEF m
  <2>2. PICK i \in 1..n :
          /\ LastOf(m, ciphertext) = m[i][2]
          /\ \A j \in 1..n : m[j][1] = ciphertext => j <= i
    BY <1>1, <2>1, LastOfIs
  <2>3. n \in 1..n /\ n - 1 \in 0..n
    BY <1>2, <2>2
  <2>4. m[n][1] \in KeysIn(m)
    <3>1. n \in DOMAIN m
      BY <1>1, <2>3 DEF Members
    <3> QED BY <3>1 DEF KeysIn
  <2>5. i = n
    BY <1>2, <2>1, <2>2, <2>3, <2>4
  <2> QED BY <2>1, <2>2, <2>3, <2>4, <2>5 DEF m
<1> DEFINE p == m[n]
           r == f[n - 1]
<1>6. p \in Text \X Flat
  BY <1>1, <1>5, ElementOfSeq DEF Members
<1>7. new = f[n] /\ new # Reject
  BY <1>3 DEF new
<1>8. r \in Payloads /\ f[n] = Assign(DecodeScalar, r, p)
  BY <1>4, <1>5, <1>7
<1>9. p[1] = ciphertext /\ p[2] = x
  BY <1>5
<1> HIDE DEF p, r, n
<1>10. PICK y \in Scalars : r = Payload(y)
  BY <1>8 DEF Payloads
<1>11. DecodeScalar("str", y, x) = x
  BY ScalarDecoded, SomeFlat DEF Plain
<1>12. new = Payload(x)
  <2>1. Assign(DecodeScalar, Payload(y), p) =
           IF Lower(p[1]) # ciphertext \/ DecodeScalar("str", y, p[2]) = Reject THEN Reject
           ELSE Payload(DecodeScalar("str", y, p[2]))
    BY <1>6, CiphertextAssigned
  <2> QED BY <1>7, <1>8, <1>9, <1>10, <1>11, <2>1
<1> QED BY <1>12 DEF new

LEMMA PayloadTaken ==
  ASSUME NEW old \in Payloads, NEW x \in Scalars, x.t = "str"
  PROVE  DecodeMember("obj", old, Payload(x)) # Reject
<1> DEFINE w == Payload(x)
           m == w.members
           n == Len(m)
           T == Payloads \union {Reject}
<1>1. w \in Flat /\ w.t = "obj" /\ n = 1 /\ m[1] = <<ciphertext, x>>
  BY PayloadIs DEF Obj
<1>2. m \in Members(Flat)
  BY <1>1, PayloadDecoded
<1>3. PICK f : /\ Recursive(n, T, old, PayloadSteps(m), f)
               /\ DecodeMember("obj", old, w) = f[n]
  BY <1>1, PayloadDecoded
<1> DEFINE new == DecodeMember("obj", old, w)
<1>4. /\ \A l \in 1..n :
           f[l] = IF f[l - 1] = Reject THEN Reject ELSE Assign(DecodeScalar, f[l - 1], m[l])
      /\ f[0] = old
  <2>1. PayloadTrace(old, m, f)
    BY <1>2, <1>3, PayloadTraced
  <2> QED BY <2>1 DEF PayloadTrace
<1> HIDE DEF new, m, w, n, T
<1>5. new = f[1]
  BY <1>1, <1>3 DEF new
<1>6. PICK y \in Scalars : old = Payload(y)
  BY DEF Payloads
<1>7. old # Reject
  BY <1>6, PayloadIs, Rejected
<1> DEFINE p == <<ciphertext, x>>
<1>8. p \in Text \X Flat /\ p[1] = ciphertext /\ p[2] = x
  BY Letters, SomeFlat
<1>9. 1 \in 1..n /\ 1 - 1 = 0
  BY <1>1
<1> HIDE DEF p
<1>10. f[1] = Assign(DecodeScalar, old, p)
  BY <1>1, <1>4, <1>7, <1>9 DEF p
<1>11. DecodeScalar("str", y, x) = x /\ x # Reject
  BY ScalarDecoded, SomeFlat, Rejected DEF Plain
<1>12. new = Payload(x)
  <2>1. Assign(DecodeScalar, Payload(y), p) =
           IF Lower(p[1]) # ciphertext \/ DecodeScalar("str", y, p[2]) = Reject THEN Reject
           ELSE Payload(DecodeScalar("str", y, p[2]))
    BY <1>8, CiphertextAssigned
  <2> QED BY <1>5, <1>6, <1>8, <1>10, <1>11, <2>1, Lowered
<1>13. Payload(x) # Reject
  BY PayloadIs, Rejected
<1> QED BY <1>12, <1>13 DEF new, w

LEMMA FieldRead ==
  ASSUME NEW o \in Files, KeysIn(o.members) = Fields, GoDecode(o) # Reject, NEW i \in 1..7
  PROVE  \E old \in Slot(i) :
           GoDecode(o).members[i][2] =
             DecodeMember(Kind(fields[i]), old, LastOf(o.members, fields[i]))
<1> DEFINE m == o.members
           lic == GoDecode(o)
<1>1. m \in Members(Flat) /\ KeysIn(m) = Fields /\ DOMAIN m = 1..Len(m)
  BY DEF Files, Members
<1>2. PICK f : /\ Recursive(Len(m), Structs \union {Reject}, ZeroLicense, StructSteps(m), f)
               /\ lic = f[Len(m)]
  BY Decoded
<1>3. lic # Reject
  OBVIOUS
<1> HIDE DEF m, lic
<1>4. fields[i] \in KeysIn(m)
  BY <1>1, FieldsAre
<1>5. PICK j \in 1..Len(m) :
         /\ m[j][1] = fields[i] /\ LastOf(m, fields[i]) = m[j][2]
         /\ \A l \in 1..Len(m) : m[l][1] = fields[i] => l <= j
  BY <1>1, <1>4, LastOfIs
<1>6. \A l \in 1..Len(m) : Lower(m[l][1]) = m[l][1]
  <2> TAKE l \in 1..Len(m)
  <2>1. m[l][1] \in Fields
    BY <1>1 DEF KeysIn
  <2> QED BY <2>1, FieldsAre, Lowered
<1>7. /\ Lower(m[j][1]) = fields[i]
      /\ \A l \in 1..Len(m) : Lower(m[l][1]) = fields[i] => l <= j
      /\ f[Len(m)] # Reject
  BY <1>2, <1>3, <1>5, <1>6
<1>8. \E old \in Slot(i) :
        f[Len(m)].members[i][2] = DecodeMember(Kind(fields[i]), old, m[j][2])
  BY <1>1, <1>2, <1>7, FieldLast, ZenonT(30)
<1> QED BY <1>2, <1>5, <1>8 DEF m, lic

(* A license whose fields are already as Go writes them.                   *)
Settled(s) ==
  /\ \A i \in 1..7 \ {6}, old \in Scalars :
       DecodeMember(Kind(fields[i]), old, s.members[i][2]) = s.members[i][2]
  /\ \E x \in Scalars : x.t = "str" /\ s.members[6][2] = Payload(x)

LEMMA GoReads ==
  ASSUME NEW o \in Files, NEW s \in Structs, Settled(s),
         KeysIn(o.members) = Fields, GoDecode(o) # Reject,
         \A i \in 1..7 \ {6} : LastOf(o.members, fields[i]) = s.members[i][2],
         NEW w \in Flat, w = LastOf(o.members, encryptedPayload), w.t = "obj",
         KeysIn(w.members) = {ciphertext},
         NEW x \in Scalars, LastOf(w.members, ciphertext) = x, s.members[6][2] = Payload(x)
  PROVE  GoDecode(o) = s
<1> DEFINE lic == GoDecode(o)
           m == o.members
           n == s.members
<1>1. lic \in Structs
  BY DecodedTyped
<1>2. /\ \A i \in 1..7 \ {6} : LastOf(m, fields[i]) = n[i][2]
      /\ LastOf(m, fields[6]) = w
  BY FieldsApart
<1>3. \A i \in 1..7 : \E old \in Slot(i) :
        lic.members[i][2] = DecodeMember(Kind(fields[i]), old, LastOf(m, fields[i]))
  BY FieldRead
<1>4. /\ \A i \in 1..7 \ {6}, old \in Scalars :
           DecodeMember(Kind(fields[i]), old, n[i][2]) = n[i][2]
      /\ \E y \in Scalars : y.t = "str" /\ n[6][2] = Payload(y)
  BY DEF Settled
<1>5. n[6][2] = Payload(x)
  OBVIOUS
<1> HIDE DEF lic, m, n
<1>6. ASSUME NEW i \in 1..7 \ {6} PROVE lic.members[i][2] = n[i][2]
  <2>1. PICK old \in Slot(i) :
          lic.members[i][2] = DecodeMember(Kind(fields[i]), old, LastOf(m, fields[i]))
    BY <1>3
  <2>2. old \in Scalars
    BY DEF Slot
  <2> QED BY <1>2, <1>4, <2>1, <2>2
<1>7. lic.members[6][2] = n[6][2]
  <2>1. PICK old \in Slot(6) : lic.members[6][2] = DecodeMember(Kind(fields[6]), old, w)
    BY <1>2, <1>3
  <2>2. PICK y \in Scalars : y.t = "str" /\ n[6][2] = Payload(y)
    BY <1>4
  <2>3. x = y
    <3>1. LastOf(Payload(x).members, ciphertext) = x
      BY PayloadIs
    <3>2. LastOf(Payload(y).members, ciphertext) = y
      BY PayloadIs
    <3> QED BY <1>5, <2>2, <3>1, <3>2
  <2>4. old \in Payloads /\ Kind(fields[6]) = "obj"
    BY KindsAre DEF Slot
  <2> DEFINE new == DecodeMember("obj", old, w)
  <2>5. new # Reject
    <3>1. lic.members[6][2] \in Slot(6)
      BY <1>1, StructSlots
    <3> QED BY <2>1, <2>4, <3>1, SlotsFlat
  <2>6. new = Payload(x)
    BY <2>2, <2>3, <2>4, <2>5, PayloadSays
  <2> QED BY <1>5, <2>1, <2>4, <2>6
<1>8. \A i \in 1..7 : lic.members[i][2] = n[i][2]
  BY <1>6, <1>7
<1>9. lic = s
  BY <1>1, <1>8, StructEqual DEF n
<1> QED BY <1>9 DEF lic

(* A version that Go takes is spelt as Go spells it.                       *)
LEMMA VersionSpelt ==
  ASSUME NEW o \in Files, KeysIn(o.members) = Fields, GoDecode(o) # Reject
  PROVE  LastOf(o.members, version).t # "real"
<1> DEFINE lic == GoDecode(o)
           v == LastOf(o.members, version)
<1>1. lic \in Structs
  BY DecodedTyped
<1>2. v \in Flat
  <2>1. version \in KeysIn(o.members) /\ o.members \in Members(Flat)
    BY FieldsAre, FieldsApart DEF Files
  <2> QED BY <2>1, LastOfTyped
<1>3. PICK old \in Slot(1) : lic.members[1][2] = DecodeMember(Kind(fields[1]), old, v)
  <2>1. fields[1] = version /\ 1 \in 1..7
    BY FieldsApart
  <2> QED BY <2>1, FieldRead
<1>4. old \in Scalars /\ Kind(fields[1]) = "num"
  BY KindsAre DEF Slot
<1>5. lic.members[1][2] # Reject
  BY <1>1, StructSlots, SlotsFlat
<1> HIDE DEF lic, v
<1>6. DecodeMember("num", old, v) = DecodeScalar("num", old, v)
  BY <1>2, <1>4, PlainDecoded DEF Plain
<1>7. v.t = "real" => DecodeScalar("num", old, v) = Reject
  BY DEF DecodeScalar, Null
<1> QED BY <1>3, <1>4, <1>5, <1>6, <1>7 DEF v

LEMMA RespeltSettled ==
  ASSUME NEW name \in Names, NEW permanent \in BOOLEAN, NEW g \in GoSpellings
  PROVE  Settled(Respelt(name, permanent, g))
<1> DEFINE s == Respelt(name, permanent, g)
           n == s.members
           b == IF permanent THEN ZeroTime ELSE Str(<<53>>)
           a == Str(<<97>>)
<1>1. /\ s \in Structs
      /\ n[1][2] = FormatVersion /\ n[2][2] = a /\ n[3][2] = b
      /\ n[4][2] = Bool(~permanent) /\ n[5][2] = Str(name)
      /\ n[6][2] = Payload(a) /\ n[7][2] = g
  BY RespeltIs
<1>2. FormatVersion.t = "num" /\ Bool(~permanent).t = "bool" /\ a.t = "str" /\ b.t = "str"
      /\ Str(name).t = "str" /\ g.t = "str"
  BY SpellingsAre DEF FormatVersion, Num, Bool, Str, ZeroTime
<1>3. TimeOf(b.s) = b
  <2>1. PICK d \in 48..57 : b = Str(<<d>>)
    BY DEF ZeroTime
  <2> HIDE DEF b
  <2>2. b.s = <<d>>
    BY <2>1 DEF Str
  <2>3. b.s \in Spellings(d) /\ b.s[1] = d
    BY <2>2 DEF Spellings
  <2>4. TimeOf(b.s) = Str(<<b.s[1]>>)
    BY <2>3 DEF TimeOf
  <2> QED BY <2>1, <2>3, <2>4
<1>4. \A i \in 1..7 \ {6} : n[i][2] \in Scalars /\ n[i][2] \in Flat
  BY <1>1, SomeFlat DEF Structs
<1> HIDE DEF s, n, a, b
<1>5. ASSUME NEW i \in 1..7 \ {6}, NEW old \in Scalars
      PROVE  DecodeMember(Kind(fields[i]), old, n[i][2]) = n[i][2]
  <2>1. Kind(fields[i]) \in Plain
    BY KindsAre DEF Plain
  <2>2. DecodeMember(Kind(fields[i]), old, n[i][2]) = DecodeScalar(Kind(fields[i]), old, n[i][2])
    BY <1>4, <2>1, PlainDecoded
  <2>3. CASE i = 3
    <3>1. Kind(fields[3]) = "time" /\ n[3][2] = b /\ b.t = "str"
      BY <1>1, <1>2, KindsAre
    <3>2. DecodeScalar("time", old, b) = TimeOf(b.s)
      BY <1>4, <2>3, <3>1, ScalarDecoded DEF Plain
    <3> QED BY <1>3, <2>2, <2>3, <3>1, <3>2
  <2>4. CASE i # 3
    <3>1. i \in {1, 2, 4, 5, 7}
      BY <2>4
    <3>2. n[i][2].t = Kind(fields[i])
      BY <1>1, <1>2, <3>1, KindsAre
    <3> QED BY <1>4, <2>1, <2>2, <3>2, ScalarDecoded
  <2> QED BY <2>3, <2>4
<1>6. a \in Scalars
  BY <1>1, <1>4
<1>7. \E x \in Scalars : x.t = "str" /\ n[6][2] = Payload(x)
  BY <1>1, <1>2, <1>6
<1> QED BY <1>5, <1>7 DEF Settled, n, s

(* What the checks of the two verifiers see in an issued license.          *)
LEMMA RespeltRead ==
  ASSUME NEW name \in Names, NEW permanent \in BOOLEAN, NEW g \in GoSpellings
  PROVE  LET s == Respelt(name, permanent, g)
         IN  /\ Get(s, version) = FormatVersion /\ Get(s, id) = Str(<<97>>)
             /\ Get(s, expires) = Bool(~permanent)
             /\ ~permanent => Get(s, notAfter) = Str(<<53>>)
             /\ Get(s, signature) = g
<1> DEFINE s == Respelt(name, permanent, g)
<1>1. /\ s \in Structs
      /\ s.members[1][2] = FormatVersion /\ s.members[2][2] = Str(<<97>>)
      /\ s.members[3][2] = (IF permanent THEN ZeroTime ELSE Str(<<53>>))
      /\ s.members[4][2] = Bool(~permanent) /\ s.members[7][2] = g
  BY RespeltIs
<1> HIDE DEF s
<1>2. \A i \in 1..7 : Get(s, fields[i]) = s.members[i][2]
  BY <1>1, StructRead
<1> QED BY <1>1, <1>2, FieldsApart DEF s

(* The spelling of the signature is not in the text that is signed.        *)
LEMMA SameText ==
  ASSUME NEW s \in Structs, NEW u \in Structs, \A i \in 1..6 : s.members[i][2] = u.members[i][2]
  PROVE  GoText(s) = GoText(u)
<1> DEFINE m == Unsigned(s).members
           n == Unsigned(u).members
           K == KeysIn(m)
<1>1. /\ s \in Files /\ u \in Files
      /\ Unsigned(s) \in Files /\ Unsigned(u) \in Files
  BY UnsignedTyped DEF Structs
<1>2. /\ KeysIn(s.members) = Fields /\ KeysIn(u.members) = Fields
      /\ \A i \in 1..7 : LastOf(s.members, fields[i]) = s.members[i][2]
      /\ \A i \in 1..7 : LastOf(u.members, fields[i]) = u.members[i][2]
  BY StructRead
<1>3. /\ KeysIn(m) = Fields \union {signature} /\ LastOf(m, signature) = Str(<<>>)
      /\ \A k \in Fields \ {signature} : LastOf(m, k) = LastOf(s.members, k)
  BY <1>1, <1>2, UnsignedRead
<1>4. /\ KeysIn(n) = Fields \union {signature} /\ LastOf(n, signature) = Str(<<>>)
      /\ \A k \in Fields \ {signature} : LastOf(n, k) = LastOf(u.members, k)
  BY <1>1, <1>2, UnsignedRead
<1>5. /\ Unsigned(s).t = "obj" /\ Unsigned(u).t = "obj"
      /\ m \in Members(Flat) /\ n \in Members(Flat)
  BY <1>1 DEF Files
<1>6. GoText(s) = GoEncode(Unsigned(s)) /\ GoText(u) = GoEncode(Unsigned(u))
  BY DEF GoText
<1>7. GoEncode(Unsigned(s)) =
        <<123>> \o Joined([i \in DOMAIN SortByUtf16(K) |->
          GoString(SortByUtf16(K)[i]) \o <<58>> \o GoMember(LastOf(m, SortByUtf16(K)[i]))]) \o
            <<125>>
  BY <1>5 DEF GoEncode, GoValue
<1>8. GoEncode(Unsigned(u)) =
        <<123>> \o Joined([i \in DOMAIN SortByUtf16(KeysIn(n)) |->
          GoString(SortByUtf16(KeysIn(n))[i]) \o <<58>> \o
            GoMember(LastOf(n, SortByUtf16(KeysIn(n))[i]))]) \o <<125>>
  BY <1>5 DEF GoEncode, GoValue
<1>9. ASSUME NEW k \in K PROVE LastOf(m, k) = LastOf(n, k)
  <2>1. CASE k = signature
    BY <1>3, <1>4, <2>1
  <2>2. CASE k # signature
    <3>1. k \in Fields \ {signature}
      BY <1>3, <2>2
    <3>2. PICK i \in 1..7 : k = fields[i]
      BY <3>1, FieldsAre
    <3>3. i \in 1..6
      BY <2>2, <3>2, FieldsApart
    <3> QED BY <1>2, <1>3, <1>4, <3>1, <3>2, <3>3
  <2> QED BY <2>1, <2>2
<1>10. KeysIn(n) = K
  BY <1>3, <1>4
<1>11. \A i \in DOMAIN SortByUtf16(K) : SortByUtf16(K)[i] \in K
  BY <1>5, KeysInFinite, KeysAlike
<1> HIDE DEF m, n, K
<1>12. [i \in DOMAIN SortByUtf16(K) |->
          GoString(SortByUtf16(K)[i]) \o <<58>> \o GoMember(LastOf(m, SortByUtf16(K)[i]))] =
       [i \in DOMAIN SortByUtf16(K) |->
          GoString(SortByUtf16(K)[i]) \o <<58>> \o GoMember(LastOf(n, SortByUtf16(K)[i]))]
  BY <1>9, <1>11
<1> QED BY <1>6, <1>7, <1>8, <1>10, <1>12

LEMMA GoGoesOn ==
  ASSUME NEW o, NEW name \in Names, NEW permanent \in BOOLEAN, NEW g \in GoSpellings,
         GoDecode(o) = Respelt(name, permanent, g), signed = GoText(Issuable(name, permanent))
  PROVE  GoAccepts(o)
<1> DEFINE s == Respelt(name, permanent, g)
<1>1. /\ Get(s, version) = FormatVersion /\ Get(s, id) = Str(<<97>>)
      /\ Get(s, expires) = Bool(~permanent)
      /\ ~permanent => Get(s, notAfter) = Str(<<53>>)
      /\ Get(s, signature) = g
  BY RespeltRead
<1>2. s # Reject
  BY RespeltIs, Rejected
<1>3. /\ Str(<<97>>) # Str(<<>>) /\ Str(<<53>>) # ZeroTime
      /\ Bool(~permanent) = Bool(TRUE) => ~permanent
  <2>1. Str(<<97>>).s # Str(<<>>).s /\ Str(<<53>>).s # Str(<<48>>).s
    BY DEF Str
  <2>2. Bool(~permanent).b = ~permanent /\ Bool(TRUE).b = TRUE
    BY DEF Bool
  <2>3. Bool(~permanent) = Bool(TRUE) => ~permanent
    BY <2>2
  <2> QED BY <2>1, <2>3 DEF ZeroTime
<1>4. GoText(s) = signed
  <2> DEFINE u == Issuable(name, permanent)
  <2>1. s \in Structs /\ u \in Structs /\ \A i \in 1..6 : s.members[i][2] = u.members[i][2]
    BY RespeltIs, IssuableIs
  <2> HIDE DEF s, u
  <2>2. GoText(s) = GoText(u)
    BY <2>1, SameText
  <2> QED BY <2>2 DEF u
<1> HIDE DEF s
<1> QED BY <1>1, <1>2, <1>3, <1>4 DEF GoAccepts, s

(* What Go decodes a file to that Node accepts.                            *)
LEMMA NodeReads ==
  ASSUME NEW o \in Files, NEW name \in Names, NEW permanent \in BOOLEAN,
         signed = GoText(Issuable(name, permanent)), NodeAccepts(o),
         GoDecode(o) # Reject, NEW g \in GoSpellings, g = Get(Parse(o), signature)
  PROVE  GoDecode(o) = Respelt(name, permanent, g)
<1> DEFINE p == Parse(o)
           s == Issuable(name, permanent)
           u == Respelt(name, permanent, g)
           m == o.members
           q == p.members
           w == LastOf(m, encryptedPayload)
           z == LastOf(q, encryptedPayload)
           a == Str(<<97>>)
           n == s.members
           y == u.members
<1>1. /\ s \in Structs /\ n[1][2] = FormatVersion /\ n[2][2] = a
      /\ n[3][2] = (IF permanent THEN ZeroTime ELSE Str(<<53>>))
      /\ n[4][2] = Bool(~permanent) /\ n[5][2] = Str(name) /\ n[6][2] = Payload(a)
  BY IssuableIs
<1>2. /\ u \in Structs /\ Settled(u) /\ y[7][2] = g
      /\ \A i \in 1..6 : y[i][2] = n[i][2]
  BY <1>1, RespeltIs, RespeltSettled
<1>3. /\ p \in Files /\ GoEncode(Unsigned(p)) = GoEncode(Unsigned(s))
      /\ KeysIn(q) = Fields /\ LastOf(q, signature) = g
  BY <1>1, NodeCovers
<1>4. /\ KeysIn(m) = Fields
      /\ \A k \in Fields : LastOf(m, k) \in Flat /\ LastOf(q, k) = ReadMember(LastOf(m, k))
  BY <1>3, ParseIs
<1>5. LastOf(m, version).t # "real"
  BY <1>4, VersionSpelt
<1>6. g \in Scalars /\ g.t = "str"
  BY SpellingsAre
<1>7. FormatVersion = Num(4) /\ a.t = "str" /\ n[3][2].t = "str" /\ n[4][2].t = "bool"
      /\ n[5][2].t = "str" /\ Num(4).t = "num"
  BY <1>1 DEF FormatVersion, Str, ZeroTime, Bool, Num
<1>8. \A i \in 1..7 \ {6} : n[i][2] \in Scalars
  BY <1>1 DEF Structs
<1> HIDE DEF p, s, u
<1>9. /\ \A i \in 1..5 : LastOf(q, fields[i]) = n[i][2]
      /\ z \in Flat /\ z.t = "obj" /\ z.members \in Members(Scalars)
      /\ KeysIn(z.members) = {ciphertext}
      /\ n[6][2] = Payload(LastOf(z.members, ciphertext))
  BY <1>1, <1>3, SameContent
<1>10. /\ \A i \in 1..7 : fields[i] \in Fields
       /\ fields[1] = version /\ fields[6] = encryptedPayload /\ fields[7] = signature
  BY FieldsAre, FieldsApart
<1> HIDE DEF m, q, n, y, a
<1>11. ASSUME NEW i \in 2..5 PROVE LastOf(m, fields[i]) = y[i][2]
  <2> DEFINE v == LastOf(m, fields[i])
  <2>1. i \in 1..5 /\ i \in 1..6 /\ i \in 1..7 /\ i \in 1..7 \ {6}
    OBVIOUS
  <2>2. v \in Flat /\ ReadMember(v) = n[i][2]
    BY <1>4, <1>9, <1>10, <2>1
  <2>3. n[i][2] \in Scalars /\ n[i][2].t # "num"
    BY <1>1, <1>7, <1>8, <2>1
  <2> HIDE DEF v
  <2>4. v = n[i][2]
    BY <2>2, <2>3, WordRead
  <2> QED BY <1>2, <2>1, <2>4 DEF v
<1>12. LastOf(m, fields[7]) = y[7][2]
  <2> DEFINE v == LastOf(m, signature)
  <2>1. v \in Flat /\ ReadMember(v) = g
    BY <1>3, <1>4, <1>10
  <2> HIDE DEF v
  <2>2. v = g
    BY <1>6, <2>1, WordRead
  <2> QED BY <1>2, <1>10, <2>2 DEF v
<1>13. LastOf(m, fields[1]) = y[1][2]
  <2> DEFINE v == LastOf(m, version)
  <2>1. v \in Flat /\ ReadMember(v) = Num(4) /\ v.t # "real"
    <3>1. LastOf(q, fields[1]) = n[1][2]
      BY <1>9
    <3> QED BY <1>1, <1>4, <1>5, <1>7, <1>10, <3>1
  <2> HIDE DEF v
  <2>2. v \in Scalars
    BY <1>7, <2>1, ValueRead
  <2>3. v = Num(4)
    BY <2>1, <2>2, JsNumberIs
  <2> QED BY <1>1, <1>2, <1>7, <1>10, <2>3 DEF v
<1>14. w \in Flat /\ z = ReadMember(w)
  BY <1>4, <1>10
<1> HIDE DEF w, z
<1>15. w.t = "obj"
  <2>1. w \notin Scalars
    BY <1>9, <1>14, ValueRead, ScalarAlike
  <2> QED BY <1>9, <1>14, <2>1, ValueRead
<1>16. /\ w.members \in Members(Scalars) /\ KeysIn(w.members) = {ciphertext}
       /\ LastOf(z.members, ciphertext) = JsNumber(LastOf(w.members, ciphertext))
  BY <1>9, <1>14, <1>15, ValueRead
<1> DEFINE x == LastOf(w.members, ciphertext)
<1>17. x = a
  <2>1. x \in Scalars /\ LastOf(z.members, ciphertext) \in Scalars
    BY <1>9, <1>16, LastOfTyped
  <2>2. a \in Scalars /\ a.t = "str"
    BY <1>1, <1>7, <1>8
  <2> DEFINE v == LastOf(z.members, ciphertext)
  <2>3. v \in Scalars /\ v = JsNumber(x) /\ Payload(v) = Payload(a)
    BY <1>1, <1>9, <1>16, <2>1
  <2> HIDE DEF v, x
  <2>4. v = a
    <3>1. LastOf(Payload(v).members, ciphertext) = v
      BY <2>3, PayloadIs
    <3>2. LastOf(Payload(a).members, ciphertext) = a
      BY <2>2, PayloadIs
    <3> QED BY <2>3, <3>1, <3>2
  <2> QED BY <2>1, <2>2, <2>3, <2>4, JsNumberIs
<1>18. y[6][2] = Payload(a) /\ a \in Scalars
  BY <1>1, <1>2, <1>8
<1>19. \A i \in 1..7 \ {6} : LastOf(m, fields[i]) = y[i][2]
  <2> TAKE i \in 1..7 \ {6}
  <2>1. i = 1 \/ i \in 2..5 \/ i = 7
    OBVIOUS
  <2> QED BY <1>11, <1>12, <1>13, <2>1
<1> HIDE DEF x
<1>20. GoDecode(o) = u
  BY <1>2, <1>4, <1>14, <1>15, <1>16, <1>17, <1>18, <1>19, GoReads DEF m, y, w, x
<1> QED BY <1>20 DEF u

(* The Node twin is looser in nothing but numbers, overridden members and  *)
(* the spelling of the signature: a file it accepts has the keys and the   *)
(* values of the license that was signed, so Go either refuses a member it *)
(* reads on the way, or decodes that very license and accepts it if it     *)
(* takes the spelling.                                                     *)
THEOREM NodeNeverLooser == Spec => []NodeIsNoLooser
<1>1. Typed /\ Signed /\ Genuinely => NodeIsNoLooser
  <2> SUFFICES ASSUME Typed, Signed, Genuinely, issued # Null, NodeAccepts(file),
                      GoDecode(file) # Reject, Get(Parse(file), signature) \in GoSpellings
               PROVE  GoAccepts(file)
    BY DEF NodeIsNoLooser
  <2>1. file \in Files /\ signed = GoText(issued)
    BY DEF Typed, Signed
  <2>2. PICK name \in Names, permanent \in BOOLEAN : issued = Issuable(name, permanent)
    BY DEF Genuinely
  <2> DEFINE g == Get(Parse(file), signature)
  <2>3. g \in GoSpellings
    OBVIOUS
  <2>4. GoDecode(file) = Respelt(name, permanent, g)
    BY <2>1, <2>2, <2>3, NodeReads
  <2> HIDE DEF g
  <2> QED BY <2>1, <2>2, <2>3, <2>4, GoGoesOn
<1> QED BY <1>1, AlwaysTyped, AlwaysSigned, AlwaysGenuine, PTL

(* Go takes back every member it wrote.                                    *)
LEMMA FieldTaken ==
  ASSUME NEW s \in Structs, NEW p \in Text \X Flat, NEW i \in 1..7, Lower(p[1]) = fields[i],
         DecodeMember(Kind(fields[i]), s.members[i][2], p[2]) # Reject
  PROVE  TakeMember(s, p) \in Structs
<1> DEFINE new == DecodeMember(Kind(fields[i]), s.members[i][2], p[2])
<1>1. TakeMember(s, p) = IF new = Reject THEN Reject ELSE [s EXCEPT !.members[i][2] = new]
  BY FieldAssigned, ZenonT(30) DEF TakeMember
<1>2. new \in Slot(i) \union {Reject}
  <2>1. p[2] \in Flat
    OBVIOUS
  <2> QED BY <2>1, StructSlots, FieldDecoded
<1>3. new # Reject
  OBVIOUS
<1> HIDE DEF new
<1> QED BY <1>1, <1>2, <1>3, FieldSet

LEMMA StructTaken ==
  ASSUME NEW s \in Structs, Settled(s)
  PROVE  GoDecode(s) # Reject
<1> DEFINE m == s.members
           n == Len(m)
           lic == GoDecode(s)
<1>1. s \in Files /\ m \in Members(Flat) /\ n = 7
  BY DEF Structs, Files
<1>2. PICK f : /\ Recursive(n, Structs \union {Reject}, ZeroLicense, StructSteps(m), f)
               /\ lic = f[n]
  BY <1>1, Decoded
<1>3. /\ \A l \in 1..n :
           f[l] = IF f[l - 1] = Reject THEN Reject ELSE Assign(DecodeMember, f[l - 1], m[l])
      /\ f[0] = ZeroLicense
  BY <1>1, <1>2, StructTrace
<1>4. /\ \A i \in 1..7 \ {6}, old \in Scalars :
           DecodeMember(Kind(fields[i]), old, m[i][2]) = m[i][2]
      /\ \E x \in Scalars : x.t = "str" /\ m[6][2] = Payload(x)
  BY DEF Settled
<1>5. \A i \in 1..7 : m[i] = <<fields[i], m[i][2]>> /\ m[i][2] \in Slot(i)
  BY StructSlots
<1> HIDE DEF m, n, lic
<1> DEFINE P == {l \in 0..7 : f[l] \in Structs}
<1>6. 0 \in P
  BY <1>3, ZeroIs
<1>7. ASSUME NEW l \in (0 + 1)..7, l - 1 \in P PROVE l \in P
  <2> DEFINE r == f[l - 1]
             p == m[l]
             new == DecodeMember(Kind(fields[l]), r.members[l][2], p[2])
  <2>1. r \in Structs /\ l \in 1..7
    BY <1>7
  <2>2. f[l] = Assign(DecodeMember, r, p)
    BY <1>1, <1>3, <2>1, Rejected
  <2>3. p \in Text \X Flat /\ p[1] = fields[l] /\ p[2] = m[l][2]
    <3> DEFINE x == m[l][2]
    <3>1. m[l] = <<fields[l], x>> /\ x \in Flat /\ fields[l] \in Text
      BY <1>5, <2>1, FieldsApart, SlotsFlat
    <3> HIDE DEF x
    <3>2. p = <<fields[l], x>>
      BY <3>1
    <3> HIDE DEF p
    <3>3. p \in Text \X Flat /\ p[1] = fields[l] /\ p[2] = x
      BY <3>1, <3>2
    <3> QED BY <3>3 DEF x
  <2>4. r.members[l][2] \in Slot(l)
    BY <2>1, StructSlots
  <2>6. new # Reject
    <3>1. CASE l = 6
      <4>1. r.members[l][2] \in Payloads /\ Kind(fields[l]) = "obj"
        BY <2>4, <3>1, KindsAre DEF Slot
      <4>2. PICK x \in Scalars : x.t = "str" /\ m[6][2] = Payload(x)
        BY <1>4
      <4> QED BY <2>3, <3>1, <4>1, <4>2, PayloadTaken
    <3>2. CASE l # 6
      <4>1. r.members[l][2] \in Scalars
        BY <2>4, <3>2 DEF Slot
      <4>2. new = m[l][2] /\ m[l][2] \in Slot(l)
        BY <1>4, <1>5, <2>1, <2>3, <3>2, <4>1
      <4> QED BY <2>1, <4>2, SlotsFlat
    <3> QED BY <3>1, <3>2
  <2>7. Lower(p[1]) = fields[l]
    BY <2>1, <2>3, Lowered
  <2>8. f[l] = TakeMember(r, p)
    BY <2>2 DEF TakeMember
  <2> HIDE DEF r, p
  <2>9. TakeMember(r, p) \in Structs
    BY <2>1, <2>3, <2>6, <2>7, FieldTaken
  <2> QED BY <2>1, <2>8, <2>9
<1>8. 7 \in P
  <2> HIDE DEF P
  <2>1. \A l \in 0..7 : l \in P
    BY <1>6, <1>7, Upward
  <2> QED BY <2>1
<1>9. lic \in Structs
  BY <1>1, <1>2, <1>8
<1> QED BY <1>9, Rejected DEF lic

(* JSON.parse makes of an issued license what it is.                       *)
LEMMA IssuableParsed ==
  ASSUME NEW name \in Names, NEW permanent \in BOOLEAN
  PROVE  Parse(Issuable(name, permanent)) = Issuable(name, permanent)
<1> DEFINE o == Issuable(name, permanent)
           m == o.members
           n == Parse(o).members
           a == Str(<<97>>)
<1>1. /\ o \in Structs
      /\ m[1][2] = FormatVersion /\ m[2][2] = a
      /\ m[3][2] = (IF permanent THEN ZeroTime ELSE Str(<<53>>))
      /\ m[4][2] = Bool(~permanent) /\ m[5][2] = Str(name)
      /\ m[6][2] = Payload(a) /\ m[7][2] = Genuine
  BY IssuableIs
<1>2. o \in Files /\ o = Obj(m) /\ DOMAIN m = 1..7 /\ m = [i \in 1..7 |-> m[i]]
  <2>1. o \in Files /\ Len(m) = 7
    BY <1>1 DEF Structs
  <2> HIDE DEF o
  <2>2. o = Obj(m)
    BY <2>1 DEF Files, Obj
  <2>3. m \in Seq(Text \X Flat)
    BY <2>1 DEF Files, Members
  <2> HIDE DEF m
  <2>4. DOMAIN m = 1..7
    BY <2>1, <2>3
  <2>5. m = [i \in DOMAIN m |-> m[i]]
    <3> DEFINE T == Text \X Flat
    <3>1. m \in Seq(T)
      BY <2>3
    <3> HIDE DEF T
    <3> QED BY <3>1
  <2> QED BY <2>1, <2>2, <2>4, <2>5, Zenon
<1>3. Parse(o) = Obj(n) /\ n = [i \in DOMAIN m |-> <<m[i][1], ReadMember(m[i][2])>>]
  BY <1>2, ParseIs, Zenon
<1>4. \A i \in 1..7 : m[i] = <<fields[i], m[i][2]>>
  <2> HIDE DEF o
  <2> QED BY <1>1, StructSlots, Zenon
<1>5. \A i \in 1..7 \ {6} : m[i][2] \in Scalars
  BY <1>1 DEF Structs
<1>6. FormatVersion = Num(4) /\ m[2][2].t = "str" /\ m[3][2].t = "str"
      /\ m[4][2].t = "bool" /\ m[5][2].t = "str" /\ m[7][2].t = "str"
  BY <1>1 DEF FormatVersion, Str, ZeroTime, Bool, Genuine
<1> HIDE DEF o, m, n
<1>7. ASSUME NEW i \in 1..7 PROVE ReadMember(m[i][2]) = m[i][2]
  <2>1. CASE i = 1
    <3>1. JsNumber(Num(4)) = Num(4)
      BY DEF JsNumber, Num
    <3>2. Num(4) \in Scalars
      BY SomeFlat
    <3> QED BY <1>1, <1>6, <2>1, <3>1, <3>2, JsNumberIs
  <2>2. CASE i \in {2, 3, 4, 5, 7}
    <3> DEFINE v == m[i][2]
    <3>1. v \in Scalars /\ v.t \notin {"num", "real"}
      BY <1>5, <1>6, <2>2
    <3> HIDE DEF v
    <3>2. ReadMember(v) = v
      BY <3>1, JsNumberIs
    <3> QED BY <3>2 DEF v
  <2>3. CASE i = 6
    <3>1. a \in Scalars /\ a.t = "str"
      BY <1>1, <1>5, <1>6
    <3>2. JsNumber(a) = a
      BY <3>1, JsNumberIs
    <3>3. ReadMember(Payload(a)) = Payload(a)
      <4> DEFINE p == << <<ciphertext, a>> >>
      <4>1. Payload(a) = Obj(p) /\ Payload(a).t = "obj" /\ Payload(a).members = p
        BY DEF Payload, Obj
      <4>2. [i0 \in DOMAIN p |-> <<p[i0][1], JsNumber(p[i0][2])>>] = p
        BY <3>2
      <4> HIDE DEF p
      <4> QED BY <4>1, <4>2 DEF ReadMember, JsRead
    <3> QED BY <1>1, <2>3, <3>3
  <2> QED BY <2>1, <2>2, <2>3
<1>8. ASSUME NEW i \in 1..7 PROVE <<m[i][1], ReadMember(m[i][2])>> = m[i]
  <2> DEFINE v == m[i][2]
             r == m[i]
  <2>1. r = <<fields[i], v>> /\ ReadMember(v) = v
    BY <1>4, <1>7
  <2>2. r[1] = fields[i]
    <3> HIDE DEF r, v
    <3> QED BY <2>1
  <2>3. <<r[1], ReadMember(v)>> = r
    <3> HIDE DEF r, v
    <3> QED BY <2>1, <2>2
  <2> QED BY <2>3
<1>9. n = m
  BY <1>2, <1>3, <1>8
<1>10. Parse(o) = o
  BY <1>2, <1>3, <1>9
<1> QED BY <1>10 DEF o

(* A license that nobody edited is accepted by both verifiers, whoever it  *)
(* is for: Go decodes the license it wrote to the same one, and Node's     *)
(* encoder gives the text that Go signed.                                  *)
THEOREM UneditedAlwaysAccepted == Spec => []UneditedIsAccepted
<1>1. Typed /\ Signed /\ Genuinely => UneditedIsAccepted
  <2> SUFFICES ASSUME Typed, Signed, Genuinely, issued # Null, edits = 0
               PROVE  GoAccepts(file) /\ NodeAccepts(file)
    BY DEF UneditedIsAccepted
  <2>1. file = issued /\ file \in Files /\ signed = GoText(issued)
    BY DEF Typed, Signed, Genuinely
  <2>2. PICK name \in Names, permanent \in BOOLEAN : issued = Issuable(name, permanent)
    BY DEF Genuinely
  <2> DEFINE m == issued.members
             a == Str(<<97>>)
  <2>3. /\ issued \in Structs /\ issued = Respelt(name, permanent, Genuine)
        /\ m[1][2] = FormatVersion /\ m[2][2] = a
        /\ m[3][2] = (IF permanent THEN ZeroTime ELSE Str(<<53>>))
        /\ m[4][2] = Bool(~permanent) /\ m[5][2] = Str(name)
        /\ m[6][2] = Payload(a) /\ m[7][2] = Genuine
    BY <2>2, IssuableIs
  <2>4. Settled(issued)
    BY <2>3, RespeltSettled, SpellingsAre
  <2>5. GoDecode(file) = issued
    <3>1. GoDecode(issued) # Reject
      BY <2>3, <2>4, StructTaken
    <3>2. /\ KeysIn(m) = Fields
          /\ \A i \in 1..7 : LastOf(m, fields[i]) = m[i][2]
      BY <2>3, StructRead
    <3>3. LastOf(m, encryptedPayload) = Payload(a)
      BY <2>3, <3>2, FieldsApart
    <3>4. a \in Scalars
      BY SomeText, SomeFlat
    <3>5. /\ Payload(a) \in Flat /\ Payload(a).t = "obj"
          /\ KeysIn(Payload(a).members) = {ciphertext}
          /\ LastOf(Payload(a).members, ciphertext) = a
      BY <3>4, PayloadIs DEF Payload, Obj
    <3> DEFINE w == Payload(a)
    <3> HIDE DEF w, m, a
    <3>6. GoDecode(issued) = issued
      BY <2>1, <2>3, <2>4, <3>1, <3>2, <3>3, <3>4, <3>5, GoReads DEF w, m
    <3> QED BY <2>1, <3>6
  <2>6. GoAccepts(file)
    BY <2>1, <2>2, <2>3, <2>5, SpellingsAre, GoGoesOn
  <2>7. Parse(file) = file
    BY <2>1, <2>2, IssuableParsed
  <2>8. NodeAccepts(file)
    <3>1. /\ Get(file, version) = FormatVersion /\ Get(file, id) = Str(<<97>>)
          /\ Get(file, expires) = Bool(~permanent)
          /\ ~permanent => Get(file, notAfter) = Str(<<53>>)
          /\ Get(file, signature) = Genuine
      BY <2>1, <2>3, RespeltRead, SpellingsAre
    <3>2. /\ Truthy(Str(<<97>>)) /\ Truthy(Str(<<53>>))
          /\ Truthy(Bool(~permanent)) => ~permanent
      BY DEF Truthy, Null, Str, Bool, Num
    <3>3. NodeText(file) = GoText(file)
      <4>1. Unsigned(file) \in Holding(Flat)
        BY <2>1, UnsignedTyped DEF Files, Holding
      <4> QED BY <4>1, EncodeAlike DEF NodeText, NodeView, GoText
    <3> QED BY <2>1, <2>7, <3>1, <3>2, <3>3, SpellingsAre DEF NodeAccepts
  <2> QED BY <2>6, <2>8
<1> QED BY <1>1, AlwaysTyped, AlwaysSigned, AlwaysGenuine, PTL
=============================================================================
