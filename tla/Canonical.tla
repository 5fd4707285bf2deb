----------------------------- MODULE Canonical ------------------------------
(***************************************************************************)
(* What each verifier hashes of a license file (SignLicense,               *)
(* VerifySignature of crypto.go; verifyLicenseSignature of crypto.ts), and *)
(* a license file that is edited after it was signed.                      *)
(*                                                                         *)
(* A time is a digit with or without a fraction ".0" behind it.            *)
(***************************************************************************)
EXTENDS CanonicalText

CONSTANTS
  Names,     \* licensees an issuer may sign for
  Values,    \* what an edit may put into a field
  Foreign,   \* keys no license has
  MaxEdits   \* bound: edits of the file

ASSUME CanonicalAssumption ==
  /\ Names \subseteq Text
  /\ Values \subseteq Flat
  /\ Foreign \subseteq Text
  /\ MaxEdits \in Nat

(* The encoders call themselves for what is in a value; a license is an    *)
(* object with objects in it.                                              *)
GoMember(v) == GoValue(GoScalar, v)
GoEncode(v) == GoValue(GoMember, v)
JsMember(v) == JsValue(JsScalar, v)
JsEncode(v) == JsValue(JsMember, v)

ReadMember(v) == JsRead(JsNumber, v)
Parse(o) == JsRead(ReadMember, o)

-----------------------------------------------------------------------------
(* The license struct and what encoding/json does with one (types.go,      *)
(* unmarshalStrict).  The fields left out are strings and times like those *)
(* kept.                                                                   *)
version == <<118>>
id == <<105>>
notAfter == <<97>>
expires == <<101>>
licensee == <<108>>
encryptedPayload == <<112>>
ciphertext == <<99>>
signature == <<115>>

FormatVersion == Num(4)
ZeroTime == Str(<<48>>)

(* The signature the issuer made, in base64 as he wrote it, and what else  *)
(* decodes to the same bytes: StdEncoding skips line breaks and ignores    *)
(* bits left over; Buffer.from also does without padding, takes the URL    *)
(* alphabet, skips what is in neither and takes an array of the bytes.     *)
Genuine == Str(<<61>>)
Wrapped == Str(<<61, 10>>)
Unpadded == Str(<<45>>)
Bytes == Arr(<<Num(1)>>)
GoSpellings == {Genuine, Wrapped}
NodeSpellings == GoSpellings \union {Unpadded, Bytes}

License(theId, theNotAfter, theExpires, theLicensee, theCiphertext, theSignature) ==
  Obj(<< <<version, FormatVersion>>, <<id, theId>>, <<notAfter, theNotAfter>>,
         <<expires, theExpires>>, <<licensee, theLicensee>>,
         <<encryptedPayload, Obj(<< <<ciphertext, theCiphertext>> >>)>>,
         <<signature, theSignature>> >>)

ZeroLicense ==
  [License(Str(<<>>), ZeroTime, Bool(FALSE), Str(<<>>), Str(<<>>), Str(<<>>))
     EXCEPT !.members[1][2] = Num(0)]

Fields == {ZeroLicense.members[i][1] : i \in DOMAIN ZeroLicense.members}
Kind(k) ==
  CASE k = version -> "num" [] k = notAfter -> "time" [] k = expires -> "bool"
    [] k = encryptedPayload -> "obj" [] OTHER -> "str"

Get(o, k) == IF k \in KeysIn(o.members) THEN LastOf(o.members, k) ELSE Null

Reject == [t |-> "reject"]
Lower(k) == [i \in DOMAIN k |-> IF k[i] \in 65..90 THEN k[i] + 32 ELSE k[i]]
Upper(k) == [i \in DOMAIN k |-> IF k[i] \in 97..122 THEN k[i] - 32 ELSE k[i]]

(* time.Time reads either spelling of a time and writes the short one.     *)
Spellings(digit) == {<<digit>>, <<digit, 46, 48>>}
TimeOf(s) ==
  IF \E d \in 48..57 : s \in Spellings(d) THEN Str(<<s[1]>>) ELSE Reject

(* What is decoded on top of an old value: null leaves it alone.           *)
DecodeScalar(kind, old, v) ==
  CASE v = Null -> old
    [] kind = "time" /\ v.t = "str" -> TimeOf(v.s)
    [] kind = v.t /\ kind # "obj" -> v
    [] OTHER -> Reject

(* A member of a file, on top of a struct: its key is taken in any case.   *)
Assign(Inner(_, _, _), o, member) ==
  LET k == Lower(member[1])
      at == {i \in DOMAIN o.members : o.members[i][1] = k}
      i == CHOOSE n \in at : TRUE
      new == Inner(Kind(k), o.members[i][2], member[2])
  IN  IF at = {} \/ new = Reject THEN Reject
      ELSE [o EXCEPT !.members[i][2] = new]

(* The members are taken in the order of the file.                         *)
DecodeValue(Inner(_, _, _), kind, old, v) ==
  IF kind = "obj" /\ v.t = "obj" THEN
    LET after[i \in 0..Len(v.members)] ==
          IF i = 0 THEN old
          ELSE IF after[i - 1] = Reject THEN Reject
          ELSE Assign(Inner, after[i - 1], v.members[i])
    IN  after[Len(v.members)]
  ELSE DecodeScalar(kind, old, v)

DecodeMember(kind, old, v) == DecodeValue(DecodeScalar, kind, old, v)
GoDecode(o) == DecodeValue(DecodeMember, "obj", ZeroLicense, o)

-----------------------------------------------------------------------------
(* What is signed: the license with an empty signature.                    *)
Unsigned(o) == Obj(Append(o.members, <<signature, Str(<<>>)>>))

GoText(lic) == GoEncode(Unsigned(lic))

BugHashesKnownFields(o) ==
  Unsigned(Obj(SelectSeq(o.members, LAMBDA m : m[1] \in Fields)))
NodeView(o) == Unsigned(o)
NodeText(o) == JsEncode(NodeView(o))

Truthy(v) == v \notin {Null, Str(<<>>), Bool(FALSE), Num(0)}

VARIABLES
  issued,  \* the license as the issuer had it
  signed,  \* the text its signature is over
  file,    \* license.json, as a JSON value
  edits    \* how often the file was edited

vars == <<issued, signed, file, edits>>

(* Verify and verifyLicense up to the signature.                           *)
GoAccepts(o) ==
  LET lic == GoDecode(o)
  IN  /\ lic # Reject
      /\ Get(lic, version) = FormatVersion
      /\ Get(lic, id) # Str(<<>>)
      /\ Get(lic, expires) = Bool(TRUE) => Get(lic, notAfter) # ZeroTime
      /\ Get(lic, signature) \in GoSpellings
      /\ GoText(lic) = signed

NodeAccepts(o) ==
  LET lic == Parse(o)
  IN  /\ Get(lic, version) = FormatVersion
      /\ Truthy(Get(lic, id))
      /\ Truthy(Get(lic, expires)) => Truthy(Get(lic, notAfter))
      /\ Get(lic, signature) \in NodeSpellings
      /\ NodeText(lic) = signed

Init == issued = Null /\ signed = <<>> /\ file = Null /\ edits = 0

(* SignLicense, then the file is written.                                  *)
Sign ==
  /\ issued = Null
  /\ \E name \in Names, permanent \in BOOLEAN :
       LET lic == License(Str(<<97>>), IF permanent THEN ZeroTime ELSE Str(<<53>>),
                          Bool(~permanent), Str(name), Str(<<97>>), Genuine)
       IN  issued' = lic /\ file' = lic /\ signed' = GoText(lic)
  /\ edits' = 0

(* Somebody edits the file.                                                *)
Edited(members) ==
  /\ edits < MaxEdits
  /\ edits' = edits + 1
  /\ file' = Obj(members)
  /\ UNCHANGED <<issued, signed>>

Edit ==
  /\ issued # Null
  /\ \/ \E i \in DOMAIN file.members : Edited(RemoveAt(file.members, i))
     \/ \E i \in DOMAIN file.members, v \in Values :
          Edited([file.members EXCEPT ![i][2] = v])
     \/ \E i \in DOMAIN file.members :
          Edited([file.members EXCEPT ![i][1] = Upper(@)])
     \/ \E k \in Fields \union {Upper(f) : f \in Fields}, v \in Values :
          Edited(Append(file.members, <<k, v>>))
     \/ \E k \in Foreign : Edited(Append(file.members, <<k, Null>>))

Next == Sign \/ Edit

Spec == Init /\ [][Next]_vars

-----------------------------------------------------------------------------
(* A signed text is JSON: no raw control character is in it (RFC 8785).    *)
TypeOK ==
  /\ issued = Null <=> signed = <<>>
  /\ \A i \in DOMAIN signed : signed[i] \in Rune /\ 32 <= signed[i]
  /\ edits \in 0..MaxEdits

(* "The two implementations MUST stay byte-for-byte compatible" (canonical *)
(* .ts): whatever keys, strings and integers a file holds, both encode it  *)
(* alike, and both refuse 1.5.  That is as long as JSON.parse keeps its    *)
(* numbers: of 1.0, 1e2 and 2^53 + 1 it makes integers that it encodes,    *)
(* where Go refuses the first two and keeps every digit of the third       *)
(* (canonical.go:67-81, canonical.ts:30-35).                               *)
EncodersAgree ==
  issued # Null /\ Parse(file) = file => GoEncode(file) = JsEncode(Parse(file))

(* A license that nobody edited is accepted by both verifiers: Node signs  *)
(* off on the text Go wrote.                                               *)
UneditedIsAccepted ==
  issued # Null /\ edits = 0 => GoAccepts(file) /\ NodeAccepts(file)

(* Whatever was done to the file, a verifier that accepts it goes on with  *)
(* the license that was signed, but for the spelling of its signature: no  *)
(* edit moves the border between two fields, and what either drops or      *)
(* respells when it reads is no content.                                   *)
SignatureCoversContent ==
  issued # Null =>
    /\ GoAccepts(file) =>
         \A k \in Fields \ {signature} : Get(GoDecode(file), k) = Get(issued, k)
    /\ NodeAccepts(file) =>
         /\ \A k \in Fields \ {encryptedPayload, signature} :
              Get(Parse(file), k) = Get(issued, k)
         /\ Get(Get(Parse(file), encryptedPayload), ciphertext) =
              Get(Get(issued, encryptedPayload), ciphertext)

(* The Node twin is looser in two things only: in the spellings of the     *)
(* signature (crypto.ts:90, crypto.go:213), and in numbers and overridden  *)
(* members of a wrong type, for which Go refuses the file as malformed     *)
(* (util.go:18; a version 4.0).  All else that it accepts Go accepts too.  *)
NodeIsNoLooser ==
  issued # Null /\ NodeAccepts(file) =>
    \/ GoAccepts(file)
    \/ GoDecode(file) = Reject
    \/ Get(Parse(file), signature) \notin GoSpellings
=============================================================================
