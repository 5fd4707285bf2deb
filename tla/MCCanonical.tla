---------------------------- MODULE MCCanonical ----------------------------
(* An instance of Canonical for TLC.                                        *)
EXTENDS Canonical

(* A licensee that looks like the text between two fields, b","l":"c, and   *)
(* ends in markup and controls.                                             *)
Ending == <<99, 60, 128512, 10, 92, 1>>
SomeNames == {<<98, 34, 44, 34, 108, 34, 58, 34>> \o Ending}

SomeValues ==
  {Null, Bool(TRUE), Real(4), Num(9), Wrapped, Unpadded, Str(<<53, 46, 48>>),
   Str(Ending), Str(<<97, 34, 44, 34, 108, 34, 58, 34, 98>>),
   Obj(<< <<Upper(ciphertext), Str(<<97>>)>> >>),
   Obj(<< <<ciphertext, Str(<<99>>)>>, <<ciphertext, Str(<<97>>)>> >>)}

(* U+FFFD sorts before U+1F600 by code point and after it by UTF-16.        *)
SomeForeign == {<<65533>>, <<128512>>}
=============================================================================
