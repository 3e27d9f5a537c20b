----------------------------- MODULE FieldKinds -----------------------------
(***************************************************************************)
(* The kinds of field that the code generated by ts-proto tells apart, as  *)
(* a field of a message type is read and written in gen/message.ts and     *)
(* gen/rendezvous.ts:                                                      *)
(*   no    the field number (tag >>> 3)                                    *)
(*   wt    the wire type (tag & 7) that encode writes                      *)
(*   card  "implicit" (skipped at its default), "optional" (a nested       *)
(*         message or undefined), "repeated", "packed", or "oneof" (a      *)
(*         member of the type's only union)                                *)
(*   of    the nested type, or Scalar                                      *)
(*   big   a bigint, checked against 64 bits before it is written          *)
(***************************************************************************)
EXTENDS Naturals

Scalar == "scalar"
Varint == 0
Bit64 == 1
Delimited == 2
EndGroup == 4

Kind(no, wt, card, of, big) ==
    [no |-> no, wt |-> wt, card |-> card, of |-> of, big |-> big]

Var(no) == Kind(no, Varint, "implicit", Scalar, FALSE)
Bin(no) == Kind(no, Delimited, "implicit", Scalar, FALSE)
Fix(no) == Kind(no, Bit64, "implicit", Scalar, FALSE)
Big(no) == Kind(no, Varint, "implicit", Scalar, TRUE)
Sub(no, of) == Kind(no, Delimited, "optional", of, FALSE)
Subs(no, of) == Kind(no, Delimited, "repeated", of, FALSE)
Bins(no) == Kind(no, Delimited, "repeated", Scalar, FALSE)
Packed(no) == Kind(no, Delimited, "packed", Scalar, FALSE)
OneVar(no) == Kind(no, Varint, "oneof", Scalar, FALSE)
OneBin(no) == Kind(no, Delimited, "oneof", Scalar, FALSE)
OneBig(no) == Kind(no, Varint, "oneof", Scalar, TRUE)
OneSub(no, of) == Kind(no, Delimited, "oneof", of, FALSE)

\* A type without fields.
NoFields == [f \in {} |-> Var(0)]

=============================================================================
