--------------------------- MODULE MCOtpAdmission ---------------------------
(***************************************************************************)
(* Instance of OtpAdmission for TLC: two spellings of one Kenyan mobile     *)
(* number, and a body without one.                                          *)
(***************************************************************************)
EXTENDS OtpAdmission, TLC

Spelling(text, type, e164) == [text |-> text, type |-> type, region |-> "KE", e164 |-> e164]

MCSpellings == {Spelling("local", "MOBILE", "+254a"),
                Spelling("international", "MOBILE", "+254a"),
                Spelling("", "NONE", "none")}

Symmetry == Permutations(Callers)
=============================================================================
