--------------------------- MODULE MCEndorsement ---------------------------
(***************************************************************************)
(* Instance of Endorsement for TLC: one plain key, two composite keys, and *)
(* two prefixes of which one finds both composite keys and the other one   *)
(* of them.  Texts are spelled out letter by letter; the values have no    *)
(* dot, so that the texts of range queries are unambiguous.                *)
(***************************************************************************)
EXTENDS Endorsement, Sequences, TLC

MCMatch == [p \in Prefixes |-> IF p = "all" THEN Composite ELSE {"c2"} \cap Composite]

KeyText(k) == IF k = "c1" THEN <<".", "c", "1", ".">> ELSE <<".", "c", "2", ".">>
ValueText(v) ==
  LET plain == IF v.val = "a" THEN <<"a">> ELSE <<"b", "i", "g">>
  IN  IF v.encrypted THEN <<ToString(v.iv)>> \o plain \o <<"=">> ELSE plain

\* The pairs of a std::map, in the order of their keys.
EntryText(answer, k) ==
  IF \E kv \in answer : kv[1] = k
  THEN KeyText(k) \o ValueText((CHOOSE kv \in answer : kv[1] = k)[2])
  ELSE <<>>
MCRangeText(answer) == EntryText(answer, "c1") \o EntryText(answer, "c2")

ASSUME MCUnambiguous == Unambiguous
=============================================================================
