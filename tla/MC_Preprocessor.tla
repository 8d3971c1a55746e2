-------------------------- MODULE MC_Preprocessor --------------------------
(* Templates of up to 6 characters over x, $, backslash, 0, 1 and @, so  *)
(* that a template holds two references after a first character ("x$1$10" *)
(* and "$$0$00"); values of one or two characters.                        *)
EXTENDS Preprocessor

MCChars == {"x", "$", "\\", "0", "1", "@"}

MCTemplates == BoundedSeq(MCChars, 6)

MCCleanValues == {<<"x">>, <<"x", "0">>}

MCCaptures == {<<c0>> : c0 \in MCCleanValues} \cup
              {<<c0, c1>> : c0, c1 \in MCCleanValues}

(* Lines that hold a reference of their own.                              *)
MCDirtyLines == MCCleanValues \cup {<<"$", "@">>, <<"$", "1">>}
=============================================================================
