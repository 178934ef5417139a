----------------------------- MODULE MCHidInput -----------------------------
(* Instances of HidInput for TLC. *)
EXTENDS HidInput

\* In the normal mode OK types a key, in the cursor mode it clicks; Home and
\* the mode key have a setting that must not be used in the cursor mode.
MCMap == [s \in (0..1) \X {"a", "home", "cursor", "ok"} |->
            CASE s[2] = "a"      -> IF s[1] = 0 THEN {"A"} ELSE {"A", "volume"}
              [] s[2] = "home"   -> {"H"}
              [] s[2] = "cursor" -> {"X"}
              [] s[2] = "ok"     -> IF s[1] = 0 THEN {"Enter"} ELSE {"left"}]

MCMacros == {<<0, "a">>, <<1, "a">>, <<1, "ok">>}
=============================================================================
