------------------------------ MODULE MCAOServer ------------------------------
(* Instances of AOServer for TLC.                                          *)
EXTENDS AOServer, TLC

CONSTANTS c1, c2

(* "", "az", "Zm": an empty text, both wraps, both cases.                  *)
ShortTexts == (c1 :> {<<>>, <<97, 122>>}) @@ (c2 :> {<<90, 109>>})

(* c1's bytes may be split within its texts and joined across them.        *)
TwoLetters == (c1 :> {<<97, 122>>})

(* Unwritten memory begins with a NUL, or with a letter nobody typed.      *)
Memory == {<<>>, <<120>>}

OneLetter == (c1 :> {<<97>>}) @@ (c2 :> {<<90>>})
=============================================================================
