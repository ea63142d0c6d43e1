---------------------------- MODULE MCSelectServer ----------------------------
(* Instances of SelectServer for TLC.                                      *)
EXTENDS SelectServer, TLC

CONSTANTS c1, c2, c3

TwoLetters == (c1 :> {<<97, 98>>}) @@ (c2 :> {<<99>>})

OneLetter == (c1 :> {<<97>>}) @@ (c2 :> {<<98>>}) @@ (c3 :> {<<99>>})
=============================================================================
