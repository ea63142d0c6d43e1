------------------------------- MODULE Wildcards -------------------------------
(***************************************************************************)
(* doctest's filters: wildcmp, which compares a name with a mask of        *)
(* characters, '?' and '*', and matchesAny.  Names and masks are sequences *)
(* of one-character strings without the closing NUL; positions are 1-based *)
(* and the one after the last character reads NUL, as in C.                *)
(***************************************************************************)
EXTENDS Naturals, Sequences

NUL == "NUL"
At(str, i) == IF i <= Len(str) THEN str[i] ELSE NUL

LowerCase == [A |-> "a", B |-> "b", C |-> "c"]
tolower(c) == IF c \in DOMAIN LowerCase THEN LowerCase[c] ELSE c

(* The comparison both loops of wildcmp make.                              *)
Agree(w, c, caseSensitive) ==
    w = "?" \/ (IF caseSensitive THEN w = c ELSE tolower(w) = tolower(c))

(* How many characters of str from s agree with wild from w, up to the end *)
(* of str or a '*': where the first loop stops, and the second one after it*)
(* has met a '*' or gone back.                                             *)
Agreeing(str, wild, s, w, caseSensitive) ==
    LET Goes(j) == /\ At(str, s + j) # NUL /\ At(wild, w + j) # "*"
                   /\ Agree(At(wild, w + j), str[s + j], caseSensitive)
    IN CHOOSE n \in 0..Len(str) : ~Goes(n) /\ \A j \in 0..n - 1 : Goes(j)

(* The third loop.                                                         *)
OnlyStars(wild, w) == \A j \in w..Len(wild) : wild[j] = "*"

(* scan is the second loop after a '*': w is mp, and s is where it begins  *)
(* to compare the name with the mask from there, cp - 1.                   *)
wildcmp(str, wild, caseSensitive) ==
    LET n == Agreeing(str, wild, 1, 1, caseSensitive)
        scan[at \in (1..Len(str) + 1) \X (1..Len(wild) + 1)] ==
            LET s == at[1]
                w == at[2]
                m == Agreeing(str, wild, s, w, caseSensitive)
            IN IF At(str, s + m) = NUL THEN OnlyStars(wild, w + m)
               ELSE IF At(wild, w + m) = "*" THEN w + m = Len(wild) \/ scan[<<s + m, w + m + 1>>]
               ELSE scan[<<s + 1, w>>]
    IN IF At(str, 1 + n) = NUL THEN OnlyStars(wild, 1 + n)
       ELSE At(wild, 1 + n) = "*" /\ (1 + n = Len(wild) \/ scan[<<1 + n, 1 + n + 1>>])

matchesAny(name, filters, matchEmpty, caseSensitive) ==
    \/ filters = <<>> /\ matchEmpty
    \/ \E i \in DOMAIN filters : wildcmp(name, filters[i], caseSensitive)

(* Reference: the mask from j can stand for the name from the positions in *)
(* for[j].                                                                 *)
Glob(str, wild, caseSensitive) ==
    LET for[j \in 1..Len(wild) + 1] ==
        IF j = Len(wild) + 1 THEN {Len(str) + 1}
        ELSE IF wild[j] = "*" THEN {i \in 1..Len(str) + 1 : \E k \in for[j + 1] : i <= k}
        ELSE {i \in 1..Len(str) : i + 1 \in for[j + 1] /\ Agree(wild[j], str[i], caseSensitive)}
    IN 1 \in for[1]

(* The reading of a filter list that the run's properties use.             *)
Selects(filters, name, caseSensitive) ==
    \E i \in DOMAIN filters : Glob(name, filters[i], caseSensitive)
=============================================================================
