------------------------------ MODULE MCSession ------------------------------
(* Instances of Session for TLC: two tabs of one browser, each with one    *)
(* request at a time, are enough for every race of two answers.            *)
EXTENDS Session, TLC

(* Tabs, refresh tokens and CSRF tokens are interchangeable.               *)
SessionSymmetry ==
    Permutations(Tabs) \cup Permutations(Tokens) \cup Permutations(CsrfTokens)
==============================================================================
