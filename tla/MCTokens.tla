------------------------------- MODULE MCTokens -------------------------------
(* Small instances of TokenStore for TLC. *)
EXTENDS TokenStore, TLC

CONSTANTS a1, a2, b1

\* Two tokens issued under one alias, and one under another.
MCAliasOf == a1 :> "a" @@ a2 :> "a" @@ b1 :> "b"

=============================================================================
