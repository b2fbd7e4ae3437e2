-------------------------- MODULE MCStartupConfig --------------------------
(* Every class of value of the variables that constrain each other, and    *)
(* lists of up to two origins.                                             *)
EXTENDS StartupConfig

OriginLists == {<<>>} \union [1..1 -> {"*", "origin", "", "path"}]
                      \union [1..2 -> {"*", "origin", ""}]
=============================================================================
