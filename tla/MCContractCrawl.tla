-------------------------- MODULE MCContractCrawl --------------------------
(***************************************************************************)
(* Instances of ContractCrawl for TLC.  The registry holds three records,   *)
(* one of them without a contract number; or three others, after a           *)
(* cancellation at the front and a registration at the end, which its total  *)
(* does not show; or two that are alike once they are normalized.  Another    *)
(* registry never changes.                                                  *)
(***************************************************************************)
EXTENDS ContractCrawl

Records == {"a", "b", "c", "d", "blank"}
Small == <<"a", "b", "blank">>
Shifted == <<"b", "blank", "d">>
Short == <<"c", "c">>
ThreeRegistries == {Small, Shifted, Short}

Steady == {<<"a", "b", "c", "d">>}
=============================================================================
