------------------------------- MODULE MCQuota -------------------------------
(***************************************************************************)
(* Blocks of two dquots; a file can be given to a group that has none.     *)
(***************************************************************************)
EXTENDS Quota

MCOwners == {<<1, 1>>, <<1, 2>>}

MCConfigs == {{"user", "group"}, {"group", "proj"}}

=============================================================================
