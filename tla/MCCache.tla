------------------------------ MODULE MCCache -------------------------------
(***************************************************************************)
(* The instance of TwoTierCache: two lists of messages that differ in a    *)
(* role only, and one message whose content reads like the former of them  *)
(* once it is joined.                                                      *)
(***************************************************************************)
EXTENDS TwoTierCache, TLC

Message(role, content) == [role |-> role, content |-> content]

ThreePrompts ==
  {<<Message("user", <<"a">>), Message("user", <<"b">>)>>,
   <<Message("system", <<"a">>), Message("user", <<"b">>)>>,
   <<Message("user", <<"a", "|", "user", ":", "b">>)>>}

TwoPrompts == {<<>>, <<Message("user", <<"a">>)>>}

(* Requests, and models, are only compared with each other.                   *)
Interchangeable == Permutations(Requests) \cup Permutations(Models)

=============================================================================
