------------------------------ MODULE MCGrants ------------------------------
(* The instance of Grants that TLC checks: a reviewed request, a deeper    *)
(* path under it, a path with a literal "*" segment and the root of the    *)
(* host, and one authored pattern with a wildcard segment.                 *)
EXTENDS Grants, TLC

Post(path) == [method |-> "POST", host |-> "api", path |-> path]

MCTargets == {Post(<<"m">>), Post(<<"m", "x">>), Post(<<Wild>>), Post(<< >>)}

MCAuthored == {[methods |-> {"POST", "PUT"}, hosts |-> {"api"}, paths |-> {<<"m", Wild>>}]}

Ids == Permutations(Grants) \cup Permutations(Calls)
=============================================================================
