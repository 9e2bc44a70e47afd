----------------------------- MODULE MCWorkspace ------------------------------
EXTENDS Workspace

CONSTANTS n1, n2, a1, a2, p1, e1

(* What is asked for together, the tier, and the agents and credentials    *)
(* there are at the start.                                                 *)
MCLoads ==
    {[ops |-> {"credentials", "patch", "delete"}, names |-> {n1, e1}, who |-> {},
      tier |-> "starter", agents |-> {}, creds |-> [n \in {n1} |-> "google"], ids |-> 3],
     [ops |-> {"agents", "scopes", "delete", "credentials"}, names |-> {n1}, who |-> {a1},
      tier |-> "free", agents |-> {}, creds |-> [n \in {n1} |-> "plain"], ids |-> 2],
     [ops |-> {"agents", "keys"}, names |-> {}, who |-> {a1, a2},
      tier |-> "starter", agents |-> {a1}, creds |-> [n \in {n1} |-> "plain"], ids |-> 1],
     [ops |-> {"agents", "keys", "scopes"}, names |-> {n1}, who |-> {a1},
      tier |-> "free", agents |-> {}, creds |-> [n \in {n1} |-> "plain"], ids |-> 1],
     [ops |-> {"roles", "agents"}, names |-> {n1}, who |-> {a1},
      tier |-> "free", agents |-> {a1}, creds |-> [n \in {n1} |-> "plain"], ids |-> 1],
     [ops |-> {"roles", "delete", "credentials"}, names |-> {n1, n2}, who |-> {},
      tier |-> "free", agents |-> {}, creds |-> [n \in {n1} |-> "plain"], ids |-> 2],
     [ops |-> {"setups", "delete"}, names |-> {n1}, who |-> {a1},
      tier |-> "free", agents |-> {a1}, creds |-> [n \in {} |-> ""], ids |-> 3],
     [ops |-> {"oauth", "reauthorize", "delete"}, names |-> {n1}, who |-> {a1},
      tier |-> "free", agents |-> {a1}, creds |-> [n \in {} |-> ""], ids |-> 4],
     [ops |-> {"apps", "delete", "setups"}, names |-> {e1}, who |-> {},
      tier |-> "free", agents |-> {}, creds |-> [n \in {} |-> ""], ids |-> 3],
     [ops |-> {"billing"}, names |-> {}, who |-> {},
      tier |-> "free", agents |-> {}, creds |-> [n \in {} |-> ""], ids |-> 1]}

Symmetry == Permutations(Callers)
===============================================================================
