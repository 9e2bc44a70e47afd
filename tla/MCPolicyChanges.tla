--------------------------- MODULE MCPolicyChanges ---------------------------
(***************************************************************************)
(* PolicyChanges on the cases worth interleaving, one load each: readers   *)
(* of the cache beside a manager; two managers and an agent's proposals; an*)
(* app, a manager and an end-user on a locked credential; templates.       *)
(***************************************************************************)
EXTENDS PolicyChanges, TLC

Url(h, p) == [host |-> h, path |-> p]

Api == Url("api", <<"v1", "send">>)

Gate == Url("api", <<"v1", "*">>)

Open == [EmptyRow EXCEPT !.autoMethods = {"get"}, !.requireUrls = {Gate}]

Locked == [Open EXCEPT !.passkey = TRUE, !.min = 2, !.approvers = {"m1"}]

Quiet == [owner |-> "team", first |-> Open, sets |-> {}, templates |-> {}, apps |-> {},
          payloads |-> {}, urls |-> {Api, Url("api", <<"v1">>)}, deletes |-> {},
          reads |-> "ok", lapses |-> FALSE, readers |-> FALSE,
          managers |-> {"m1"}, atOnce |-> 2, ids |-> {"p1"}, webauthn |-> TRUE,
          decisions |-> {"approve", "deny"}]

MCLoads ==
    { \* the cache
      [Quiet EXCEPT !.sets = {[passkey |-> TRUE]}, !.readers = TRUE, !.deletes = {"credential"},
                    !.atOnce = 1],
      \* proposals: beside a manager; a read may fail
      [Quiet EXCEPT !.payloads = {[autoUrls |-> {Url(AnyHost, <<"v1">>)}, min |-> 2]},
                    !.sets = {[channel |-> "matrix", place |-> "place"]},
                    !.reads = "may_fail", !.lapses = TRUE, !.deletes = {"credential"}],
      \* proposals for a credential without a policy
      [Quiet EXCEPT !.first = NoPolicy,
                    !.payloads = {[autoMethods |-> {"get"}], [requireMethods |-> {"post"}]},
                    !.decisions = {"approve"}, !.atOnce = 1],
      \* no WebAuthn on the deployment: proposals, and a staged change that nobody can claim
      [Quiet EXCEPT !.webauthn = FALSE, !.payloads = {[passkey |-> TRUE]}, !.managers = Managers],
      [Quiet EXCEPT !.webauthn = FALSE, !.owner = "end_user", !.first = Locked, !.atOnce = 1,
                    !.apps = {[passkey |-> FALSE]}, !.payloads = {[passkey |-> TRUE]}],
      \* a flood of proposals
      [Quiet EXCEPT !.payloads = {[min |-> 0], [passkey |-> TRUE]}, !.ids = Proposals,
                    !.decisions = {"deny"}, !.managers = Managers, !.lapses = TRUE],
      \* a locked credential: tightened by the manager and loosened by the app
      [Quiet EXCEPT !.owner = "end_user", !.first = Locked,
                    !.apps = {[passkey |-> TRUE, autoMethods |-> {"GET", "post"},
                               requireUrls |-> {Gate}, approvers |-> {"m1"}, min |-> 2]},
                    !.sets = {[passkey |-> TRUE, approvers |-> {"m1"}, min |-> 0],
                              [passkey |-> TRUE, approvers |-> {"m1"}, min |-> 2,
                               requireUrls |-> {}, autoMethods |-> {"GET"}],
                              [passkey |-> TRUE, approvers |-> {"m1"}, min |-> 3]},
                    !.lapses = TRUE],
      \* not yet locked: the app turns the passkey on while others write
      [Quiet EXCEPT !.owner = "end_user",
                    !.apps = {[passkey |-> TRUE, approvers |-> {"x1"}]},
                    !.sets = {[autoUrls |-> {Url("api", << >>)}], [approvers |-> {"x1"}]},
                    !.deletes = {"credential"}],
      \* templates
      [Quiet EXCEPT !.templates = {[passkey |-> TRUE], [requireUrls |-> {}]},
                    !.deletes = {"template"}] }

Interchangeable ==
    Permutations(Handlers) \cup Permutations(Readers)
=============================================================================
