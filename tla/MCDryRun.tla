----------------------------- MODULE MCDryRun -----------------------------
(***************************************************************************)
(* Dry runs of one manifest with a Patch rule and a Reject rule, with a    *)
(* rule that is not valid and with a rule that does not compile.           *)
(***************************************************************************)
EXTENDS MCAdmission, DryRun

MCDryRunNamespaces == {"ns", "kubemod-system", "dryrun-namespace"}
MCNoRules == {}
MCNoRequests == {}

\* A rule as it is written in a payload, with nothing defaulted.
Written(r) == [r EXCEPT !.admissionOperations = {},
                        !.match = {[m EXCEPT !.matchFor = ""] : m \in @}]

Payload(rules) == [modRules |-> rules, resourceManifest |-> Mirrored]

RejectXRule == [RejectGRule EXCEPT !.name = "rejectx", !.match = {HasValue("f", "x")}]

MCPayloads ==
    { Payload(<<Written(AddGRule), Written(RejectXRule)>>),
      Payload(<<Written(AddGRule), [Written(RejectGRule) EXCEPT !.executionTier = MaxInt16]>>),
      Payload(<<[Written(AddGRule) EXCEPT !.broken = {"targetNamespaceRegex"}]>>) }
============================================================================
