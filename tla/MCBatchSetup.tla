---------------------------- MODULE MCBatchSetup ----------------------------
(* An instance of BatchSetup for TLC: no settings, approvals for the target *)
(* as it is and as it was, for this project or for another one.             *)
EXTENDS BatchSetup

Entry(version) == [kind |-> "entry", at |-> version]

MCInitial == {[root |-> "none", rules |-> NoRules], [root |-> "none", rules |-> Entry(2)],
              [root |-> "none", rules |-> [kind |-> "resource", at |-> 1]],
              [root |-> "there", rules |-> Entry(1)]}
=============================================================================
