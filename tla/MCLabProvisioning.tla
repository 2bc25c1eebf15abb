-------------------------- MODULE MCLabProvisioning --------------------------
(***************************************************************************)
(* An instance of LabProvisioning for TLC: strings name the fixtures.      *)
(***************************************************************************)
EXTENDS LabProvisioning

MCInitializers == {"init1", "init2"}
MCFixtures == {"test1"}
MCCallers == MCInitializers \cup MCFixtures
MCTopics == LabTopics \cup MCFixtures
=============================================================================
