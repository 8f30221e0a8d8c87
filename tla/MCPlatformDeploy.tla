-------------------------- MODULE MCPlatformDeploy --------------------------
(* Instances of PlatformDeploy for TLC: runs are numbers, in their order.  *)
EXTENDS PlatformDeploy

CONSTANT RunCount

MCRuns == 1 .. RunCount

\* By hand: everything.
MCTargets == {Parts}

\* A push touches the hub, Terraform and the hub, or nothing deployed.
MCTouches == {{"hub"}, {"aws", "hub"}, {}}

\* A voice job that deploys the hub, and one that deploys nothing.
MCAsked == {{"hub"}, {"script"}}

=============================================================================
