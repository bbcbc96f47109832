SPECIFICATION Spec
CONSTANTS
  Client = {c1, c2}
  Group = {"a", "b"}
  Cached = {"a"}
  Upstream <- UpstreamMC
  Before <- BeforeMC
  Commands <- CommandsMC
  MaxNumber = 5
  MaxEvents = 5
  Limits = {1, 2}
INVARIANT ConnectionsBounded
PROPERTIES NothingSkipped ClientsServed
CHECK_DEADLOCK FALSE
