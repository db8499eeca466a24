SPECIFICATION Spec
CONSTANTS
  Order <- SignalOrder
  FieldModulus = 2
  Limb = 4
  good = good
  revised = revised
  drifted = drifted
  reordered = reordered
  Circuit <- Circuits
  Documented = {good, revised, drifted}
  Agreeing = {good, revised, reordered}
  MaxBuild = 2
  MaxMint = 2
  None = None
SYMMETRY CircuitSymmetry
INVARIANTS ReadyIsProvable AcceptedIsSound AcceptedIsPresentable DeploymentIsUsable
CHECK_DEADLOCK FALSE
