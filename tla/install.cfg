CONSTANTS
  Scripts = {"panel", "node"}
  Secrets = {k1, k2, k3}
  NoFile = NoFile
  Torn = Torn
  Nobody = Nobody
  MaxFaults = 3
SPECIFICATION FairSpec
INVARIANT TypeOK
INVARIANT SecretsFit
INVARIANT CompleteServes
PROPERTY RerunCompletes
