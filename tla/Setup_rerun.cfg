CONSTANTS
  MaxApps = 2
  MaxWant = 2
SPECIFICATION Spec
INVARIANTS TypeOK ProvisionTells FilesFit AppIsOurs
