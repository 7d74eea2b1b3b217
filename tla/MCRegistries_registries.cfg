SPECIFICATION Spec
CONSTANTS
  i1 = i1
  i2 = i2
  Wallets = {w1}
  Identities = {id1}
  NoIdentity = noIdentity
  Issuers = {i1, i2}
  Topics = {1, 2}
  MaxTopicsOfIssuer = 2
  MaxIssuers = 2
  MaxRequired = 2
  MaxFailures = 1
SYMMETRY Interchangeable
INVARIANTS
  RegistriesTypeOK
  IssuerIndexesAgree
  VerifiedByTrustedIssuers
