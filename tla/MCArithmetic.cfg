\* Both GAMMA2, w at the ends and middle of every high part; every representative
\* of every ML-KEM coefficient; rank 4 and matrices of 2 by 7, the
\* longest rows there are; encoded ring elements of 2 units.
CONSTANTS
  Gammas <- MCGammas
  Beta <- MCBeta
  Ts <- MCTs
  Ws <- MCWs
  CS2s <- MCCS2s
  CT0s <- MCCT0s
  CoefficientBits = {1, 4, 5, 10, 11}
  Representatives <- MCRepresentatives
  Contexts <- MCContexts
  Messages <- MCMessages
  BYTE_VALUES = 3
  CONTEXT_MAX_LEN = 2
  SHAKE128_OID <- MCOid
  Octets <- MCOctets
  Rank = 4
  Rows = 2
  Columns = 7
  Units = 2
  MlKemFlows = {"keypair", "encrypt", "decrypt"}
  MlDsaFlows = {"keygen", "sign", "respond", "remainder", "verify"}
  MlKemExponents = {0, 1, 2, 5, 21, 85, 127, 255}
  MlDsaExponents = {0, 1, 5, 85}
SPECIFICATION MCSpec
INVARIANTS
  KeySplits
  DecomposesRight
  HintRecovers
  CompressesRight
  EncodesRight
  DecodesBack
  ProductsRight
  RangesKept
  BytesInPlace
  VerifiesOnlyWhatWasSigned
CHECK_DEADLOCK FALSE
