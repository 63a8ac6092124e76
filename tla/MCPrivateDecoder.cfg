SPECIFICATION Spec
CONSTANTS
  DecoderThreads = {t1, t2, t3}
  Groups = 2
  MaxCalls = 1
  Nobody = Nobody
  WordBase = 32768
  DecoderDegree = 8
  SlotModulus = 17
  Divisor = 8191
  FirstPrime = 2017
  SecondPrime = 1889
  DegreeBits = 3
  ModulusBits = 13
  PlainBits = 5
  Secrets <- MCSecrets
  Ciphertexts <- MCCiphertexts
  RingDegree = 8
  PlainModulus = 17
  NttPrimes = {113, 2017}
  Polynomials <- MCPolynomials
  PaddedLengths = {1, 2, 4}
INVARIANTS
  LiveKeyOnly
  AgreesWithScheme
  TransformsAreExact
PROPERTY
  CallsReturn
CHECK_DEADLOCK FALSE
