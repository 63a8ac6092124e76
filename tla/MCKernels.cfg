SPECIFICATION Spec
CONSTANTS
  WordBase = 512
  Primes = {31}
  Operands <- MCOperands
  MaxDigits = 512
  TensorDegree = 2
  TransformPrimes <- MCTransformPrimes
  ResidueCount = 2
  PlainModuli = {2, 17, 31}
  Quotients <- MCQuotients
  SwitchModuli = {97}
  SwitchCount = 3
  RadixPrimes <- MCRadixPrimes
  GadgetBits = {1, 2, 4, 5, 6, 7, 11, 15}
  PrimeBits = 5
  WordCount = 2
  WireDegree = 4
  ByteBits = 2
  WordBytes = 4
  MaxBits = 30
  Moduli = {5, 31, 127, 255, 257, 1023, 32767, 65521, 65537, 262139}
  Samples <- MCSamples
  SmallModuli = {5, 6}
  PackedDegree = 4
  Modulus = 509
  LaneDigitBits = 3
  KeyPolys <- MCKeyPolys
  Polys <- MCPolys
  KeyLens = {3, 4, 5}
  AlphaLens = {5}
  MaxEmbedLen = 7
  Vectors <- MCVectors
  Randoms = {1, 7}
  MsgBits = 3
  NoiseMultiples = 2
INVARIANTS
  SumIsExact
  RescalingIsExact
  GadgetDigitsAreExact
  WireIsExact
  PackedProductsAreExact
  WrongOnlyIfWrapped
CHECK_DEADLOCK FALSE
