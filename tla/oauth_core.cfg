SPECIFICATION FairSpec
CONSTANTS
  h1 = h1
  h2 = h2
  h3 = h3
  Nobody = Nobody
  Handler = {h1, h2, h3}
  Character <- Letters
  Resource <- Upstream
  Issuer <- Server
  ConfiguredScopes = {}
  World <- Worlds
  Challenges <- HeadersWritten
  Configured = FALSE
INVARIANTS
  TypeOK
  TokenOfClient
  ExchangesOwnCode
  NoLoss
  AskedOnlyIfNeeded
  MetadataOurs
  ChallengeRead
PROPERTIES
  IsCache
  RequestsEnd
