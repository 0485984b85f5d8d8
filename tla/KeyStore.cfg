SPECIFICATION Spec
CONSTANTS
  KeyIds = 3
  PUBLIC_KEY_SIZE = 2
  PublicKeys <- MCPublicKeys
  Scopes <- MCScopes
  Topics <- MCTopics
  h1 = h1
  Handlers = {h1}
  NoKey = NoKey
CONSTRAINT FewRegistered
INVARIANTS
  TypeOK
  FreshIds
  PublishedInScope
  HexRoundTrip
PROPERTIES
  KeepsIdentity
  NoResurrection
