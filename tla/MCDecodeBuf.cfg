SPECIFICATION Spec
INVARIANT StringRoundTrip
INVARIANT VectorRoundTrip
INVARIANT ShortInputFails
INVARIANT StickyError
INVARIANT ObjectRoundTrip
CONSTANT NIL = NIL
INVARIANT AckPerOddMessage
INVARIANT RoutedAsSpecified
INVARIANT SessionRoundTrip
INVARIANT AuthFollowsProtocol
INVARIANT MigrationRedoesKeyExchange
