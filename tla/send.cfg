SPECIFICATION SendSpec
CONSTANTS
  Attempts = 3
INVARIANTS SendTypeOK NoStaleAnswer ConnComesFirstAndOnce RetriesDoNotMultiply
PROPERTIES CallsEnd ImplementsCall
