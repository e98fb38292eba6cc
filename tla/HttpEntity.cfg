SPECIFICATION SessionSpec
CONSTANTS
  Message <- MCChunked
  MaxMessages = 1
PROPERTIES
  EntityReceived
