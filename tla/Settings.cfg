\* Two clients; every pair of messages meets at every access.
SPECIFICATION Spec
CONSTANTS
  Client = {c1, c2}
  NoMsg = NoMsg
  PlainTop <- MCPlainTop
  MaxLen <- MCMaxLen
  MinLen = 3
  Half = 512
  Message <- MCMessage
  Report <- MCReport
INVARIANTS
  TypeOK
  StrobesRest
PROPERTIES
  SettingsReported
  ImplementsStore
