\* The agent: two clients, a place in each of two vaults, one edit.  Programs:
\* pipes of one unit, three items of which two share a name.  The log: two
\* writers, two events on two days.  Codes: every second of several windows.
\* The Web UI: two browsers, an idle time below and above the watchdog's sleep.
\* Devices: a soldered disk, a built-in card reader, a stick; two moves of hands.
SPECIFICATION DesktopSpec
CONSTANTS
  shop = shop
  k1 = k1
  k2 = k2
  Environments = {"prod", "dev"}
  Projects = {shop}
  Global = Global
  Placeholder = Placeholder
  Clients = {c1, c2}
  Keys = {k1, k2}
  Slots <- SomeSlots
  Stock <- SomeStock
  AgentFiles <- SomeFiles
  MaxEdits = 1
  None = None
  Pipe = 1
  Values <- SomeValues
  Failures <- SomeFailures
  Text = 2
  Items = {i1, i2, i3}
  Namesakes = {i1, i2}
  Backups = {i2, i3}
  Tools = 2
  Writers = {w1, w2}
  Coordinates = {plain, accented}
  Wide = {accented}
  MaxEvents = 2
  MaxClock = 1
  DayLength = 1
  Periods = {0, 1, 3}
  Floors = {0, 1, 2, 3, 4}
  NoFloor = NoFloor
  MaxTime = 6
  Browsers = {b1, b2}
  Idles = {0, 1, 3}
  Nap = 2
  Nodes = {n1, n2, n3}
  Disks = {ssd, card, stick}
  Internal = {ssd, card}
  Loose = {card, stick}
  NoDisk = NoDisk
  NoNode = NoNode
  MaxMoves = 2
INVARIANTS
  SignaturesAreGoverned
  ListsAreCurrent
  ToldIsTrue
  NobodyRunsOn
  RecordedIsRead
  LivesLongEnough
  AcceptedIsAnswered
  StagedKeyIsAttended
  SystemIsSpared
  ShownDeviceIsUsed
PROPERTIES
  EveryoneIsServed
  CallsEnd
  UiEnds
