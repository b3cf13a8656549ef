SPECIFICATION Spec
CONSTANTS
  v1 = v1
  v2 = v2
  own = own
  led = led
  read = read
  Absent = Absent
  Jobs = {1, 2}
  Listed <- MCListed
  Password <- MCPassword
  Breached = {"p"}
  Inherited = {}
  Queries = {"", "ab", "abc"}
  Vaults = {own, led, read}
  Owned = {own}
  OfTeam = {led, read}
  Admin <- MCAdmin
  AtFirst <- MCStart
  Accounts = {"a"}
  Servers = {"s", "t"}
  Items = {"i", "j"}
  Calls = {1, 2}
  Req = {1, 2}
  Challenges = {1, 2}
PROPERTY DeletesTheVaultNamed
CHECK_DEADLOCK FALSE
