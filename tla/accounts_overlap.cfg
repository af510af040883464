SPECIFICATION Spec
CONSTANTS
  r1 = r1  r2 = r2  Main = Main  Cli = Cli  Server = Server  Shell = Shell
  NoFile = NoFile  Empty = Empty  Torn = Torn  NoValue = NoValue
  Requests = {r1, r2}
  Users <- MCUsers
  Tokens <- MCTokens
  Admin = "admin"
  TokenRole <- MCTokenRole
  Writers <- MCWriters
  Pids <- MCPids
  ProcessOf <- MCProcessOf
  Values <- Config
  Backups <- MCBackups
  MaxSaves = 3
INVARIANT AlwaysWhole
SYMMETRY MCSymmetry
