SPECIFICATION HistSpec
CONSTANTS
  ana = ana
  anaBlank = anaBlank
  noPath = noPath
  Absent = Absent
  Empty = Empty
  Instances = {1, 2}
  Names <- MCNames
  Passwords = {pw1, pw2}
  StoredName <- MCStoredName
  Unopenable <- MCUnopenable
  Pages = 1
INVARIANTS TypeOK OwnerLoggedIn OneRegionPerUser EmptyIsExplained
PROPERTIES PasswordKept OwnerGetsIn
