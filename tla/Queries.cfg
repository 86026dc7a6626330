SPECIFICATION Spec
CONSTANTS
  u1 = u1
  u2 = u2
  u3 = u3
  None = None
  Word = Word
  Users <- MCUsers
  Domains = {"plain", "idn"}
  Usable = {"plain"}
  EmailsOf <- MCEmailsOf
  NameOf <- MCNameOf
  Matches = {"ann"}
  WINDOW_DAYS = 2
  MAX_LIMIT = 2
  MIN_COUNT_MAX = 2
  SCAN_LIMIT = 2
  Skips <- MCSkips
  Limits <- MCLimits
  MinCounts <- MCMinCounts
  FirstInstant = 1
  LastInstant = 4
VIEW MCView
INVARIANTS  DomainsAgree LiteralRoutesReached
PROPERTIES PerDayNeverShrinks ShortPageIsLast
