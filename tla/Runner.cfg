\* A sweep needs 8 ticks, of sessions 10, and the skew: the expiries are about that.
CONSTANTS
  Repos <- MCRepos
  Origins <- MCOrigins
  Base = "entry"
  Siblings = {"sibling"}
  Adverts <- MCAdverts
  Sweep <- MCSweep
  Window = 2
  DrainGrace = 2
  SessionCleanup = 1
  Skew = 1
  NoExp = NoExp
  Expiries = {5, 9, 10, 11, 12}
  MaxIdle = 2
SPECIFICATION Spec
INVARIANTS
  TokenOutlivesTheLevel
  RefusalsAreDueToDelays
  OptionsWhereverPushed
  CredentialStaysPinned
