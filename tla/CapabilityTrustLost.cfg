SPECIFICATION Spec
CONSTANTS
  v1 = v1
  v2 = v2
  None = None
  Torn = Torn
  Sources <- MCSources
  Slugs <- MCSlugs
  Contents <- MCContents
  Handlers <- MCHandlers
  SlugOf <- MCSlugOf
  HandlerOf <- MCHandlerOf
  Threshold = 2
  MaxFaults = 0
INVARIANTS InstalledIsTrusted
