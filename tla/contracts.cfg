\* An arm, a camera and a relay, two commands, two units of time and one slip; one
\* skill with two implementations, four catalogs and two projections of a host; one
\* bundle in two versions and four adapters.  A run, a history of receipts and a
\* resolution end.
SPECIFICATION MCSpec

CONSTANTS
  Nothing = Nothing
  Manifest <- MCManifest
  Protocols <- MCProtocols
  MaxTime = 2
  MaxSlips = 1
  Catalogs <- MCCatalogs
  Projections <- MCProjections
  Questions <- MCQuestions
  Facts <- MCFacts
  MaxRouteTime = 2
  MaxReceipts = 2
  MaxMoves = 1
  Bundles <- MCBundles
  Attestations <- MCAttestations
  Safeties <- MCSafeties
  Objects <- MCObjects
  Shapes <- MCShapes
  MaxSwaps = 1

INVARIANTS
  AdmittedIsSafe
  DisciplineIsAdmitted
  RouteIsFirstUsable
  ShownIsGenuine
  ResolvedIsQualified

CHECK_DEADLOCK FALSE
