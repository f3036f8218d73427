SPECIFICATION Spec
CONSTANTS
  Share = {home, shared}
  Standard = {shared}
  Title = {t0, t1, t2}
  User = {owner, other}
  Owner = owner
  Handle = {h1, h2}
  None = none
  Scenes <- AllScenes
  MaxRenames = 2
  MaxResyncs = 1
  MaxFaults = 1
  MaxCrashes = 1
  MaxWrites = 1
INVARIANTS
  WritersKeepTheirDraft
PROPERTIES
  SharesComeBack
  ServesAgain
