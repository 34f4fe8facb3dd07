SPECIFICATION Spec
CONSTANTS
  MaxTroubles = 2
  \* Lifetimes
  Key = {"k"}
  CA = {"ca", "short"}
  CaUntil <- CaUntils
  Reader = {"r"}
  Action = {"a"}
  Bundle = {"n"}
  ObjectLife = 2
  MaxTime = 3
  NoCert = NoCert
  NoPointer = NoPointer
  Gone = Gone
  \* Mounts
  Editor = {"e1", "e2"}
  Entrant = {"b"}
  Target = {"p", "pq"}
  Inside <- Nested
  Cells = {"p"}
  Slots = {"pq"}
  Source = {"s"}
  NoSource = NoSource
  Nobody = Nobody
  \* Checkout
  Command = {"p1", "p2"}
  Pin = {"h1", "h2"}
  Cell = {"c", "d"}
  \* Commands
  MaxSteps = 3
  MaxSignals = 2
  \* SnapshotUpload
  Units = 6
  BlockUnits = 2
  Jobs = 1
  \* BotGate
  Runs = 3
  \* Supply
  Package = {"p", "q", "x"}
  Release = {"r1", "r2", "t", "u"}
  OfDeclaredKey = {"r1", "r2", "t"}
  Holds <- Holdings
  Suite <- Suites
  From <- SignedOn
  Until <- ExpiresOn
  Wanted = "s"
  Genuine = {"p", "q"}
  KeyUntil <- KeyExpires
  Box = {"a", "b"}
  MaxDay = 2
  MaxLies = 1
  MaxPicked = 2
  Never = Never
  NoPin = NoPin
  \* InstallRoot
  Packages = {"p", "q"}
  Ships <- ShipsOf
  Bounded = 3
  \* Catalog
  Repo = {"r1", "r2", "a1"}
  Kinds <- Passes
  Archives = {2}
  Series <- SeriesOf
  Deps <- DepsOf
  Buck = "BUCK"
  GoReleases = {}
  SigningKey = {"key"}
  Since = 2
  Days = 3
  \* KernelModules
  Module = {"a", "b", "c"}
  Inquiry <- Inquiries
  LinkDepth = 4
  \* Importer
  Mirrored = 3
  Length = 5
INVARIANTS
  TypeOK PartsLiveTogether KeysCurrent MountsSound CheckoutSound
  CapturedTreeReturns CompletedIsDisk OneInFlight VerbsPassCheck CatalogSound
  GeneratedConfigSound InitrdComplete
  HandshakeSound ShowsDeclared SupplySound InstallSound PlanSound CommandSound
  VersionsSound ArchiveSound ManifestSound
PROPERTIES
  AskedAgain UpdateKeepsOurs
CHECK_DEADLOCK FALSE
