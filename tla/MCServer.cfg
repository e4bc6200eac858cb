\* Two calls of each kind; three packages; two repositories, paths, identities, pages,
\* websites and wallets; pages and a list of two notices; a certificate is due at
\* half its life.
CONSTANTS
  g1 = g1
  g2 = g2
  cf = cf
  foo = foo
  foobar = foobar
  ada = ada
  page1 = page1
  page2 = page2
  w1 = w1
  w2 = w2
  Callers <- Greenlets
  Nobody = nobody
  Pkgs = {cf, foo, foobar}
  Chatflows = cf
  Serviced <- PkgsServed
  Prefixed <- PkgsPrefixed
  Starter = starter
  MaxCalls = 3
  Repos = {r1, r2}
  MaxSnaps = 2
  Paths = {"a", "ba"}
  Within <- ScriptsWithin
  MaxLines = 2
  SeenMax = 2
  Page = 2
  MaxNotices = 3
  Emails = {ada}
  MaxMails = 2
  Labels = {l1, l2}
  Admins = {ada}
  Tries = 2
  MaxWallets = 3
  Pages = {page1, page2}
  Home = home
  Users = {ada}
  MaxStates = 2
  Websites = {w1, w2}
  Life = 4
  Due = 2
  Voters = {ada}
  VoterOf <- OneVoter
  Wallets = {w1, w2}
  Tokens <- OneFilled
SPECIFICATION Spec
INVARIANTS
  TypeOK
  
  QueuesDeliver
  
  
  RenewedInTime
  
PROPERTIES
  BackupsStay
SYMMETRY Interchangeable
CHECK_DEADLOCK FALSE
