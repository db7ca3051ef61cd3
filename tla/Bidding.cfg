SPECIFICATION Spec
CONSTANTS
  art = art
  c1 = c1
  c2 = c2
  c3 = c3
  anon = anon
  ann = ann
  bob = bob
  NoClient = NoClient
  NoName = anon
  Articles <- MCArticles
  Clients <- MCClients
  Nicknames <- MCNicknames
  Pages <- MCPages
  Bids <- MCBids
  OpeningPrices <- MCOpeningPrices
  MinInt <- MCMinInt
  MaxInt <- MCMaxInt
INVARIANTS
  TypeOK
  NoticeAgreesWithPrice
  RecordedClientKnows
  StaleLeadersShareNickname
PROPERTY ImplementsProxyAuction
