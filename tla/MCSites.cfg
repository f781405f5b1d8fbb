SPECIFICATION Spec
CONSTANTS
  URLs <- MCURLs
  Of <- MCOf
  Jobs <- MCJobs
  Ids <- MCIds
  MaximumLimit = 20
  MaximumDepth = 3
  MaximumSitemaps = 4
  SitemapBatchSize = 2
  MaximumRobotsRules = 5
  MaximumPageLinks = 6
  CrawlBatchSize = 2
  MaximumCrawlPages = 4
  MaximumRenders = 2
  MaximumExplores = 1
  MaximumScripts = 2
  MaximumEndpoints = 2
  ShapeSampleLimit = 2
  SimilarityDistance = 1
  TemplateThreshold = 3
  Hunts <- MCHunts
  Concurrency = 2
  MaximumPages = 9
  MaximumEmails = 4
  MaxCandidates = 6
  MaxSitemapRequests = 2
  MaxDepth = 2
INVARIANTS
  CrawlIsPolite
  LinksAreAccountedFor
  TemplatesAreTight
  OkMeansComplete
  SearchStaysWithinLimits
PROPERTIES
  EveryRunEnds
