SPECIFICATION Spec
CONSTANTS
  r1 = r1
  r2 = r2
  s1 = s1
  Request <- TwoRequests
  Scraper <- OneScraper
  ExporterLists <- MCExporterLists
  Resource <- NameAndVersion
  Bounds <- TwoBounds
  Outcomes <- MCOutcomes
SYMMETRY RequestSymmetry
INVARIANTS
  ScrapesTell
  SeriesDistinct
