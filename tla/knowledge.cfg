\* Two shells on one instance; commands fail or are killed anywhere.
CONSTANTS
  career = career
  beacon = beacon
  Beacon = Beacon
  blank = blank
  page = page
  page_utm = page_utm
  Shells = {s1, s2}
  Resumes = {resume1, resume2}
  Subjects = {career, beacon, Beacon, blank}
  Blank = blank
  Casefold <- MCCasefold
  Urls = {page_utm, page}
  NormalUrl <- MCNormalUrl
  CustomIds = {}
  Fields = {display_name}
  DisplayName = display_name
  None = None
  MaxDrafts = 1
  Scores = {1, 2}
  TopK = 2
SPECIFICATION Spec
SYMMETRY Interchangeable
INVARIANTS
  IndexValid
  RetrievalRanked
PROPERTIES
  InitKeepsWhatIsThere
  ImportHonest
  ServableForGood
