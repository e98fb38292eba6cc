SPECIFICATION FairSpec
CONSTANTS
  root = root
  light = light
  Root = root
  Embedded = {}
  Service = {light}
  Download = {d1}
  MaxLoops = 2
  Target <- SearchService
PROPERTY Discovered
