SPECIFICATION CrawlersSpec
CONSTANTS
    home = home  a = a  b = b  c = c  foreign = foreign
    w1 = w1  w2 = w2  None = None
    root = root  d1 = d1  d2 = d2  f1 = f1  f2 = f2  f3 = f3  f4 = f4
    Pages <- ThePages
    Start = home
    Site <- TheSite
    Webs <- TheWebs
    MaxWorkers = 2  Workers <- TwoWorkers
    Directories <- ThreeDirectories  Root = root  Files <- FourFiles  Trees <- TheTrees
INVARIANTS CountsAreExact FindersAgree
PROPERTIES ImplementsCrawl CrawlEnds
CHECK_DEADLOCK FALSE
