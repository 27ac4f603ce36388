SPECIFICATION OneSpec
CONSTANTS
    h1 = h1  h2 = h2
    Parts = {"http"}
    Urls <- Ports
    Codes <- FourCodes
    RedirectLimit = 2
    Relative = Relative  None = None  Rest = Rest
    Fds <- ThreeFds
    Host <- TwoHosts
    File <- Files
    Prefix <- PictBeginsWithPic
    Webs <- SomeWebs
    FirstUrl <- Index
    MaxTotalUrls = 2
    MaxRecursion = 2
INVARIANTS
    GetsFromItsServer
