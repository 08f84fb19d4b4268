\* Two callers, from any point on the way of a release, or from a campaign
\* whose sources have news, or on the way of a fix that is validated.  The
\* bounds on new events and refused commands stop them.
SPECIFICATION Spec
CHECK_DEADLOCK FALSE

CONSTANTS
    c1 = c1 c2 = c2
    Callers = {c1, c2}
    Troubles <- MCTroubles
    Linkage <- MCLinkage
    Sources <- MCSources
    Findings <- MCFindings
    Claims <- MCClaims
    Sightings <- MCSightings
    Worksets <- MCWorksets
    Closings <- MCClosings
    Requests <- MCRequests
    Beginnings <- MCBeginnings
    Tags = {"default", "again"}
    First = "default"
    NoKey = NoKey
    MaxRefusals = 1

SYMMETRY MCSymmetry

INVARIANTS
    OneResultPerIntent
    ResumesAreAuthorized
    NoRevival
    CampaignsDoNotFork
    PlannerAskedOnRecord
    ResultsAreAnswers
    FixesAreProven

