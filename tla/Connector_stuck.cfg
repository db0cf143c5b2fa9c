CONSTANTS
    k1 = k1
    k2 = k2
    k3 = k3
    Calls = {k1, k2, k3}
    FailureThreshold = 2
    Deployments <- TwiceDeployments
SPECIFICATION FairSpec
PROPERTIES
    BreakerRecovers
