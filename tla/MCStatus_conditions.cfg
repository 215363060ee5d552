\* Disturbances during the first rollout and after it.
SPECIFICATION Spec
CONSTANTS
    NoDeployment = NoDeployment
    NoMemo = NoMemo
    MaxDisturbances = 2
INVARIANT TypeOK
PROPERTIES NeverRegresses StatusConverges
