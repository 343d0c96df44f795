\* Two services that migrate on boot, one of them from an edited image, and the
\* migration command of a branch.
SPECIFICATION FairSpec
CONSTANTS
    Instances = {s1, s2, command}
    Migrates = {s1, s2, command}
    Commands = {command}
    Release = {s1}
    Branch = {command}
    Edited = {s2}
    Image <- ImageOf
    Nobody = Nobody
INVARIANT ServesItsSchema
PROPERTY KeepsHistory
PROPERTY EveryBootEnds
